-------------------------- MODULE MCTelegramActivity --------------------------
EXTENDS TelegramActivity
=============================================================================
