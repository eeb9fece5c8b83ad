--------------------------- MODULE MCPackageIndex ---------------------------
EXTENDS PackageIndex

\* An album (2, 3) whose caption is on its last message and lies in two
\* batches; losing it would join the packages before and after it. And a
\* package of three messages that losing its first two cuts.
MCChannels == {<<"A", "plain", "B", "A">>, <<"A", "A", "A", "B">>}

\* One of each, or two ranges lost.
MCBounds == {<<1, 1, 1>>, <<2, 0, 0>>}
=============================================================================
