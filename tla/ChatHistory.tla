----------------------------- MODULE ChatHistory -----------------------------
(***************************************************************************)
(* The download of the chats configured in config.yaml: download_all_chat  *)
(* reads the history of one chat after the other from the saved position,  *)
(* workers finish the messages in any order, and update_config writes the  *)
(* positions to config.yaml and the unfinished messages to data.yaml, from *)
(* which the next process goes on. The files are those of ConfigPair.      *)
(***************************************************************************)
EXTENDS ConfigPair, Sequences, FiniteSets, FiniteSetsExt

CONSTANTS
  Chats,
  Newest,        \* bound: messages 1 .. Newest of every chat
  Wanted,      \* messages [chat, number] that the filter of the chat lets pass
  Outside,     \* messages [chat, number] that other tasks download
  MaxSaves     \* bound: calls of update_config

Messages == 1 .. Newest
Ids == Chats \X Messages

VARIABLES
  config,      \* app.config["chat"]: entries [chat, pos]
  appdata,     \* app.app_data["chat"]: entries [chat, retry]
  pos,         \* last_read_message_id
  finish,      \* whether finish_task is positive
  retry, known,\* ids_to_retry, and ids_to_retry_dict as loaded
  status,      \* download_status of the node of the chat
  chat,        \* the number of the chat that is being read
  again, next, \* its retries to enqueue, and its next message
  got,         \* messages downloaded or found on disk
  leaving,     \* the shutdown has begun
  saves

memory == <<config, appdata, pos, finish, retry, known, status, chat, again, next, leaving>>
vars == <<pairVars, memory, got, saves>>

ASSUME HistoryAssumption ==
  /\ Chats # {} /\ {Newest, MaxSaves} \subseteq Nat \ {0}
  /\ Wanted \subseteq Ids /\ Outside \subseteq Ids

-----------------------------------------------------------------------------
(* The chats of a configuration: chat_download_config has one entry per    *)
(* chat, in the order in which they first come.                            *)
First(cfg) == {i \in DOMAIN cfg : \A j \in 1 .. i - 1 : cfg[j].chat # cfg[i].chat}
Rank(F, i) == Cardinality({j \in F : j <= i})
Keys(cfg) ==
  LET F == First(cfg)
  IN [n \in 1 .. Cardinality(F) |-> cfg[CHOOSE i \in F : Rank(F, i) = n].chat]

(* assign_config and assign_app_data: a later entry of a chat overrides an *)
(* earlier one.                                                            *)
Entries(list, c) == {i \in DOMAIN list : list[i].chat = c}
LastEntry(list, c) == list[Max(Entries(list, c))]
SavedPos(d, c) == LastEntry(d[1], c).pos
SavedRetry(d, c) == IF Entries(d[2], c) = {} THEN {} ELSE LastEntry(d[2], c).retry
Configured(d) == {c \in Chats : Entries(d[1], c) # {}}

Unread == [m \in Messages |-> "none"]

Load ==
  LET d == dir.file IN
  /\ Recovered("load")
  /\ config' = d[1] /\ appdata' = d[2]
  /\ pos' = [c \in Chats |-> IF c \in Configured(d) THEN SavedPos(d, c) ELSE 0]
  /\ retry' = [c \in Chats |-> SavedRetry(d, c)] /\ known' = retry'
  /\ finish' = [c \in Chats |-> FALSE] /\ status' = [c \in Chats |-> Unread]
  /\ chat' = 1 /\ again' = retry'[d[1][1].chat] /\ next' = pos'[d[1][1].chat]
  /\ leaving' = FALSE
  /\ UNCHANGED <<got, saves>>

Forget ==
  /\ config' = <<>> /\ appdata' = <<>>
  /\ pos' = [c \in Chats |-> 0] /\ finish' = [c \in Chats |-> FALSE]
  /\ retry' = [c \in Chats |-> {}] /\ known' = retry' /\ status' = [c \in Chats |-> Unread]
  /\ chat' = 0 /\ again' = {} /\ next' = 0 /\ leaving' = FALSE

-----------------------------------------------------------------------------
(* download_chat_task                                                      *)
Running == step = "idle" /\ ~leaving
Reading == Running /\ chat <= Len(Keys(config))
Current == Keys(config)[chat]
Enqueue(m) == status' = [status EXCEPT ![Current][m] = "downloading"]
Still == UNCHANGED <<pairVars, config, appdata, retry, known, leaving, saves>>

EnqueueAgain(m) ==
  /\ Reading /\ m \in again
  /\ Enqueue(m) /\ again' = again \ {m}
  /\ Still /\ UNCHANGED <<pos, finish, chat, next, got>>

ReadMessage ==
  LET m == IF next = 0 THEN 1 ELSE next IN
  /\ Reading /\ again = {} /\ m \in Messages
  /\ next' = m + 1
  /\ IF m \in known[Current] THEN UNCHANGED status
     ELSE IF <<Current, m>> \in Wanted THEN Enqueue(m)
     ELSE status' = [status EXCEPT ![Current][m] = "skipped"]
  /\ Still /\ UNCHANGED <<pos, finish, chat, again, got>>

(* The history is read to its end, or a request raises: the next chat.     *)
NextChat ==
  /\ Reading /\ chat' = chat + 1
  /\ LET c == IF chat' <= Len(Keys(config)) THEN Keys(config)[chat'] ELSE Current
     IN again' = retry[c] /\ next' = pos[c]
  /\ Still /\ UNCHANGED <<pos, finish, status, got>>

(* set_download_id and run_download_phase                                  *)
SetDownloadId(c, m) ==
  /\ pos' = [pos EXCEPT ![c] = Max({@, m})]
  /\ finish' = [finish EXCEPT ![c] = TRUE]

Finish(c, m, result) ==
  /\ Running /\ status[c][m] = "downloading"
  /\ SetDownloadId(c, m)
  /\ status' = [status EXCEPT ![c][m] = result]
  /\ got' = IF result = "failed" THEN got ELSE got \union {<<c, m>>}
  /\ Still /\ UNCHANGED <<chat, again, next>>

(* run_file_lifecycle: an exception of the download phase is a failure     *)
(* that set_download_id does not learn of.                                 *)
Raise(c, m) ==
  /\ Running /\ status[c][m] = "downloading"
  /\ status' = [status EXCEPT ![c][m] = "failed"]
  /\ Still /\ UNCHANGED <<pos, finish, chat, again, next, got>>

(* A message of the chat is downloaded for a task of the web console or a  *)
(* package: it has a node of its own, and the same set_download_id.        *)
FinishOutside(c, m) ==
  /\ <<c, m>> \in Outside /\ Running /\ c \in Configured(<<config, appdata>>)
  /\ SetDownloadId(c, m)
  /\ got' = got \union {<<c, m>>}
  /\ Still /\ UNCHANGED <<status, chat, again, next>>

-----------------------------------------------------------------------------
(* update_config: the positions and the unfinished messages by the place   *)
(* of the chat in the configuration.                                       *)
\* Mutant: what was to be retried and has not come up yet does not count.
UnfinishedOf(c) == {m \in Messages : status[c][m] \in {"downloading", "failed"}}

Unfinished(c) ==
  {m \in Messages : \/ status[c][m] \in {"downloading", "failed"}
                    \/ m \in retry[c] /\ status[c][m] \notin {"done", "skipped"}}

UpdatedConfig ==
  LET keys == Keys(config)
  IN [i \in DOMAIN config |->
        IF i \in DOMAIN keys /\ finish[keys[i]]
        THEN [config[i] EXCEPT !.pos = pos[keys[i]] + 1] ELSE config[i]]
UpdatedAppData(unfinished) ==
  LET keys == Keys(config)
  IN [i \in 1 .. Max({Len(keys), Len(appdata)}) |->
        IF i \in DOMAIN keys THEN [chat |-> keys[i], retry |-> unfinished[keys[i]]]
        ELSE appdata[i]]

UpdateConfig ==
  LET unfinished == [c \in Chats |-> Unfinished(c)] IN
  /\ Running /\ saves < MaxSaves /\ saves' = saves + 1
  /\ config' = UpdatedConfig
  /\ appdata' = UpdatedAppData(unfinished)
  /\ retry' = unfinished
  /\ Begin(<<config', appdata'>>)
  /\ UNCHANGED <<pos, finish, known, status, chat, again, next, got>>

SaveSettings == UpdateConfig /\ UNCHANGED leaving
Shutdown == UpdateConfig /\ leaving' = TRUE

-----------------------------------------------------------------------------
HistoryInit ==
  /\ PairInit
  /\ config = <<>> /\ appdata = <<>>
  /\ pos = [c \in Chats |-> 0] /\ finish = [c \in Chats |-> FALSE]
  /\ retry = [c \in Chats |-> {}] /\ known = retry /\ status = [c \in Chats |-> Unread]
  /\ chat = 0 /\ again = {} /\ next = 0 /\ leaving = FALSE /\ saves = 0
  /\ got = {i \in Ids : /\ i[1] \in Configured(dir.file) /\ i[2] < SavedPos(dir.file, i[1])
                        /\ i[2] \notin SavedRetry(dir.file, i[1])}

Next ==
  \/ (Start \/ Write \/ Fail) /\ UNCHANGED <<memory, got, saves>>
  \/ Load
  \/ Stop /\ leaving /\ Forget /\ UNCHANGED <<got, saves>>
  \/ Crash /\ Forget /\ UNCHANGED <<got, saves>>
  \/ \E m \in Messages : EnqueueAgain(m)
  \/ ReadMessage \/ NextChat
  \/ \E c \in Chats, m \in Messages :
       \/ Finish(c, m, "done") \/ Finish(c, m, "failed")
       \/ Raise(c, m) \/ FinishOutside(c, m)
  \/ SaveSettings \/ Shutdown
Spec == HistoryInit /\ [][Next]_vars

-----------------------------------------------------------------------------
(* README.md:333 says of ids_to_retry, "used by the downloader script to  *)
(* keep track of all skipped downloads so that it can be downloaded during *)
(* the next execution": from what a crash leaves on disk at any moment,    *)
(* the next process reads every message that passes the filter and has not *)
(* been downloaded, or has it among those to retry.                        *)
NothingForgotten ==
  \A d \in past : LET saved == Reads(d) IN
    \A c \in Configured(saved), m \in Messages :
      <<c, m>> \in Wanted \ got =>
        \/ m >= SavedPos(saved, c)
        \/ m \in SavedRetry(saved, c)

(* A message that was to be retried by the next process stays on disk as   *)
(* such, through shutdowns in the middle of a run, saved settings, failed  *)
(* writes and crashes, until it has been downloaded.                       *)
RetriedUntilDone ==
  [][\A c \in Chats : SavedRetry(Reads(durable), c) \ SavedRetry(Reads(durable'), c)
                         \subseteq {m \in Messages : <<c, m>> \in got}]_vars
=============================================================================
