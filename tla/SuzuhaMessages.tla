--------------------------- MODULE SuzuhaMessages ---------------------------
(***************************************************************************)
(* Messages between the threads of SuzuhaOS (suzuha/lib/messages_f.c): a   *)
(* table that every thread searches, one slot in each masked section.  The *)
(* scheduler is any interleaving of the threads that are not asleep: each  *)
(* of them runs again and again (Deadline of SuzuhaKernel).  Every thread  *)
(* has one name; a message is stored whole, its size and data are one      *)
(* number.                                                                 *)
(***************************************************************************)
EXTENDS Naturals, Sequences

CONSTANTS
  Threads,   \* slots of __thread__
  Name,      \* the symbolic name of each thread
  Fifo,      \* MSG_FIFO_SIZE
  MaxSent    \* bound: how many messages are sent

MSG_NULL == 0

ASSUME MessagesAssumption ==
  /\ Name \in [Threads -> Nat \ {MSG_NULL}]
  /\ \A t, u \in Threads : Name[t] = Name[u] => t = u
  /\ Fifo \in Nat \ {0} /\ MaxSent \in Nat

VARIABLES
  names,     \* __msg_names__
  table,     \* __msg__
  pc,        \* the call each thread is in
  msg,       \* what it sends
  index,     \* i of msg_get and msg_check
  res,       \* what its last msg_check returned
  waiting,   \* threads that other libraries have put to sleep
  sent,      \* how many messages have been sent, which makes them different
  accepted,  \* messages that were stored
  got        \* what msg_get has given to each thread

args == <<msg, index, res>>   \* dead values are reset
history == <<sent, accepted, got>>
vars == <<names, table, pc, args, waiting, history>>

Slots == 0..Fifo - 1
Names == {Name[t] : t \in Threads}
Message == [source : Names, destination : Names, data : Nat]
Empty == [source |-> MSG_NULL, destination |-> MSG_NULL, data |-> MSG_NULL]

\* messages_init
Init ==
  /\ names = [t \in Threads |-> MSG_NULL]
  /\ table = [i \in Slots |-> Empty]
  /\ pc = [t \in Threads |-> "run"]
  /\ msg = [t \in Threads |-> Empty]
  /\ index = [t \in Threads |-> 0]
  /\ res = [t \in Threads |-> FALSE]
  /\ waiting = {} /\ sent = 0 /\ accepted = {}
  /\ got = [t \in Threads |-> <<>>]

At(t, l) == t \notin waiting /\ pc[t] = l
Goto(t, l) == pc' = [pc EXCEPT ![t] = l]

Register(t) ==
  /\ At(t, "run") /\ names[t] = MSG_NULL
  /\ names' = [names EXCEPT ![t] = Name[t]]
  /\ UNCHANGED <<table, pc, args, waiting, history>>

Unregister(t) ==
  /\ At(t, "run") /\ names[t] # MSG_NULL
  /\ names' = [names EXCEPT ![t] = MSG_NULL]
  /\ res' = [res EXCEPT ![t] = FALSE]   \* its answer was about this name
  /\ UNCHANGED <<table, pc, msg, index, waiting, history>>

\* set_wait_state in another library.
Sleep(t) ==
  /\ At(t, "run")
  /\ waiting' = waiting \cup {t}
  /\ UNCHANGED <<names, table, pc, args, history>>

\* msg_raise or msg_raise_async, with a message that nobody has sent yet.
CallRaise(t, how, to) ==
  /\ At(t, "run") /\ sent < MaxSent
  /\ msg' = [msg EXCEPT ![t] = [source |-> Name[t], destination |-> to,
                                data |-> sent]]
  /\ sent' = sent + 1
  /\ Goto(t, how)
  /\ UNCHANGED <<names, table, index, res, waiting, accepted, got>>

Raising(t) == At(t, "raise") \/ At(t, "async")

Listener(name) == \E u \in Threads : names[u] = name

Free(i) == table[i].source = MSG_NULL

\* The masked section of msg_raise_async finds no listener ...
RaiseRefused(t) ==
  /\ Raising(t) /\ ~Listener(msg[t].destination)
  /\ Goto(t, IF pc[t] = "raise" THEN "wake" ELSE "run")
  /\ msg' = [msg EXCEPT ![t] = Empty]
  /\ UNCHANGED <<names, table, index, res, waiting, history>>

\* Mutant of RaiseStored: any slot without a message for this listener is taken.
RaiseStoredOver(t) ==
  /\ Raising(t) /\ Listener(msg[t].destination)
  /\ \E i \in Slots :
       /\ table[i].destination # msg[t].destination
       /\ \A j \in 0..i - 1 : table[j].destination = msg[t].destination
       /\ table' = [table EXCEPT ![i] = msg[t]]
  /\ accepted' = accepted \cup {msg[t]}
  /\ Goto(t, "wake")
  /\ msg' = [msg EXCEPT ![t] = Empty]
  /\ UNCHANGED <<names, index, res, waiting, sent, got>>

\* ... or stores the message in the first free slot ...
RaiseStored(t) ==
  /\ Raising(t) /\ Listener(msg[t].destination)
  /\ \E i \in Slots :
       /\ Free(i) /\ \A j \in 0..i - 1 : ~Free(j)
       /\ table' = [table EXCEPT ![i] = msg[t]]
  /\ accepted' = accepted \cup {msg[t]}
  /\ Goto(t, "wake")
  /\ msg' = [msg EXCEPT ![t] = Empty]
  /\ UNCHANGED <<names, index, res, waiting, sent, got>>

\* ... or finds none, and msg_raise will try again.
RaiseFull(t) ==
  /\ Raising(t) /\ Listener(msg[t].destination)
  /\ \A i \in Slots : ~Free(i)
  /\ Goto(t, IF pc[t] = "raise" THEN "wakeAndRetry" ELSE "wake")
  /\ msg' = [msg EXCEPT ![t] = IF pc[t] = "raise" THEN @ ELSE Empty]
  /\ UNCHANGED <<names, table, index, res, waiting, history>>

\* wake_up_threads, as a whole; msg_raise calls it twice in a row.
WakeUpThreads(t) ==
  /\ \/ At(t, "wake") /\ Goto(t, "run")
     \/ At(t, "wakeAndRetry") /\ Goto(t, "raise")
  /\ waiting' = {}
  /\ UNCHANGED <<names, table, args, history>>

\* msg_get and msg_check are for registered threads.
CallSearch(t, how) ==
  /\ At(t, "run") /\ names[t] # MSG_NULL
  /\ res' = [res EXCEPT ![t] = FALSE]
  /\ Goto(t, how)
  /\ UNCHANGED <<names, table, msg, index, waiting, history>>

ForMe(t) == table[index[t]].destination = names[t]

\* Mutant of Cleared: the slot becomes free, but the message can be found again.
SourceCleared(i) == [table EXCEPT ![i].source = MSG_NULL]

Cleared(i) == [table EXCEPT ![i] = Empty]

GetTakes(t) ==
  /\ At(t, "get") /\ ForMe(t)
  /\ got' = [got EXCEPT ![t] = Append(@, table[index[t]])]
  /\ table' = Cleared(index[t])
  /\ Goto(t, "run")
  /\ index' = [index EXCEPT ![t] = 0]
  /\ UNCHANGED <<names, msg, res, waiting, sent, accepted>>

\* Mutant of GetLooksOn: the search does not begin anew after the last slot.
GetStaysAtEnd(t) ==
  /\ At(t, "get") /\ ~ForMe(t)
  /\ index' = [index EXCEPT ![t] = IF @ + 1 = Fifo THEN @ ELSE @ + 1]
  /\ UNCHANGED <<names, table, pc, msg, res, waiting, history>>

GetLooksOn(t) ==
  /\ At(t, "get") /\ ~ForMe(t)
  /\ index' = [index EXCEPT ![t] = (@ + 1) % Fifo]
  /\ UNCHANGED <<names, table, pc, msg, res, waiting, history>>

\* Mutant of CheckLooks: any message will do.
CheckLooksAtAny(t) ==
  /\ At(t, "check")
  /\ res' = [res EXCEPT ![t] = @ \/ ~Free(index[t])]
  /\ index' = [index EXCEPT ![t] = (@ + 1) % Fifo]
  /\ IF index[t] + 1 = Fifo THEN Goto(t, "run") ELSE UNCHANGED pc
  /\ UNCHANGED <<names, table, msg, waiting, history>>

CheckLooks(t) ==
  /\ At(t, "check")
  /\ res' = [res EXCEPT ![t] = @ \/ ForMe(t)]
  /\ index' = [index EXCEPT ![t] = (@ + 1) % Fifo]
  /\ IF index[t] + 1 = Fifo THEN Goto(t, "run") ELSE UNCHANGED pc
  /\ UNCHANGED <<names, table, msg, waiting, history>>

Send(t) == RaiseRefused(t) \/ RaiseStored(t) \/ RaiseFull(t) \/ WakeUpThreads(t)

Search(t) == GetTakes(t) \/ GetLooksOn(t) \/ CheckLooks(t)

Call(t) ==
  \/ Register(t) \/ Unregister(t) \/ Sleep(t)
  \/ \E how \in {"raise", "async"}, to \in Names : CallRaise(t, how, to)
  \/ \E how \in {"get", "check"} : CallSearch(t, how)

Next == \E t \in Threads : Call(t) \/ Send(t) \/ Search(t)

Spec == Init /\ [][Next]_vars

\* A thread inside a call goes on with it; nobody has to call anything.
FairSpec == Spec /\ \A t \in Threads : WF_vars(Send(t)) /\ WF_vars(Search(t))
-----------------------------------------------------------------------------
\* The variables keep their types.
TypeOK ==
  /\ names \in [Threads -> Names \cup {MSG_NULL}]
  /\ table \in [Slots -> Message \cup {Empty}]
  /\ pc \in [Threads -> {"run", "raise", "async", "wake", "wakeAndRetry", "get", "check"}]
  /\ msg \in [Threads -> Message \cup {Empty}]
  /\ index \in [Threads -> Slots]
  /\ res \in [Threads -> BOOLEAN]
  /\ waiting \subseteq Threads
  /\ sent \in Nat
  /\ accepted \subseteq Message
  /\ got \in [Threads -> Seq(Message)]

NotLost ==
  \A m \in accepted :
    \/ \E i \in Slots : table[i] = m
    \/ \E t \in Threads : \E k \in DOMAIN got[t] : got[t][k] = m

TableInOrder ==
  \A i \in Slots :
    table[i] # Empty =>
      /\ table[i] \in accepted
      /\ \A j \in Slots : table[j] = table[i] => j = i
      /\ \A t \in Threads : \A k \in DOMAIN got[t] : got[t][k] # table[i]

Addressed ==
  \A t \in Threads : \A k \in DOMAIN got[t] :
    /\ got[t][k] \in accepted /\ got[t][k].destination = Name[t]
    /\ \A j \in DOMAIN got[t] : got[t][j] = got[t][k] => j = k

\* However the searches and the stores of the threads mix, a message that was
\* stored is in the table or has been received, once, and by its addressee.
ExactlyOnce == NotLost /\ TableInOrder /\ Addressed

\* What msg_check has found is still there when the thread calls msg_get.
CheckedIsThere ==
  \A t \in Threads :
    res[t] /\ pc[t] = "run" => \E i \in Slots : table[i].destination = names[t]

\* A thread in msg_get receives something if there is something for it, although
\* it looks at one slot at a time and others take and store behind its back.
Received ==
  \A t \in Threads :
    (pc[t] = "get" /\ \E i \in Slots : table[i].destination = names[t])
      ~> pc[t] # "get"
=============================================================================
