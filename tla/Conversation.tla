---------------------------- MODULE Conversation ----------------------------
(***************************************************************************)
(* Publishers, subscribers and managers at work at the same time, from the *)
(* keyboard of one user to the screen of another: the loops of             *)
(* publisher/pub.c and subscriber/sub.c, the sessions of mbroker.c that    *)
(* serve them, and the listings of module Listing, joined by messages_lock *)
(* and by FIFOs that hold PipeSize packets.                                *)
(*                                                                         *)
(* What a box does with a message, its file and its counters are           *)
(* MessageBox; here it is a log, as MessageLog promises.  Nobody is        *)
(* suspended but subscribers and managers, and no box of a conversation    *)
(* is removed.  A line is what fgets returns: at most 1023 characters.    *)
(***************************************************************************)
EXTENDS Listing

CONSTANTS
  Pubs, Subs, \* runs of pub and of sub
  Topic,      \* Topic[c]: the box name c is given
  MaxLines,   \* bound: lines typed by one user
  NoBox       \* what a subscriber that is not registered reads

ASSUME ConversationAssumption ==
  /\ Topic \in [Pubs \cup Subs -> BoxNames \ Churn]
  /\ Suspendable \subseteq Managers \cup Subs
  /\ MaxLines \in Nat /\ NoBox \notin BoxNames

Lines == Pubs \X (1 .. MaxLines)

VARIABLES
  typed,     \* typed[p]: lines p's user has typed
  eof,       \* eof[p]: p's input has ended, be it in the middle of a line
  pub,       \* pub[p]: where p is in its loop, or how it ended
  taken,     \* taken[p]: lines fgets has returned
  toWorker,  \* toWorker[p]: the FIFO of p
  wpub,      \* wpub[p]: the session of the worker that serves p
  log,       \* log[b]: the messages published in b
  wsub,      \* wsub[s]: the session of the worker that serves s
  forwarded, \* forwarded[s]: how many messages its worker has taken from the file
  toClient,  \* toClient[s]: the FIFO of s
  sub,       \* sub[s]: where s is, or how it ended
  printed    \* printed[s]: what s has printed

keyboard  == <<typed, eof>>
publisher == <<pub, taken>>
pubside   == <<keyboard, publisher, toWorker, wpub>>
subside   == <<wsub, forwarded, toClient, sub, printed>>
vars == <<lvars, pubside, log, subside>>

Publishing == {"fgets", "write"}
Session == {"dequeued", "serving", "ended", "refused"}

TypeOK ==
  /\ ListingTypeOK
  /\ typed \in [Pubs -> 0 .. MaxLines]
  /\ eof \in [Pubs -> BOOLEAN]
  /\ pub \in [Pubs -> Publishing \cup {"ended", "killed", "interrupted"}]
  /\ taken \in [Pubs -> 0 .. MaxLines]
  /\ toWorker \in [Pubs -> Seq(Lines)]
  /\ wpub \in [Pubs -> Session]
  /\ log \in [BoxNames -> Seq(Lines)]
  /\ wsub \in [Subs -> Session]
  /\ forwarded \in [Subs -> Nat]
  /\ toClient \in [Subs -> Seq(Lines)]
  /\ sub \in [Subs -> {"read", "disconnected", "interrupted"}]
  /\ printed \in [Subs -> Seq(Lines)]
  /\ \A p \in Pubs : Len(toWorker[p]) <= PipeSize
  /\ \A s \in Subs : Len(toClient[s]) <= PipeSize

Init ==
  /\ ListingInit
  /\ typed = [p \in Pubs |-> 0]
  /\ eof = [p \in Pubs |-> FALSE]
  /\ pub = [p \in Pubs |-> "fgets"]
  /\ taken = [p \in Pubs |-> 0]
  /\ toWorker = [p \in Pubs |-> <<>>]
  /\ wpub = [p \in Pubs |-> "dequeued"]
  /\ log = [b \in BoxNames |-> <<>>]
  /\ wsub = [s \in Subs |-> "dequeued"]
  /\ forwarded = [s \in Subs |-> 0]
  /\ toClient = [s \in Subs |-> <<>>]
  /\ sub = [s \in Subs |-> "read"]
  /\ printed = [s \in Subs |-> <<>>]

-----------------------------------------------------------------------------
(* A user, and pub.c                                                       *)

TypeLine(p) ==
  /\ ~eof[p]
  /\ typed[p] < MaxLines
  /\ typed' = [typed EXCEPT ![p] = @ + 1]
  /\ UNCHANGED <<lvars, eof, publisher, toWorker, wpub, log, subside>>

(* Ctrl-D at the start of a line, or the end of a file whose last line has *)
(* no newline.                                                             *)
EndInput(p) ==
  /\ ~eof[p]
  /\ eof' = [eof EXCEPT ![p] = TRUE]
  /\ UNCHANGED <<lvars, typed, publisher, toWorker, wpub, log, subside>>

(* Mutant: feof is tested after the write, as in while(!feof): fgets has   *)
(* left the line before in the packet, and it is sent again.               *)
EndSendsAgain(p) ==
  /\ pub[p] = "fgets"
  /\ taken[p] = typed[p] /\ eof[p]
  /\ taken[p] > 0 => wpub[p] \in {"dequeued", "serving"} /\ Len(toWorker[p]) < PipeSize
  /\ toWorker' = IF taken[p] > 0 THEN [toWorker EXCEPT ![p] = Append(@, <<p, taken[p]>>)] ELSE toWorker
  /\ pub' = [pub EXCEPT ![p] = "ended"]
  /\ UNCHANGED <<lvars, keyboard, taken, wpub, log, subside>>

(* At the end of its input the loop ends, with nothing written: if fgets   *)
(* has returned a piece of a line without a newline, it is dropped.        *)
EndOfInput(p) ==
  /\ pub[p] = "fgets"
  /\ taken[p] = typed[p] /\ eof[p]
  /\ pub' = [pub EXCEPT ![p] = "ended"]
  /\ UNCHANGED <<lvars, keyboard, taken, toWorker, wpub, log, subside>>

ReadLine(p) ==
  /\ pub[p] = "fgets"
  /\ taken[p] < typed[p]
  /\ taken' = [taken EXCEPT ![p] = @ + 1]
  /\ pub' = [pub EXCEPT ![p] = "write"]
  /\ UNCHANGED <<lvars, keyboard, toWorker, wpub, log, subside>>

(* The write blocks while the FIFO is full; SIGPIPE kills when no worker   *)
(* has it open any more.                                                   *)
WriteLine(p) ==
  /\ pub[p] = "write"
  /\ \/ /\ wpub[p] \in {"ended", "refused"}
        /\ pub' = [pub EXCEPT ![p] = "killed"]
        /\ UNCHANGED toWorker
     \/ /\ wpub[p] \in {"dequeued", "serving"}
        /\ Len(toWorker[p]) < PipeSize
        /\ toWorker' = [toWorker EXCEPT ![p] = Append(@, <<p, taken[p]>>)]
        /\ pub' = [pub EXCEPT ![p] = "fgets"]
  /\ UNCHANGED <<lvars, keyboard, taken, wpub, log, subside>>

(* SIGINT makes a blocking fgets or write return, or is the one that kills.*)
InterruptPub(p) ==
  /\ pub[p] \in Publishing
  /\ Fault
  /\ pub' = [pub EXCEPT ![p] = "interrupted"]
  /\ UNCHANGED <<broker, stopped, handler, answer, program, keyboard, taken, toWorker, wpub, log, subside>>

-----------------------------------------------------------------------------
(* handle_packet_register_pub                                              *)

HasPublisher(b) == \E q \in Pubs : Topic[q] = b /\ wpub[q] = "serving"

(* A refusal closes the FIFO and drops what is in it.                      *)
RegisterPub(p) ==
  /\ LockFree
  /\ wpub[p] = "dequeued"
  /\ \/ /\ Topic[p] \notin Listed \/ HasPublisher(Topic[p])
        /\ wpub' = [wpub EXCEPT ![p] = "refused"]
        /\ toWorker' = [toWorker EXCEPT ![p] = <<>>]
     \/ /\ Topic[p] \in Listed
        /\ ~HasPublisher(Topic[p])
        /\ wpub' = [wpub EXCEPT ![p] = "serving"]
        /\ UNCHANGED toWorker
  /\ UNCHANGED <<lvars, keyboard, publisher, log, subside>>

(* Mutant: wait_mutex is held while a message is written to a subscriber.  *)
ReceiveAfterForward(p) ==
  /\ wpub[p] = "serving"
  /\ toWorker[p] # <<>>
  /\ \A s \in Subs : Topic[s] = Topic[p] /\ wsub[s] = "serving" => Len(toClient[s]) < PipeSize
  /\ toWorker' = [toWorker EXCEPT ![p] = Tail(@)]
  /\ log' = [log EXCEPT ![Topic[p]] = Append(@, Head(toWorker[p]))]
  /\ UNCHANGED <<lvars, keyboard, publisher, wpub, subside>>

Receive(p) ==
  /\ wpub[p] = "serving"
  /\ toWorker[p] # <<>>
  /\ toWorker' = [toWorker EXCEPT ![p] = Tail(@)]
  /\ log' = [log EXCEPT ![Topic[p]] = Append(@, Head(toWorker[p]))]
  /\ UNCHANGED <<lvars, keyboard, publisher, wpub, subside>>

(* read(2) returns 0: the FIFO is empty and the publisher has closed it.   *)
EndOfPipe(p) ==
  /\ wpub[p] = "serving"
  /\ toWorker[p] = <<>> /\ pub[p] \notin Publishing
  /\ wpub' = [wpub EXCEPT ![p] = "ended"]
  /\ UNCHANGED <<lvars, keyboard, publisher, toWorker, log, subside>>

-----------------------------------------------------------------------------
(* handle_packet_register_sub, and sub.c                                   *)

RegisterSub(s) ==
  /\ LockFree
  /\ wsub[s] = "dequeued"
  /\ wsub' = [wsub EXCEPT ![s] =
                IF Topic[s] \in Listed THEN "serving" ELSE "refused"]
  /\ UNCHANGED <<lvars, pubside, log, forwarded, toClient, sub, printed>>

Unforwarded(s) == wsub[s] = "serving" /\ forwarded[s] < Len(log[Topic[s]])

(* Mutant: a full FIFO is not waited for (O_NONBLOCK).                     *)
ForwardNonblock(s) ==
  /\ Unforwarded(s) /\ sub[s] = "read"
  /\ forwarded' = [forwarded EXCEPT ![s] = @ + 1]
  /\ toClient' = IF Len(toClient[s]) = PipeSize THEN toClient
                 ELSE [toClient EXCEPT ![s] = Append(@, log[Topic[s]][forwarded[s] + 1])]
  /\ UNCHANGED <<lvars, pubside, log, wsub, sub, printed>>

(* Holding no lock, the worker waits while the FIFO is full.               *)
Forward(s) ==
  /\ Unforwarded(s) /\ sub[s] = "read"
  /\ Len(toClient[s]) < PipeSize
  /\ forwarded' = [forwarded EXCEPT ![s] = @ + 1]
  /\ toClient' = [toClient EXCEPT ![s] = Append(@, log[Topic[s]][forwarded[s] + 1])]
  /\ UNCHANGED <<lvars, pubside, log, wsub, sub, printed>>

(* Mutant: what write returns is ignored.                                  *)
SubscriberGoneIgnored(s) ==
  /\ Unforwarded(s) /\ sub[s] # "read"
  /\ forwarded' = [forwarded EXCEPT ![s] = @ + 1]
  /\ UNCHANGED <<lvars, pubside, log, wsub, toClient, sub, printed>>

(* The write fails when the subscriber has left, and ends the session.     *)
SubscriberGone(s) ==
  /\ Unforwarded(s) /\ sub[s] # "read"
  /\ forwarded' = [forwarded EXCEPT ![s] = @ + 1]
  /\ wsub' = [wsub EXCEPT ![s] = "ended"]
  /\ UNCHANGED <<lvars, pubside, log, toClient, sub, printed>>

PrintMessage(s) ==
  /\ sub[s] = "read" /\ s \notin stopped
  /\ toClient[s] # <<>>
  /\ toClient' = [toClient EXCEPT ![s] = Tail(@)]
  /\ printed' = [printed EXCEPT ![s] = Append(@, Head(toClient[s]))]
  /\ UNCHANGED <<lvars, pubside, log, wsub, forwarded, sub>>

(* Mutant: what read returns is tested when the packet has been printed.   *)
DisconnectPrintsAgain(s) ==
  /\ sub[s] = "read" /\ s \notin stopped
  /\ toClient[s] = <<>> /\ wsub[s] \in {"ended", "refused"}
  /\ sub' = [sub EXCEPT ![s] = "disconnected"]
  /\ printed' = [printed EXCEPT ![s] = IF @ = <<>> THEN @ ELSE Append(@, @[Len(@)])]
  /\ UNCHANGED <<lvars, pubside, log, wsub, forwarded, toClient>>

(* Mutant: it leaves when its session ends, without reading on.            *)
DisconnectAtOnce(s) ==
  /\ sub[s] = "read" /\ s \notin stopped
  /\ wsub[s] \in {"ended", "refused"}
  /\ sub' = [sub EXCEPT ![s] = "disconnected"]
  /\ UNCHANGED <<lvars, pubside, log, wsub, forwarded, toClient, printed>>

(* read(2) returns 0: the FIFO is empty and the worker has closed it.      *)
Disconnect(s) ==
  /\ sub[s] = "read" /\ s \notin stopped
  /\ toClient[s] = <<>> /\ wsub[s] \in {"ended", "refused"}
  /\ sub' = [sub EXCEPT ![s] = "disconnected"]
  /\ UNCHANGED <<lvars, pubside, log, wsub, forwarded, toClient, printed>>

InterruptSub(s) ==
  /\ sub[s] = "read"
  /\ Fault
  /\ sub' = [sub EXCEPT ![s] = "interrupted"]
  /\ UNCHANGED <<broker, stopped, handler, answer, program, pubside, log, wsub, forwarded, toClient, printed>>

-----------------------------------------------------------------------------
Closed(session) ==
  [c \in DOMAIN session |-> CASE session[c] = "serving"  -> "ended"
                              [] session[c] = "dequeued" -> "refused"
                              [] OTHER                   -> session[c]]

(* SIGINT ends the broker, and with it every session.                      *)
StopBroker ==
  /\ StopListings
  /\ wpub' = Closed(wpub)
  /\ wsub' = Closed(wsub)
  /\ toWorker' = [p \in Pubs |-> <<>>]
  /\ UNCHANGED <<keyboard, publisher, log, forwarded, toClient, sub, printed>>

ServePub(p) == RegisterPub(p) \/ Receive(p) \/ EndOfPipe(p)
ServeSub(s) == RegisterSub(s) \/ Forward(s) \/ SubscriberGone(s)
PubStep(p)  == ReadLine(p) \/ EndOfInput(p) \/ WriteLine(p)
SubStep(s)  == PrintMessage(s) \/ Disconnect(s)

Next ==
  \/ ListingNext /\ UNCHANGED <<pubside, log, subside>>
  \/ \E p \in Pubs : TypeLine(p) \/ EndInput(p) \/ InterruptPub(p) \/ PubStep(p) \/ ServePub(p)
  \/ \E s \in Subs : InterruptSub(s) \/ SubStep(s) \/ ServeSub(s)
  \/ StopBroker

Spec == Init /\ [][Next]_vars

(* Workers are scheduled, and so are programs that are not suspended.      *)
(* Users need not type, and nobody need be interrupted or stopped.         *)
FairSpec ==
  /\ Spec
  /\ \A m \in Managers : WF_vars(HandlerStep(m) /\ UNCHANGED <<pubside, log, subside>>)
                      /\ WF_vars(ManagerStep(m) /\ UNCHANGED <<pubside, log, subside>>)
  /\ \A p \in Pubs : WF_vars(PubStep(p)) /\ WF_vars(ServePub(p))
  /\ \A s \in Subs : WF_vars(SubStep(s)) /\ WF_vars(ServeSub(s))

-----------------------------------------------------------------------------
(* Properties                                                              *)

EveryLineSent ==
  \A p \in Pubs : pub[p] = "ended" /\ up /\ wpub[p] # "refused" =>
    LET sent == log[Topic[p]] \o toWorker[p]
        own  == {k \in DOMAIN sent : sent[k][1] = p}
    IN  /\ {sent[k] : k \in own} = {p} \X (1 .. typed[p])
        /\ \A j, k \in own : j < k => sent[j][2] < sent[k][2]

(* Refinement: what appears on the screens is MessageLog: the messages of  *)
(* the box from the first on, in order, none missing and none twice.       *)
Screens == INSTANCE MessageLog WITH
  Boxes <- BoxNames, Readers <- Subs, Messages <- Lines, Torn <- NoBox,
  damagedAt <- [b \in BoxNames |-> -1],
  reading <- [s \in Subs |-> IF wsub[s] \in {"serving", "ended"} THEN Topic[s] ELSE NoBox],
  heard <- printed

ScreensImplementLog == Screens!Spec

(* Liveness: a subscriber that stays prints what is published.             *)
MessagesPrinted ==
  \A s \in Subs, k \in 1 .. MaxLines :
    wsub[s] = "serving" /\ Len(log[Topic[s]]) >= k
      ~> Len(printed[s]) >= k \/ sub[s] # "read" \/ s \in stopped \/ ~up

LinesOf(p) == SelectSeq(log[Topic[p]], LAMBDA line : line[1] = p)

(* Liveness: a publisher's lines reach the box although subscribers of it  *)
(* are suspended: only a stuck listing, which keeps messages_lock from its *)
(* registration, holds it up.                                              *)
LinesPublished ==
  \A p \in Pubs, k \in 1 .. MaxLines :
    typed[p] >= k
      ~> \/ Len(LinesOf(p)) >= k \/ pub[p] \in {"killed", "interrupted"} \/ wpub[p] = "refused"
         \/ ~up \/ \E m \in Managers : Stuck(m)

(* Liveness: a subscriber that has left is noticed with the next message   *)
(* (mbroker.c:239), and its worker is free again.                          *)
LeaversNoticed ==
  \A s \in Subs : sub[s] # "read" /\ Unforwarded(s) ~> wsub[s] = "ended"

(* Liveness: when the broker stops, its subscribers end, and have printed  *)
(* all that was written to them.                                           *)
SubscribersEnd ==
  \A s \in Subs :
    ~up ~> \/ sub[s] = "disconnected" /\ (wsub[s] = "ended" => Len(printed[s]) >= forwarded[s])
           \/ sub[s] = "interrupted" \/ s \in stopped
=============================================================================
