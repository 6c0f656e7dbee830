-------------------------- MODULE CommandQueueProofs --------------------------
(***************************************************************************)
(* Proofs about CommandQueue: no call is answered twice, no deleted info   *)
(* is pointed to, list and map agree, and what the vehicle has heard is    *)
(* not sent again, for any number of components, messages, calls and       *)
(* retries and any bounds.                                                 *)
(*                                                                         *)
(* The list is seen in two ways: its shape, which each of its changes      *)
(* keeps, and the set of calls in it, which is what the books about calls  *)
(* depend on.                                                              *)
(***************************************************************************)
EXTENDS CommandQueue, SequenceTheorems, WellFoundedInduction, TLAPS

Calls == [comp : Components \cup {CompIdAll}, command : Commands,
          message : Messages \cup {NoMessage}]

\* The calls whose command is in the list.
Queued == {list[i].call : i \in DOMAIN list}

\* The list holds a call once, and says of each entry what may be done with it.
Shape ==
  /\ list \in Seq(Entries)
  /\ \A i, j \in DOMAIN list : list[i].call = list[j].call => i = j
  /\ \A i \in DOMAIN list :
       /\ list[i].heard => list[i].maxTries = 1
       /\ ~_sendMavCommandShouldRetry(calls[list[i].call].command) =>
            list[i].maxTries = 1

BookTypes ==
  /\ calls \in Seq(Calls) /\ Len(calls) <= MaxCalls
  /\ info \in Infos
  /\ wait \in [CallIds -> 0 .. WaitTimeout + 2]
  /\ freed \subseteq CallIds
  /\ answers \in [CallIds -> Nat]

\* A queued call waits for its answer, and a component has one request.
QueuedWait ==
  /\ \A c \in Queued : /\ c \in DOMAIN calls
                       /\ answers[c] = 0 /\ c \notin freed /\ wait[c] = 0
  /\ \A c, d \in Queued :
       IsRequest(calls[c]) /\ IsRequest(calls[d]) /\ calls[c].comp = calls[d].comp
         => c = d

\* So does a request in the map, which is found at its own key.
MappedWait ==
  \A key \in Keys : info[key] # 0 =>
    /\ info[key] \in DOMAIN calls
    /\ IsRequest(calls[info[key]]) /\ Key(calls[info[key]]) = key
    /\ answers[info[key]] = 0 /\ info[key] \notin freed

\* Nothing is known of a call that has not been made.
Fresh ==
  \A c \in CallIds : c \notin DOMAIN calls =>
    answers[c] = 0 /\ c \notin freed /\ wait[c] = 0

Tracked ==
  ~untracked =>
    /\ \A key \in Keys : info[key] # 0 =>
         (wait[info[key]] = 0 <=> info[key] \in Queued)
    /\ \A c \in Queued : IsRequest(calls[c]) => info[Key(calls[c])] = c

Books ==
  BookTypes /\ QueuedWait /\ MappedWait /\ Fresh /\ AnsweredOnce /\ Tracked

Counters ==
  /\ link \in BOOLEAN
  /\ walk \in 0 .. Len(list)
  /\ handling \in BOOLEAN
  /\ progress \in 0 .. MaxProgress
  /\ untracked \in BOOLEAN

IInv == Shape /\ Books /\ Counters

-----------------------------------------------------------------------------
(* The list.                                                               *)

\* What RemoveAt leaves of a sequence.
LEMMA RemovedAt ==
  ASSUME NEW S, NEW s \in Seq(S), NEW i \in DOMAIN s
  PROVE  /\ RemoveAt(s, i) \in Seq(S)
         /\ Len(RemoveAt(s, i)) = Len(s) - 1
         /\ \A j \in DOMAIN RemoveAt(s, i) :
              /\ j \in 1 .. Len(s) - 1
              /\ RemoveAt(s, i)[j] = IF j < i THEN s[j] ELSE s[j + 1]
<1> DEFINE before == SubSeq(s, 1, i - 1)
           after  == SubSeq(s, i + 1, Len(s))
<1>1. i \in 1 .. Len(s) /\ Len(s) \in Nat
  OBVIOUS
<1>2. /\ before \in Seq(S) /\ Len(before) = i - 1
      /\ \A j \in 1 .. i - 1 : before[j] = s[j]
  BY <1>1, SubSeqProperties
<1>3. /\ after \in Seq(S) /\ Len(after) = Len(s) - i
      /\ \A j \in 1 .. Len(s) - i : after[j] = s[i + j]
  BY <1>1, SubSeqProperties
<1>4. RemoveAt(s, i) = before \o after
  BY DEF RemoveAt
<1> HIDE DEF before, after
<1>5. /\ before \o after \in Seq(S)
      /\ Len(before \o after) = Len(s) - 1
      /\ DOMAIN (before \o after) = 1 .. Len(s) - 1
  BY <1>1, <1>2, <1>3
<1>6. ASSUME NEW j \in 1 .. Len(s) - 1
      PROVE  (before \o after)[j] = IF j < i THEN s[j] ELSE s[j + 1]
  <2>1. CASE j < i
    BY <1>1, <1>2, <1>3, <2>1
  <2>2. CASE ~(j < i)
    <3>1. j - (i - 1) \in 1 .. Len(s) - i /\ i + (j - (i - 1)) = j + 1
      BY <1>1, <2>2
    <3>2. (before \o after)[j] = after[j - (i - 1)]
      <4>1. /\ j \in 1 .. Len(before) + Len(after) /\ ~(j <= Len(before))
            /\ j - Len(before) = j - (i - 1)
        BY <1>1, <1>2, <1>3, <2>2
      <4>2. (before \o after)[j] = IF j <= Len(before) THEN before[j]
                                  ELSE after[j - Len(before)]
        BY <1>2, <1>3, <4>1, ConcatProperties
      <4> QED BY <4>1, <4>2
    <3>3. after[j - (i - 1)] = s[i + (j - (i - 1))]
      BY <1>3, <3>1
    <3> QED BY <2>2, <3>1, <3>2, <3>3
  <2> QED BY <2>1, <2>2
<1> QED BY <1>4, <1>5, <1>6

\* An entry is taken off the list.
LEMMA EntryRemoved ==
  ASSUME Shape, NEW i \in DOMAIN list, list' = RemoveAt(list, i),
         UNCHANGED calls
  PROVE  /\ Shape'
         /\ Queued' = Queued \ {list[i].call}
         /\ Len(list') = Len(list) - 1
<1> DEFINE At(j) == IF j < i THEN j ELSE j + 1
<1>1. /\ list' \in Seq(Entries)
      /\ Len(list') = Len(list) - 1
      /\ \A j \in DOMAIN list' : j \in 1 .. Len(list) - 1 /\ list'[j] = list[At(j)]
  BY RemovedAt DEF Shape
<1>2. list \in Seq(Entries) /\ i \in 1 .. Len(list) /\ DOMAIN list = 1 .. Len(list)
      /\ Len(list) \in Nat /\ DOMAIN list' = 1 .. Len(list) - 1
  BY <1>1 DEF Shape
<1>3. \A j \in DOMAIN list' : At(j) \in DOMAIN list /\ At(j) # i
  BY <1>2
<1>4. \A j, k \in DOMAIN list' : At(j) = At(k) => j = k
  BY <1>2
<1>5. \A k \in DOMAIN list : k # i => \E j \in DOMAIN list' : At(j) = k
  <2> SUFFICES ASSUME NEW k \in DOMAIN list, k # i
               PROVE  \E j \in DOMAIN list' : At(j) = k
    OBVIOUS
  <2>1. CASE k < i
    BY <1>2, <2>1
  <2>2. CASE ~(k < i)
    <3>1. k - 1 \in DOMAIN list' /\ At(k - 1) = k
      BY <1>2, <2>2
    <3> QED BY <3>1
  <2> QED BY <2>1, <2>2
<1> HIDE DEF At
<1>6. Shape'
  BY <1>1, <1>3, <1>4 DEF Shape
<1>7. Queued' = Queued \ {list[i].call}
  BY <1>1, <1>3, <1>5 DEF Queued, Shape
<1> QED BY <1>1, <1>6, <1>7

\* Entries are kept up to date.
LEMMA EntriesMarked ==
  ASSUME Shape, UNCHANGED calls,
         list' \in Seq(Entries), DOMAIN list' = DOMAIN list,
         \A i \in DOMAIN list :
           /\ list'[i].call = list[i].call
           /\ list[i].maxTries = 1 => list'[i].maxTries = 1
           /\ list'[i].heard => list[i].heard \/ list'[i].maxTries = 1
  PROVE  /\ Shape'
         /\ Queued' = Queued
<1>1. Shape'
  BY DEF Shape
<1> QED BY <1>1 DEF Queued

\* A call is queued.
LEMMA EntryAdded ==
  ASSUME Shape, BookTypes, QueuedWait, NEW call \in Calls,
         NEW c, c = Len(calls) + 1, c <= MaxCalls,
         list' = Append(list, NewEntry(c, call.command)),
         calls' = Append(calls, call)
  PROVE  /\ Shape'
         /\ Queued' = Queued \cup {c}
         /\ c \notin Queued
         /\ Len(list') = Len(list) + 1
<1> DEFINE entry == NewEntry(c, call.command)
<1>1. /\ entry \in Entries /\ entry.call = c /\ ~entry.heard
      /\ ~_sendMavCommandShouldRetry(call.command) => entry.maxTries = 1
  BY QueueAssumption DEF NewEntry, Entries, BookTypes, CallIds
<1>2. /\ calls \in Seq(Calls) /\ c \notin DOMAIN calls /\ calls'[c] = call
      /\ \A d \in DOMAIN calls : d \in DOMAIN calls' /\ calls'[d] = calls[d]
  BY DEF BookTypes
<1>3. \A i \in DOMAIN list : list[i].call \in Queued
  BY DEF Queued
<1>4. \A i \in DOMAIN list : list[i].call \in DOMAIN calls /\ list[i].call # c
  BY <1>2, <1>3 DEF QueuedWait
<1> HIDE DEF entry
<1>5. /\ list \in Seq(Entries) /\ list' = Append(list, entry)
  BY DEF Shape, entry
<1>6. /\ list' \in Seq(Entries) /\ Len(list') = Len(list) + 1
      /\ Len(list) \in Nat /\ DOMAIN list = 1 .. Len(list)
      /\ DOMAIN list' = DOMAIN list \cup {Len(list) + 1}
      /\ \A i \in DOMAIN list : list'[i] = list[i]
      /\ list'[Len(list) + 1] = entry
  BY <1>1, <1>5
<1>7. Shape'
  <2>1. \A i, j \in DOMAIN list' : list'[i].call = list'[j].call => i = j
    BY <1>1, <1>4, <1>6 DEF Shape
  <2>2. ASSUME NEW i \in DOMAIN list'
        PROVE  /\ list'[i].heard => list'[i].maxTries = 1
               /\ ~_sendMavCommandShouldRetry(calls'[list'[i].call].command) =>
                    list'[i].maxTries = 1
    <3>1. CASE i \in DOMAIN list
      BY <1>2, <1>4, <1>6, <3>1 DEF Shape
    <3>2. CASE i = Len(list) + 1
      BY <1>1, <1>2, <1>6, <3>2
    <3> QED BY <1>6, <3>1, <3>2
  <2> QED BY <1>6, <2>1, <2>2 DEF Shape
<1>8. Queued' = Queued \cup {c}
  BY <1>1, <1>6 DEF Queued
<1>9. c \notin Queued
  BY <1>4 DEF Queued
<1> QED BY <1>6, <1>7, <1>8, <1>9

-----------------------------------------------------------------------------
(* The books.                                                              *)

\* A request is forgotten in the map; the one it was for is not queued, or is
\* the call that is over.  A message may take the entry of another request with
\* it, but only if some request has been recorded without its command.
LEMMA Forgotten ==
  ASSUME Books, NEW key \in Keys, NEW c \in DOMAIN calls,
         answers[c] = 0,
         info[key] = c \/ (IsRequest(calls[c]) /\ Key(calls[c]) = key),
         info[key] \in Queued => info[key] = c,
         Queued' \subseteq Queued \ {c},
         ~untracked => Queued' = Queued \ {c},
         _removeRequestMessageInfo(key), Answer(c),
         UNCHANGED <<calls, untracked>>
  PROVE  Books'
<1>1. /\ BookTypes /\ QueuedWait /\ MappedWait /\ Fresh /\ AnsweredOnce
      /\ Tracked
  BY DEF Books
<1>2. /\ info' = [info EXCEPT ![key] = 0]
      /\ freed' = freed \cup ({info[key]} \ {0})
      /\ wait' = [d \in CallIds |-> IF d = info[key] THEN 0 ELSE wait[d]]
      /\ answers' = [answers EXCEPT ![c] = @ + 1]
  BY DEF _removeRequestMessageInfo, Answer
<1>3. /\ calls \in Seq(Calls) /\ DOMAIN calls \subseteq CallIds /\ c \in CallIds
      /\ info \in Infos /\ info[key] \in 0 .. MaxCalls
      /\ info[key] # 0 => info[key] \in CallIds
      /\ wait \in [CallIds -> 0 .. WaitTimeout + 2]
      /\ answers \in [CallIds -> Nat] /\ freed \subseteq CallIds
  BY <1>1, QueueAssumption DEF BookTypes, CallIds, Infos
<1>4. /\ \A k \in Keys : info'[k] = IF k = key THEN 0 ELSE info[k]
      /\ \A d \in CallIds : wait'[d] = IF d = info[key] THEN 0 ELSE wait[d]
      /\ \A d \in CallIds : answers'[d] = IF d = c THEN answers[d] + 1 ELSE answers[d]
      /\ \A d \in CallIds : d \in freed' <=> d \in freed \/ d = info[key]
  BY <1>2, <1>3, QueueAssumption DEF Infos, CallIds
<1>5. BookTypes'
  <2>1. info' \in Infos
    BY <1>2, <1>3, QueueAssumption DEF Infos
  <2>2. wait' \in [CallIds -> 0 .. WaitTimeout + 2]
    <3>1. 0 \in 0 .. WaitTimeout + 2
      BY QueueAssumption
    <3> QED BY <1>2, <1>3, <3>1
  <2>3. freed' \subseteq CallIds
    BY <1>2, <1>3
  <2>4. answers' \in [CallIds -> Nat]
    BY <1>2, <1>3
  <2> QED BY <1>1, <2>1, <2>2, <2>3, <2>4 DEF BookTypes
<1>6. QueuedWait'
  BY <1>1, <1>3, <1>4 DEF QueuedWait
<1>7. Key(calls[c]) = key /\ IsRequest(calls[c])
  BY <1>1, <1>3 DEF MappedWait, CallIds
<1>8. MappedWait'
  BY <1>1, <1>3, <1>4, <1>7 DEF MappedWait
<1>9. Fresh'
  <2> SUFFICES ASSUME NEW d \in CallIds, d \notin DOMAIN calls
               PROVE  answers'[d] = 0 /\ d \notin freed' /\ wait'[d] = 0
    BY DEF Fresh
  <2>1. d # c /\ d # info[key] /\ d \in CallIds
    BY <1>1, QueueAssumption DEF MappedWait, CallIds
  <2>2. answers[d] = 0 /\ d \notin freed /\ wait[d] = 0
    BY <1>1 DEF Fresh
  <2> QED BY <1>4, <2>1, <2>2
<1>10. AnsweredOnce'
  BY <1>1, <1>3, <1>4 DEF AnsweredOnce
<1>11. Tracked'
  <2> SUFFICES ASSUME ~untracked PROVE Tracked'
    BY DEF Tracked
  <2>1. /\ \A k \in Keys : info[k] # 0 =>
              (wait[info[k]] = 0 <=> info[k] \in Queued)
        /\ \A d \in Queued : IsRequest(calls[d]) => info[Key(calls[d])] = d
    BY <1>1 DEF Tracked
  <2>2. ASSUME NEW k \in Keys, info'[k] # 0
        PROVE  wait'[info'[k]] = 0 <=> info'[k] \in Queued'
    <3>1. k # key /\ info'[k] = info[k] /\ info[k] \in CallIds
      BY <1>1, <1>3, <1>4, <2>2 DEF MappedWait
    <3>2. info[k] # c /\ info[k] # info[key]
      BY <1>1, <1>7, <2>2, <3>1 DEF MappedWait
    <3> QED BY <1>4, <2>1, <2>2, <3>1, <3>2
  <2>3. ASSUME NEW d \in Queued', IsRequest(calls[d])
        PROVE  info'[Key(calls[d])] = d
    <3>1. d \in Queued /\ d # c /\ info[Key(calls[d])] = d
      BY <2>1, <2>3
    <3>2. d \in DOMAIN calls /\ Key(calls[d]) \in Keys
      <4>1. d \in DOMAIN calls
        BY <1>1, <3>1 DEF QueuedWait
      <4>2. calls[d] \in Calls
        BY <1>3, <4>1
      <4> QED BY <4>1, <4>2 DEF Key, Keys, Calls
    <3>3. Key(calls[d]) # key
      BY <3>1
    <3> QED BY <1>4, <3>1, <3>2, <3>3
  <2> QED BY <2>2, <2>3 DEF Tracked
<1> QED BY <1>5, <1>6, <1>8, <1>9, <1>10, <1>11 DEF Books

\* A queued command is over without a word about a request.
LEMMA Over ==
  ASSUME Books, NEW c \in Queued, ~IsRequest(calls[c]),
         Queued' = Queued \ {c},
         UNCHANGED answers \/ Answer(c),
         UNCHANGED <<calls, info, wait, freed, untracked>>
  PROVE  Books'
<1>1. /\ BookTypes /\ QueuedWait /\ MappedWait /\ Fresh /\ AnsweredOnce
      /\ Tracked
  BY DEF Books
<1>2. /\ c \in DOMAIN calls /\ answers[c] = 0 /\ c \in CallIds
      /\ DOMAIN calls \subseteq CallIds
      /\ answers \in [CallIds -> Nat]
  BY <1>1, QueueAssumption DEF QueuedWait, BookTypes, CallIds
<1>3. /\ answers' \in [CallIds -> Nat]
      /\ answers'[c] \in {0, 1}
      /\ \A d \in CallIds : d # c => answers'[d] = answers[d]
  BY <1>2 DEF Answer
<1>4. BookTypes' /\ QueuedWait' /\ Fresh'
  BY <1>1, <1>2, <1>3 DEF BookTypes, QueuedWait, Fresh
<1>5. MappedWait'
  BY <1>1, <1>2, <1>3 DEF MappedWait
<1>6. AnsweredOnce'
  BY <1>1, <1>2, <1>3 DEF AnsweredOnce
<1>7. Tracked'
  BY <1>1 DEF Tracked, MappedWait
<1> QED BY <1>4, <1>5, <1>6, <1>7 DEF Books

\* A request has been accepted and waits for its message.
LEMMA Accepted ==
  ASSUME Books, NEW c \in Queued, IsRequest(calls[c]),
         Queued' = Queued \ {c},
         wait' = [wait EXCEPT ![c] = 1],
         UNCHANGED <<calls, info, freed, answers, untracked>>
  PROVE  Books'
<1>1. /\ BookTypes /\ QueuedWait /\ MappedWait /\ Fresh /\ AnsweredOnce
      /\ Tracked
  BY DEF Books
<1>2. /\ c \in DOMAIN calls /\ c \in CallIds /\ DOMAIN calls \subseteq CallIds
      /\ 1 \in 0 .. WaitTimeout + 2
  BY <1>1, QueueAssumption DEF QueuedWait, BookTypes, CallIds
<1>3. /\ wait' \in [CallIds -> 0 .. WaitTimeout + 2] /\ wait'[c] = 1
      /\ \A d \in CallIds : d # c => wait'[d] = wait[d]
  BY <1>1, <1>2 DEF BookTypes
<1>4. BookTypes' /\ QueuedWait' /\ Fresh' /\ MappedWait' /\ AnsweredOnce'
  BY <1>1, <1>2, <1>3
     DEF BookTypes, QueuedWait, Fresh, MappedWait, AnsweredOnce
<1>5. Tracked'
  <2> SUFFICES ASSUME ~untracked PROVE Tracked'
    BY DEF Tracked
  <2>1. ASSUME NEW k \in Keys, info[k] # 0
        PROVE  wait'[info[k]] = 0 <=> info[k] \in Queued'
    <3>1. info[k] \in CallIds /\ (wait[info[k]] = 0 <=> info[k] \in Queued)
      BY <1>1, <1>2, <2>1 DEF MappedWait, Tracked
    <3> QED BY <1>3, <3>1
  <2> QED BY <1>1, <2>1 DEF Tracked
<1> QED BY <1>1, <1>4, <1>5 DEF Books

\* The result handler of a queued command runs.
LEMMA ResultKeeps ==
  ASSUME Books, NEW c \in Queued, NEW accepted \in BOOLEAN,
         Queued' = Queued \ {c}, CommandResult(c, accepted),
         UNCHANGED <<calls, untracked>>
  PROVE  Books'
<1>1. BookTypes /\ QueuedWait /\ MappedWait
  BY DEF Books
<1>2. c \in DOMAIN calls /\ answers[c] = 0 /\ calls[c] \in Calls
  BY <1>1 DEF QueuedWait, BookTypes
<1>3. CASE ~IsRequest(calls[c])
  BY <1>3, Over DEF CommandResult
<1>4. CASE IsRequest(calls[c]) /\ accepted
  BY <1>4, Accepted DEF CommandResult, _requestMessageCmdResultHandler
<1>5. CASE IsRequest(calls[c]) /\ ~accepted
  <2> DEFINE key == Key(calls[c])
  <2>1. key \in Keys
    BY <1>2 DEF Key, Keys, Calls
  <2>2. _removeRequestMessageInfo(key) /\ Answer(c)
    BY <1>5 DEF CommandResult, _requestMessageCmdResultHandler
  <2>3. info[key] \in Queued => info[key] = c
    <3> SUFFICES ASSUME info[key] \in Queued PROVE info[key] = c
      OBVIOUS
    <3>1. info[key] # 0
      BY <1>1 DEF QueuedWait, BookTypes
    <3>2. IsRequest(calls[info[key]]) /\ Key(calls[info[key]]) = key
      BY <1>1, <2>1, <3>1 DEF MappedWait
    <3>3. calls[info[key]].comp = calls[c].comp
      BY <3>2 DEF Key
    <3> QED BY <1>1, <1>5, <3>2, <3>3 DEF QueuedWait
  <2>4. IsRequest(calls[c]) /\ Key(calls[c]) = key
    BY <1>5
  <2> HIDE DEF key
  <2> QED BY <1>2, <2>1, <2>2, <2>3, <2>4, Forgotten
<1> QED BY <1>3, <1>4, <1>5

\* Only the list's entries, or how long the requests have waited, change.
LEMMA TimePasses ==
  ASSUME Books, Queued' = Queued,
         wait' \in [CallIds -> 0 .. WaitTimeout + 2],
         \A c \in CallIds : wait'[c] = 0 <=> wait[c] = 0,
         UNCHANGED <<calls, info, freed, answers, untracked>>
  PROVE  Books'
<1>1. /\ BookTypes /\ QueuedWait /\ MappedWait /\ Fresh /\ AnsweredOnce
      /\ Tracked
  BY DEF Books
<1>2. DOMAIN calls \subseteq CallIds
  BY <1>1, QueueAssumption DEF BookTypes, CallIds
<1>3. BookTypes' /\ Fresh' /\ MappedWait' /\ AnsweredOnce' /\ QueuedWait'
  BY <1>1, <1>2
     DEF BookTypes, Fresh, MappedWait, AnsweredOnce, QueuedWait
<1>4. Tracked'
  <2> SUFFICES ASSUME ~untracked PROVE Tracked'
    BY DEF Tracked
  <2>1. ASSUME NEW k \in Keys, info[k] # 0
        PROVE  wait'[info[k]] = 0 <=> info[k] \in Queued'
    <3>1. info[k] \in CallIds /\ (wait[info[k]] = 0 <=> info[k] \in Queued)
      BY <1>1, <1>2, <2>1 DEF MappedWait, Tracked
    <3> QED BY <3>1
  <2> QED BY <1>1, <2>1 DEF Tracked
<1> QED BY <1>3, <1>4 DEF Books

-----------------------------------------------------------------------------
(* The steps.                                                              *)

\* The state before anything has been called.
LEMMA Initially == Init => IInv
<1> SUFFICES ASSUME Init PROVE IInv
  OBVIOUS
<1> DEFINE none == <<>>
<1>1. none \in Seq(Entries) /\ none \in Seq(Calls) /\ DOMAIN none = {} /\ Len(none) = 0
  OBVIOUS
<1>2. list = none /\ calls = none
  BY DEF Init
<1> HIDE DEF none
<1>3. Queued = {}
  BY <1>1, <1>2 DEF Queued
<1>4. Shape
  BY <1>1, <1>2 DEF Shape
<1>5. BookTypes
  BY <1>1, <1>2, QueueAssumption DEF Init, BookTypes, Infos
<1>6. QueuedWait /\ MappedWait /\ Fresh /\ AnsweredOnce /\ Tracked
  BY <1>3 DEF Init, QueuedWait, MappedWait, Fresh, AnsweredOnce, Tracked
<1>7. Counters
  <2>1. 0 \in 0 .. Len(list) /\ 0 \in 0 .. MaxProgress
    BY <1>1, <1>2, QueueAssumption
  <2> QED BY <2>1 DEF Init, Counters
<1> QED BY <1>4, <1>5, <1>6, <1>7 DEF IInv, Books

\* A call is refused.
LEMMA RefusalKeeps ==
  ASSUME IInv, NEW call \in Calls, NEW c, c = Len(calls) + 1, c <= MaxCalls,
         IsRequest(call) => Key(call) \in Keys,
         calls' = Append(calls, call), RefuseCommand(call, c),
         untracked' = (\/ untracked
                       \/ ~link /\ ~Refused(call)
                       \/ IsRequest(call) /\ info[Key(call)] # 0),
         UNCHANGED wait
  PROVE  Shape' /\ Books' /\ Queued' = Queued
<1>1. /\ BookTypes /\ QueuedWait /\ MappedWait /\ Fresh /\ AnsweredOnce
      /\ Tracked /\ Shape
  BY DEF Books, IInv
<1>2. /\ calls \in Seq(Calls) /\ calls' \in Seq(Calls) /\ Len(calls') = c
      /\ c \in CallIds /\ c \notin DOMAIN calls
      /\ DOMAIN calls' = DOMAIN calls \cup {c} /\ DOMAIN calls \subseteq CallIds
      /\ \A d \in DOMAIN calls : calls'[d] = calls[d]
  BY <1>1, QueueAssumption DEF BookTypes, CallIds
<1>3. list' = list
  BY DEF RefuseCommand
<1>4. Queued' = Queued
  BY <1>3 DEF Queued
<1>5. \A i \in DOMAIN list : list[i].call \in DOMAIN calls
  BY <1>1 DEF Queued, QueuedWait
<1>6. Shape'
  BY <1>1, <1>2, <1>3, <1>5 DEF Shape
<1>7. /\ answers' \in [CallIds -> Nat]
      /\ answers[c] = 0 /\ c \notin freed /\ wait[c] = 0 /\ answers'[c] = 1
      /\ \A d \in CallIds : d # c => answers'[d] = answers[d]
  BY <1>1, <1>2 DEF RefuseCommand, Answer, BookTypes, Fresh
<1>8. /\ freed' \subseteq CallIds
      /\ \A d \in CallIds : d # c => (d \in freed' <=> d \in freed)
  BY <1>1, <1>2 DEF RefuseCommand, BookTypes
<1>9. /\ info' \in Infos
      /\ \A k \in Keys : info'[k] \in {0, info[k]}
      /\ \A k \in Keys : IsRequest(call) /\ k = Key(call) => info'[k] = 0
      /\ \A k \in Keys : info'[k] # info[k] => IsRequest(call) /\ k = Key(call)
  <2>1. info \in Infos /\ 0 \in 0 .. MaxCalls
    BY <1>1, QueueAssumption DEF BookTypes
  <2>2. CASE IsRequest(call)
    <3>1. info' = [info EXCEPT ![Key(call)] = 0] /\ Key(call) \in Keys
      BY <2>2 DEF RefuseCommand
    <3> QED BY <2>1, <2>2, <3>1 DEF Infos
  <2>3. CASE ~IsRequest(call)
    BY <2>1, <2>3 DEF RefuseCommand
  <2> QED BY <2>2, <2>3
<1>10. BookTypes'
  BY <1>1, <1>2, <1>7, <1>8, <1>9 DEF BookTypes
<1>11. QueuedWait'
  BY <1>1, <1>2, <1>4, <1>7, <1>8 DEF QueuedWait
<1>12. MappedWait'
  BY <1>1, <1>2, <1>7, <1>8, <1>9 DEF MappedWait
<1>13. Fresh' /\ AnsweredOnce'
  BY <1>1, <1>2, <1>7, <1>8 DEF Fresh, AnsweredOnce
<1>14. Tracked'
  <2> SUFFICES ASSUME ~untracked' PROVE Tracked'
    BY DEF Tracked
  <2>1. ~untracked /\ (IsRequest(call) => info[Key(call)] = 0)
    OBVIOUS
  <2>2. \A k \in Keys : info'[k] = info[k]
    BY <1>9, <2>1
  <2>3. \A d \in Queued : Key(calls[d]) \in Keys /\ calls'[d] = calls[d]
    <3> SUFFICES ASSUME NEW d \in Queued
                 PROVE  Key(calls[d]) \in Keys /\ calls'[d] = calls[d]
      OBVIOUS
    <3>1. d \in DOMAIN calls /\ calls[d] \in Calls
      BY <1>1, <1>2 DEF QueuedWait
    <3> QED BY <1>2, <3>1 DEF Key, Keys, Calls
  <2> QED BY <1>1, <1>4, <2>1, <2>2, <2>3 DEF Tracked
<1> QED BY <1>4, <1>6, <1>10, <1>11, <1>12, <1>13, <1>14 DEF Books

\* A call is put into the list; a request is entered in the map.
LEMMA QueueingKeeps ==
  ASSUME IInv, NEW call \in Calls, NEW c, c = Len(calls) + 1, c <= MaxCalls,
         IsRequest(call) => Key(call) \in Keys,
         calls' = Append(calls, call), QueueCommand(call, c), ~Refused(call),
         untracked' = (\/ untracked
                       \/ ~link /\ ~Refused(call)
                       \/ IsRequest(call) /\ info[Key(call)] # 0),
         UNCHANGED wait
  PROVE  /\ Shape' /\ Books'
         /\ Len(list') \in {Len(list), Len(list) + 1}
<1>1. /\ BookTypes /\ QueuedWait /\ MappedWait /\ Fresh /\ AnsweredOnce
      /\ Tracked /\ Shape
  BY DEF Books, IInv
<1>2. /\ calls \in Seq(Calls) /\ calls' \in Seq(Calls) /\ Len(calls') = c
      /\ c \in CallIds /\ c \notin DOMAIN calls /\ c # 0
      /\ DOMAIN calls' = DOMAIN calls \cup {c} /\ DOMAIN calls \subseteq CallIds
      /\ calls'[c] = call
      /\ \A d \in DOMAIN calls : calls'[d] = calls[d]
  BY <1>1, QueueAssumption DEF BookTypes, CallIds
<1>3. answers[c] = 0 /\ c \notin freed /\ wait[c] = 0
  BY <1>1, <1>2 DEF Fresh
<1>4. UNCHANGED <<freed, answers>> /\ info' = Recorded(call, c)
  BY DEF QueueCommand
<1>5. /\ Shape'
      /\ Queued' = IF link THEN Queued \cup {c} ELSE Queued
      /\ c \notin Queued
      /\ Len(list') \in {Len(list), Len(list) + 1}
  <2>1. CASE link
    BY <1>1, <2>1, EntryAdded DEF QueueCommand
  <2>2. CASE ~link
    <3>1. list' = list
      BY <2>2 DEF QueueCommand
    <3>2. Queued' = Queued /\ c \notin Queued
      BY <1>1, <1>2, <3>1 DEF Queued, QueuedWait
    <3>3. \A i \in DOMAIN list : list[i].call \in DOMAIN calls
      BY <1>1 DEF Queued, QueuedWait
    <3>4. Shape'
      BY <1>1, <1>2, <3>1, <3>3 DEF Shape
    <3> QED BY <2>2, <3>1, <3>2, <3>4
  <2> QED BY <2>1, <2>2
<1>6. /\ info' \in Infos
      /\ IsRequest(call) => info'[Key(call)] = c
      /\ \A k \in Keys : ~(IsRequest(call) /\ k = Key(call)) => info'[k] = info[k]
  <2>1. info \in Infos /\ c \in 0 .. MaxCalls
    BY <1>1, <1>2 DEF BookTypes, CallIds
  <2>2. CASE IsRequest(call)
    <3>1. info' = [info EXCEPT ![Key(call)] = c] /\ Key(call) \in Keys
      BY <1>4, <2>2 DEF Recorded
    <3> QED BY <2>1, <2>2, <3>1 DEF Infos
  <2>3. CASE ~IsRequest(call)
    BY <1>4, <2>1, <2>3 DEF Recorded
  <2> QED BY <2>2, <2>3
<1>7. BookTypes' /\ Fresh' /\ AnsweredOnce'
  BY <1>1, <1>2, <1>4, <1>6 DEF BookTypes, Fresh, AnsweredOnce
<1>8. QueuedWait'
  <2>1. \A d \in Queued' :
          d \in DOMAIN calls' /\ answers[d] = 0 /\ d \notin freed /\ wait[d] = 0
    BY <1>1, <1>2, <1>3, <1>5 DEF QueuedWait
  <2>2. ASSUME NEW d \in Queued, IsRequest(call), IsRequest(calls[d]),
               calls[d].comp = call.comp
        PROVE  FALSE
    <3>1. PICK i \in DOMAIN list : list[i].call = d
      BY DEF Queued
    <3>2. calls[d].command = call.command
      BY <2>2 DEF IsRequest
    <3>3. i \in Pending(call.comp, call.command)
      BY <2>2, <3>1, <3>2 DEF Pending
    <3>4. ~_commandCanBeDuplicated(call.command)
      BY <2>2 DEF IsRequest, _commandCanBeDuplicated
    <3> QED BY <3>3, <3>4 DEF Refused
  <2>3. \A d, e \in Queued' :
          IsRequest(calls'[d]) /\ IsRequest(calls'[e])
            /\ calls'[d].comp = calls'[e].comp => d = e
    BY <1>1, <1>2, <1>5, <2>2 DEF QueuedWait
  <2> QED BY <1>4, <2>1, <2>3 DEF QueuedWait
<1>9. MappedWait'
  <2> SUFFICES ASSUME NEW k \in Keys, info'[k] # 0
               PROVE  /\ info'[k] \in DOMAIN calls'
                      /\ IsRequest(calls'[info'[k]]) /\ Key(calls'[info'[k]]) = k
                      /\ answers[info'[k]] = 0 /\ info'[k] \notin freed
    BY <1>4 DEF MappedWait
  <2>1. CASE IsRequest(call) /\ k = Key(call)
    BY <1>2, <1>3, <1>6, <2>1
  <2>2. CASE ~(IsRequest(call) /\ k = Key(call))
    BY <1>1, <1>2, <1>6, <2>2 DEF MappedWait
  <2> QED BY <2>1, <2>2
<1>10. Tracked'
  <2> SUFFICES ASSUME ~untracked' PROVE Tracked'
    BY DEF Tracked
  <2>1. ~untracked /\ link /\ (IsRequest(call) => info[Key(call)] = 0)
    OBVIOUS
  <2>2. Queued' = Queued \cup {c}
    BY <1>5, <2>1
  <2>3. ASSUME NEW k \in Keys, info'[k] # 0
        PROVE  wait[info'[k]] = 0 <=> info'[k] \in Queued'
    <3>1. CASE IsRequest(call) /\ k = Key(call)
      BY <1>3, <1>6, <2>2, <3>1
    <3>2. CASE ~(IsRequest(call) /\ k = Key(call))
      <4>1. info'[k] = info[k] /\ info[k] # c
        BY <1>1, <1>2, <1>6, <2>3, <3>2 DEF MappedWait
      <4> QED BY <1>1, <2>1, <2>2, <2>3, <4>1 DEF Tracked
    <3> QED BY <3>1, <3>2
  <2>4. ASSUME NEW d \in Queued', IsRequest(calls'[d])
        PROVE  info'[Key(calls'[d])] = d
    <3>1. CASE d = c
      BY <1>2, <1>6, <2>4, <3>1
    <3>2. CASE d # c
      <4>1. d \in Queued /\ d \in DOMAIN calls /\ d # 0 /\ calls'[d] = calls[d]
            /\ calls[d] \in Calls
        BY <1>1, <1>2, <2>2, <3>2 DEF QueuedWait
      <4>2. Key(calls[d]) \in Keys /\ info[Key(calls[d])] = d
        BY <1>1, <2>1, <2>4, <4>1 DEF Tracked, Key, Keys, Calls
      <4> QED BY <1>6, <2>1, <4>1, <4>2
    <3> QED BY <3>1, <3>2
  <2> QED BY <2>3, <2>4 DEF Tracked
<1> QED BY <1>5, <1>7, <1>8, <1>9, <1>10 DEF Books

\* sendMavCommand and requestMessage.
LEMMA CallKeeps ==
  ASSUME IInv, NEW call \in Calls, IsRequest(call) => Key(call) \in Keys,
         _sendMavCommandWorker(call)
  PROVE  IInv'
<1> DEFINE c == Len(calls) + 1
<1>1. /\ c <= MaxCalls
      /\ calls' = Append(calls, call)
      /\ IF Refused(call) THEN RefuseCommand(call, c) ELSE QueueCommand(call, c)
      /\ untracked' = (\/ untracked
                       \/ ~link /\ ~Refused(call)
                       \/ IsRequest(call) /\ info[Key(call)] # 0)
      /\ UNCHANGED <<link, wait, walk, progress>>
  BY DEF _sendMavCommandWorker
<1>2. Counters /\ Len(list) \in Nat
  BY DEF IInv, Shape
<1>3. /\ handling' \in BOOLEAN /\ untracked' \in BOOLEAN
  <2>1. untracked' \in BOOLEAN
    BY <1>1
  <2>2. CASE Refused(call)
    <3>1. handling' = (walk > 0)
      BY <1>1, <2>2 DEF RefuseCommand
    <3> QED BY <2>1, <3>1
  <2>3. CASE ~Refused(call)
    <3>1. handling' = handling
      BY <1>1, <2>3 DEF QueueCommand
    <3> QED BY <1>2, <2>1, <3>1 DEF Counters
  <2> QED BY <2>2, <2>3
<1> HIDE DEF c
<1>4. CASE Refused(call)
  <2>1. Shape' /\ Books' /\ list' = list
    BY <1>1, <1>4, RefusalKeeps DEF RefuseCommand, c
  <2> QED BY <1>1, <1>2, <1>3, <2>1 DEF IInv, Counters
<1>5. CASE ~Refused(call)
  <2>1. Shape' /\ Books' /\ Len(list') \in {Len(list), Len(list) + 1}
    BY <1>1, <1>5, QueueingKeeps DEF c
  <2>2. walk' \in 0 .. Len(list')
    BY <1>1, <1>2, <2>1 DEF Counters
  <2> QED BY <1>1, <1>2, <1>3, <2>1, <2>2 DEF IInv, Counters
<1> QED BY <1>4, <1>5

\* The check's timer fires.
LEMMA TimerKeeps == ASSUME IInv, _mavCommandResponseCheckTimer PROVE IInv'
<1>1. /\ Shape /\ Books /\ Counters /\ list \in Seq(Entries)
      /\ Len(list) \in Nat
  BY DEF IInv, Shape
<1>2. /\ list' = [i \in DOMAIN list |-> [list[i] EXCEPT !.age = Later(@, AckTimeout)]]
      /\ wait' = [c \in CallIds |->
                    IF wait[c] = 0 THEN 0 ELSE Later(wait[c], WaitTimeout + 1)]
      /\ UNCHANGED <<link, calls, info, freed, answers, handling, progress,
                     untracked>>
      /\ walk' = Len(list)
  BY DEF _mavCommandResponseCheckTimer
<1>3. ASSUME NEW i \in DOMAIN list
      PROVE  /\ list'[i] \in Entries /\ list'[i].call = list[i].call
             /\ list'[i].maxTries = list[i].maxTries
             /\ list'[i].heard = list[i].heard
  <2>1. list[i] \in Entries
    BY <1>1
  <2>2. Later(list[i].age, AckTimeout) \in 0 .. AckTimeout + 1
    BY <2>1, QueueAssumption DEF Entries, Later
  <2> QED BY <1>2, <2>1, <2>2 DEF Entries
<1>4. /\ list' \in Seq(Entries) /\ DOMAIN list' = DOMAIN list
      /\ Len(list') = Len(list)
  BY <1>1, <1>2, <1>3
<1>5. Shape' /\ Queued' = Queued
  BY <1>1, <1>2, <1>3, <1>4, EntriesMarked
<1>6. ASSUME NEW c \in CallIds
      PROVE  /\ wait'[c] \in 0 .. WaitTimeout + 2
             /\ wait'[c] = 0 <=> wait[c] = 0
  <2>1. wait[c] \in 0 .. WaitTimeout + 2 /\ wait \in [CallIds -> 0 .. WaitTimeout + 2]
    BY <1>1 DEF Books, BookTypes
  <2> QED BY <1>2, <2>1, QueueAssumption DEF Later
<1>7. wait' \in [CallIds -> 0 .. WaitTimeout + 2]
  BY <1>2, <1>6
<1>8. Books'
  BY <1>1, <1>2, <1>5, <1>6, <1>7, TimePasses
<1>9. Counters'
  <2>1. walk' \in 0 .. Len(list')
    BY <1>1, <1>2, <1>4
  <2> QED BY <1>1, <1>2, <2>1 DEF Counters
<1> QED BY <1>5, <1>8, <1>9 DEF IInv

\* An entry of the list is over.
LEMMA EntryOver ==
  ASSUME IInv, NEW i \in DOMAIN list, NEW accepted \in BOOLEAN,
         list' = RemoveAt(list, i), CommandResult(list[i].call, accepted),
         UNCHANGED <<calls, untracked>>
  PROVE  Shape' /\ Books' /\ Len(list') = Len(list) - 1
<1>1. Shape' /\ Queued' = Queued \ {list[i].call} /\ Len(list') = Len(list) - 1
  BY EntryRemoved DEF IInv
<1>2. list[i].call \in Queued
  BY DEF Queued
<1> DEFINE c == list[i].call
<1> HIDE DEF c
<1>3. Books'
  <2>1. c \in Queued /\ Queued' = Queued \ {c} /\ CommandResult(c, accepted)
    BY <1>1, <1>2 DEF c
  <2> QED BY <2>1, ResultKeeps DEF IInv
<1> QED BY <1>1, <1>3

\* The check looks at an entry: gives it up, sends it again, or leaves it.
LEMMA CheckKeeps ==
  ASSUME IInv, _sendMavCommandResponseTimeoutCheck
  PROVE  IInv'
<1>1. /\ Shape /\ Books /\ Counters /\ list \in Seq(Entries)
      /\ Len(list) \in Nat
  BY DEF IInv, Shape
<1>2. /\ walk > 0 /\ walk' = walk - 1
      /\ handling' = (answers' # answers /\ walk > 1)
      /\ UNCHANGED <<link, calls, progress, untracked>>
  BY DEF _sendMavCommandResponseTimeoutCheck
<1>3. /\ walk \in DOMAIN list /\ walk \in Nat /\ walk <= Len(list)
      /\ list[walk] \in Entries
  BY <1>1, <1>2 DEF Counters
<1>4. \/ GiveUp(walk)
      \/ SendAgain(walk) /\ list[walk].tries + 1 <= list[walk].maxTries
      \/ UNCHANGED <<list, info, wait, freed, answers>>
  BY <1>3 DEF _sendMavCommandResponseTimeoutCheck, _sendMavCommandFromList, Entries
<1>5. Shape' /\ Books' /\ Len(list') \in {Len(list), Len(list) - 1}
  <2>1. CASE GiveUp(walk)
    BY <1>2, <1>3, <2>1, EntryOver DEF GiveUp
  <2>2. CASE SendAgain(walk) /\ list[walk].tries + 1 <= list[walk].maxTries
    <3>1. /\ list' = [list EXCEPT ![walk].tries = @ + 1]
          /\ UNCHANGED <<info, wait, freed, answers>>
      BY <2>2 DEF SendAgain
    <3>2. list[walk].tries + 1 \in 1 .. MaxRetryCount
      BY <1>3, <2>2, QueueAssumption DEF Entries
    <3>3. [list[walk] EXCEPT !.tries = @ + 1] \in Entries
      BY <1>3, <3>2 DEF Entries
    <3>4. /\ list' \in Seq(Entries) /\ DOMAIN list' = DOMAIN list
          /\ Len(list') = Len(list)
      BY <1>1, <1>3, <3>1, <3>3
    <3>5. ASSUME NEW i \in DOMAIN list
          PROVE  /\ list'[i].call = list[i].call
                 /\ list'[i].maxTries = list[i].maxTries
                 /\ list'[i].heard = list[i].heard
      BY <1>1, <1>3, <3>1 DEF Entries
    <3>6. Shape' /\ Queued' = Queued
      BY <1>1, <1>2, <3>4, <3>5, EntriesMarked
    <3>7. wait \in [CallIds -> 0 .. WaitTimeout + 2]
      BY <1>1 DEF Books, BookTypes
    <3> QED BY <1>1, <1>2, <3>1, <3>4, <3>6, <3>7, TimePasses
  <2>3. CASE UNCHANGED <<list, info, wait, freed, answers>>
    BY <1>1, <1>2, <2>3
       DEF Shape, Books, BookTypes, QueuedWait, MappedWait, Fresh, AnsweredOnce,
           Tracked, Queued
  <2> QED BY <1>4, <2>1, <2>2, <2>3
<1>6. Counters'
  <2>1. walk' \in 0 .. Len(list')
    BY <1>1, <1>2, <1>3, <1>5
  <2>2. handling' \in BOOLEAN
    BY <1>2
  <2> QED BY <1>1, <1>2, <2>1, <2>2 DEF Counters
<1> QED BY <1>5, <1>6 DEF IInv

\* The first of several entries that an ack may belong to is one of them.
LEMMA FoundIsPending ==
  ASSUME NEW comp, NEW command, list \in Seq(Entries), Pending(comp, command) # {}
  PROVE  _findMavCommandListEntryIndex(comp, command) \in Pending(comp, command)
<1> DEFINE S == Pending(comp, command)
<1>1. S \subseteq Nat
  BY DEF Pending
<1>2. IsWellFoundedOn(OpToRel(<, Nat), Nat)
  BY NatLessThanWellFounded
<1>3. PICK i \in S : \A j \in S : ~ (<<j, i>> \in OpToRel(<, Nat))
  BY <1>1, <1>2, WFMin
<1>4. \A j \in S : i <= j
  <2> TAKE j \in S
  <2>1. i \in Nat /\ j \in Nat
    BY <1>1
  <2>2. ~ (j < i)
    BY <1>3, <2>1 DEF OpToRel
  <2> QED BY <2>1, <2>2
<1> QED BY <1>4 DEF _findMavCommandListEntryIndex

\* A message comes that is waited for.
LEMMA ReceivedKeeps ==
  ASSUME IInv, NEW key \in Keys, RequestedMessageReceived(key)
  PROVE  IInv'
<1> DEFINE c == info[key]
<1>1. /\ walk = 0 /\ c # 0
      /\ list' = WithoutEntry(c, key[1])
      /\ _removeRequestMessageInfo(key) /\ Answer(c)
      /\ UNCHANGED <<link, calls, walk, handling, progress, untracked>>
  BY DEF RequestedMessageReceived
<1>2. /\ Shape /\ Books /\ Counters /\ list \in Seq(Entries)
      /\ QueuedWait /\ MappedWait
  BY DEF IInv, Shape, Books
<1>3. /\ c \in DOMAIN calls /\ IsRequest(calls[c]) /\ Key(calls[c]) = key
      /\ answers[c] = 0
  BY <1>1, <1>2 DEF MappedWait
<1>4. calls[c].comp = key[1] /\ calls[c].command = "requestMessage"
  BY <1>3 DEF Key, IsRequest
<1> HIDE DEF c
<1>5. /\ Shape' /\ Len(list') \in Nat
      /\ Queued' \subseteq Queued \ {c}
      /\ ~untracked => Queued' = Queued \ {c}
  <2>1. CASE wait[c] = 0 /\ Pending(key[1], "requestMessage") # {}
    <3> DEFINE i == _findMavCommandListEntryIndex(key[1], "requestMessage")
    <3>1. i \in Pending(key[1], "requestMessage")
      BY <1>2, <2>1, FoundIsPending
    <3>2. list' = RemoveAt(list, i)
      BY <1>1, <2>1 DEF WithoutEntry
    <3> HIDE DEF i
    <3>3. i \in DOMAIN list /\ list[i].call \in Queued
      BY <3>1 DEF Pending, Queued
    <3>4. IsRequest(calls[list[i].call]) /\ calls[list[i].call].comp = calls[c].comp
      BY <1>4, <3>1 DEF Pending, IsRequest
    <3>5. c \in Queued => list[i].call = c
      BY <1>2, <1>3, <3>3, <3>4 DEF QueuedWait
    <3>6. ~untracked => c \in Queued
      BY <1>1, <1>2, <2>1 DEF Books, Tracked, c
    <3>7. Shape' /\ Queued' = Queued \ {list[i].call} /\ Len(list') = Len(list) - 1
      BY <1>1, <1>2, <3>2, <3>3, EntryRemoved
    <3> QED BY <1>2, <3>5, <3>6, <3>7 DEF Shape
  <2>2. CASE ~(wait[c] = 0 /\ Pending(key[1], "requestMessage") # {})
    <3>1. list' = list
      BY <1>1, <2>2 DEF WithoutEntry
    <3>2. c \notin Queued
      BY <1>2, <1>4, <2>2 DEF Queued, QueuedWait, Pending
    <3> QED BY <1>1, <1>2, <3>1, <3>2 DEF Shape, Queued
  <2> QED BY <2>1, <2>2
<1>6. Books'
  BY <1>1, <1>2, <1>3, <1>5, Forgotten DEF c
<1>7. Counters'
  <2>1. walk' \in 0 .. Len(list')
    BY <1>1, <1>5
  <2> QED BY <1>1, <1>2, <2>1 DEF Counters
<1> QED BY <1>5, <1>6, <1>7 DEF IInv

\* Another message comes, and one request is found to be overdue.
LEMMA OtherKeeps == ASSUME IInv, OtherMessageReceived PROVE IInv'
<1>1. PICK key \in Overdue : _removeRequestMessageInfo(key) /\ Answer(info[key])
  BY DEF OtherMessageReceived
<1> DEFINE c == info[key]
<1>2. /\ key \in Keys /\ c # 0 /\ wait[c] > WaitTimeout + 1
      /\ UNCHANGED <<link, calls, list, walk, handling, progress, untracked>>
  BY <1>1 DEF Overdue, OtherMessageReceived
<1>3. /\ Shape /\ Books /\ Counters /\ QueuedWait /\ MappedWait
  BY DEF IInv, Books
<1>4. c \in DOMAIN calls /\ answers[c] = 0
  BY <1>2, <1>3 DEF MappedWait
<1>5. Answer(c)
  BY <1>1
<1> HIDE DEF c
<1>6. wait[c] # 0
  BY <1>2, QueueAssumption
<1>7. c \notin Queued /\ Queued' = Queued
  BY <1>2, <1>3, <1>6 DEF QueuedWait, Queued
<1>8. Queued' = Queued \ {c}
  BY <1>7
<1>9. info[key] = c
  BY DEF c
<1>10. Books'
  BY <1>1, <1>2, <1>3, <1>4, <1>5, <1>7, <1>8, <1>9, Forgotten
<1>11. Shape' /\ Counters'
  BY <1>2, <1>3 DEF Shape, Counters
<1> QED BY <1>10, <1>11 DEF IInv

\* An ack comes: the command is in progress, or over.
LEMMA AckKeeps ==
  ASSUME IInv, NEW ack \in Acks, _handleCommandAck(ack)
  PROVE  IInv'
<1> DEFINE i == _findMavCommandListEntryIndex(ack.comp, ack.command)
<1>1. /\ walk = 0
      /\ Pending(ack.comp, ack.command) # {}
      /\ IF ack.result = "inProgress"
         THEN progress < MaxProgress /\ CommandInProgress(i)
         ELSE CommandDone(i, ack.result = "accepted")
      /\ UNCHANGED <<link, calls, walk, handling, untracked>>
  BY DEF _handleCommandAck
<1>2. /\ Shape /\ Books /\ Counters /\ list \in Seq(Entries)
      /\ Len(list) \in Nat /\ QueuedWait
  BY DEF IInv, Shape, Books
<1>3. i \in DOMAIN list
  BY <1>1, <1>2, FoundIsPending DEF Pending
<1> HIDE DEF i
<1>4. CASE ack.result = "inProgress" /\ calls[list[i].call].command = "autotune"
  <2>1. /\ list' = RemoveAt(list, i) /\ progress' = progress + 1
        /\ progress < MaxProgress
        /\ UNCHANGED <<info, wait, freed, answers>>
    BY <1>1, <1>4 DEF CommandInProgress
  <2>2. Shape' /\ Queued' = Queued \ {list[i].call} /\ Len(list') = Len(list) - 1
    BY <1>1, <1>2, <1>3, <2>1, EntryRemoved
  <2>3. list[i].call \in Queued /\ ~IsRequest(calls[list[i].call])
    BY <1>3, <1>4 DEF Queued, IsRequest
  <2>4. Books'
    BY <1>1, <1>2, <2>1, <2>2, <2>3, Over
  <2>5. walk' \in 0 .. Len(list') /\ progress' \in 0 .. MaxProgress
    <3>1. Len(list') \in Nat /\ walk' = 0
      BY <1>1, <2>2 DEF Shape
    <3>2. progress \in 0 .. MaxProgress
      BY <1>2 DEF Counters
    <3> QED BY <2>1, <3>1, <3>2, QueueAssumption
  <2> QED BY <1>1, <1>2, <2>2, <2>4, <2>5 DEF IInv, Counters
<1>5. CASE ack.result = "inProgress" /\ calls[list[i].call].command # "autotune"
  <2>1. /\ list' = [list EXCEPT ![i].maxTries = 1, ![i].age = 0, ![i].heard = TRUE]
        /\ progress' = progress + 1 /\ progress < MaxProgress
        /\ UNCHANGED <<info, wait, freed, answers>>
    BY <1>1, <1>5 DEF CommandInProgress
  <2> DEFINE entry == [list[i] EXCEPT !.maxTries = 1, !.age = 0, !.heard = TRUE]
  <2>2. /\ entry \in Entries /\ entry.call = list[i].call
        /\ entry.maxTries = 1
    <3>1. list[i] \in Entries
      BY <1>2, <1>3
    <3>2. 0 \in 0 .. AckTimeout + 1 /\ 1 \in 1 .. MaxRetryCount
      BY QueueAssumption
    <3> QED BY <3>1, <3>2 DEF Entries
  <2>3. list' = [list EXCEPT ![i] = entry]
    BY <1>2, <1>3, <2>1
  <2> HIDE DEF entry
  <2>4. /\ list' \in Seq(Entries) /\ DOMAIN list' = DOMAIN list
        /\ Len(list') = Len(list) /\ list'[i] = entry
        /\ \A k \in DOMAIN list : k # i => list'[k] = list[k]
    BY <1>2, <1>3, <2>2, <2>3
  <2>5. Shape' /\ Queued' = Queued
    BY <1>1, <1>2, <2>2, <2>4, EntriesMarked
  <2>6. wait \in [CallIds -> 0 .. WaitTimeout + 2]
    BY <1>2 DEF Books, BookTypes
  <2>7. Books'
    BY <1>1, <1>2, <2>1, <2>5, <2>6, TimePasses
  <2>8. walk' \in 0 .. Len(list') /\ progress' \in 0 .. MaxProgress
    <3>1. progress \in 0 .. MaxProgress
      BY <1>2 DEF Counters
    <3> QED BY <1>1, <1>2, <2>1, <2>4, <3>1, QueueAssumption
  <2> QED BY <1>1, <1>2, <2>5, <2>7, <2>8 DEF IInv, Counters
<1>6. CASE ack.result # "inProgress"
  <2>1. /\ list' = RemoveAt(list, i)
        /\ CommandResult(list[i].call, ack.result = "accepted")
        /\ UNCHANGED progress
    BY <1>1, <1>6 DEF CommandDone
  <2>2. (ack.result = "accepted") \in BOOLEAN
    OBVIOUS
  <2>3. Shape' /\ Books' /\ Len(list') = Len(list) - 1
    BY <1>1, <1>3, <2>1, <2>2, EntryOver
  <2>4. walk' \in 0 .. Len(list')
    BY <1>1, <2>3 DEF Shape
  <2> QED BY <1>1, <1>2, <2>1, <2>3, <2>4 DEF IInv, Counters
<1> QED BY <1>4, <1>5, <1>6

\* Every step.
LEMMA NextKeeps == IInv /\ [Next]_vars => IInv'
<1> SUFFICES ASSUME IInv, [Next]_vars PROVE IInv'
  OBVIOUS
<1>1. ASSUME NEW comp \in Components \cup {CompIdAll}, NEW command \in Commands,
             command # "requestMessage", sendMavCommand(comp, command)
      PROVE  IInv'
  <2> DEFINE call == [comp |-> comp, command |-> command, message |-> NoMessage]
  <2>1. call \in Calls /\ ~IsRequest(call)
    BY <1>1 DEF Calls, IsRequest
  <2>2. _sendMavCommandWorker(call)
    BY <1>1 DEF sendMavCommand
  <2> HIDE DEF call
  <2> QED BY <2>1, <2>2, CallKeeps
<1>2. ASSUME NEW comp \in Components \cup {CompIdAll}, NEW message \in Messages,
             requestMessage(comp, message)
      PROVE  IInv'
  <2> DEFINE call == [comp |-> comp, command |-> "requestMessage",
                      message |-> message]
  <2>1. call \in Calls /\ Key(call) \in Keys
    BY DEF Calls, Commands, Key, Keys
  <2>2. _sendMavCommandWorker(call)
    BY <1>2 DEF requestMessage
  <2> HIDE DEF call
  <2> QED BY <2>1, <2>2, CallKeeps
<1>3. CASE PrimaryLinkChanged \/ UNCHANGED vars
  <2>1. /\ link' \in BOOLEAN
        /\ UNCHANGED <<calls, list, info, wait, freed, answers, walk, handling,
                       progress, untracked>>
    BY <1>3 DEF PrimaryLinkChanged, vars, IInv, Counters
  <2> QED BY <2>1
          DEF IInv, Counters, Shape, Books, BookTypes, QueuedWait, MappedWait,
              Fresh, AnsweredOnce, Tracked, Queued
<1> QED BY <1>1, <1>2, <1>3, TimerKeeps, CheckKeeps, ReceivedKeeps, OtherKeeps,
           AckKeeps
        DEF Next

-----------------------------------------------------------------------------
(* What is sent again.                                                     *)

\* The step sends again no command but one it may.
NotResent ==
  \A i \in DOMAIN list, j \in DOMAIN list' :
    list[i].call = list'[j].call /\ list[i].tries # list'[j].tries =>
      ~list[i].heard /\ _sendMavCommandShouldRetry(calls[list[i].call].command)

\* Taking an entry off the list sends nothing.
LEMMA RemovalSendsNothing ==
  ASSUME Shape, NEW k \in DOMAIN list, list' = RemoveAt(list, k)
  PROVE  NotResent
<1>1. \A j \in DOMAIN list' : \E n \in DOMAIN list : list'[j] = list[n]
  <2>1. list \in Seq(Entries) /\ Len(list) \in Nat /\ DOMAIN list = 1 .. Len(list)
        /\ k \in 1 .. Len(list)
    BY DEF Shape
  <2>2. ASSUME NEW j \in DOMAIN list'
        PROVE  \E n \in DOMAIN list : list'[j] = list[n]
    <3>1. /\ j \in 1 .. Len(list) - 1
          /\ list'[j] = IF j < k THEN list[j] ELSE list[j + 1]
      BY <2>1, <2>2, RemovedAt
    <3>2. j \in DOMAIN list /\ j + 1 \in DOMAIN list
      BY <2>1, <3>1
    <3> QED BY <3>1, <3>2
  <2> QED BY <2>2
<1> QED BY <1>1 DEF Shape, NotResent

\* Nor does marking entries.
LEMMA MarkingSendsNothing ==
  ASSUME Shape, DOMAIN list' = DOMAIN list,
         \A i \in DOMAIN list : list'[i].call = list[i].call
                                /\ list'[i].tries = list[i].tries
  PROVE  NotResent
BY DEF Shape, NotResent

\* A call sends its own command only.
LEMMA CallSendsItsOwn ==
  ASSUME IInv, NEW call \in Calls, _sendMavCommandWorker(call)
  PROVE  NotResent
<1> DEFINE c == Len(calls) + 1
<1>1. c <= MaxCalls /\ Shape /\ BookTypes /\ QueuedWait
      /\ calls' = Append(calls, call)
  BY DEF _sendMavCommandWorker, IInv, Books
<1>2. CASE list' = list
  BY <1>1, <1>2, MarkingSendsNothing
<1>3. CASE list' = Append(list, NewEntry(c, call.command))
  <2>1. c \notin Queued
    BY <1>1, <1>3, EntryAdded
  <2>2. \A i \in DOMAIN list : list[i].call # c
    BY <2>1 DEF Queued
  <2>3. NewEntry(c, call.command).call = c /\ NewEntry(c, call.command) \in Entries
    BY <1>1, QueueAssumption DEF NewEntry, Entries, BookTypes, CallIds
  <2> DEFINE entry == NewEntry(c, call.command)
  <2> HIDE DEF entry
  <2>4. list \in Seq(Entries) /\ entry \in Entries /\ list' = Append(list, entry)
        /\ entry.call = c
    BY <1>1, <1>3, <2>3 DEF Shape, entry
  <2>5. \A j \in DOMAIN list' :
          \/ j \in DOMAIN list /\ list'[j] = list[j]
          \/ list'[j].call = c
    BY <2>4
  <2> QED BY <1>1, <2>2, <2>5 DEF Shape, NotResent
<1>4. list' = list \/ list' = Append(list, NewEntry(c, call.command))
  BY DEF _sendMavCommandWorker, RefuseCommand, QueueCommand
<1> QED BY <1>2, <1>3, <1>4

\* The check sends an entry again only if it has a try left.
LEMMA CheckSendsOverdue ==
  ASSUME IInv, _sendMavCommandResponseTimeoutCheck
  PROVE  NotResent
<1>1. Shape /\ list \in Seq(Entries) /\ walk \in DOMAIN list
      /\ list[walk] \in Entries
  <2>1. Shape /\ walk \in 0 .. Len(list) /\ walk > 0
    BY DEF IInv, Counters, _sendMavCommandResponseTimeoutCheck
  <2>2. list \in Seq(Entries) /\ walk \in DOMAIN list
    BY <2>1 DEF Shape
  <2> QED BY <2>1, <2>2
<1>2. CASE list' = RemoveAt(list, walk)
  BY <1>1, <1>2, RemovalSendsNothing
<1>3. CASE list' = list
  BY <1>1, <1>3, MarkingSendsNothing
<1>4. CASE /\ list' = [list EXCEPT ![walk].tries = @ + 1]
           /\ ~(list[walk].tries + 1 > list[walk].maxTries)
  <2>1. list[walk].maxTries # 1
    BY <1>1, <1>4 DEF Entries
  <2>2. ~list[walk].heard
        /\ _sendMavCommandShouldRetry(calls[list[walk].call].command)
    BY <1>1, <2>1 DEF Shape
  <2>3. /\ DOMAIN list' = DOMAIN list
        /\ \A i \in DOMAIN list : list'[i].call = list[i].call
        /\ \A i \in DOMAIN list : i # walk => list'[i] = list[i]
    BY <1>1, <1>4 DEF Entries
  <2> QED BY <1>1, <2>2, <2>3 DEF Shape, NotResent
<1>5. \/ list' = RemoveAt(list, walk)
      \/ list' = list
      \/ /\ list' = [list EXCEPT ![walk].tries = @ + 1]
         /\ ~(list[walk].tries + 1 > list[walk].maxTries)
  BY DEF _sendMavCommandResponseTimeoutCheck, _sendMavCommandFromList, GiveUp,
         SendAgain
<1> QED BY <1>2, <1>3, <1>4, <1>5

\* Whatever comes from the vehicle sends nothing.
LEMMA ArrivalSendsNothing ==
  ASSUME IInv,
         \/ \E key \in Keys : RequestedMessageReceived(key)
         \/ \E ack \in Acks : _handleCommandAck(ack)
  PROVE  NotResent
<1>1. Shape /\ list \in Seq(Entries)
  BY DEF IInv, Shape
<1>2. ASSUME NEW key \in Keys, RequestedMessageReceived(key) PROVE NotResent
  <2>1. list' = WithoutEntry(info[key], key[1])
    BY <1>2 DEF RequestedMessageReceived
  <2>2. CASE Pending(key[1], "requestMessage") = {} \/ wait[info[key]] # 0
    BY <1>1, <2>1, <2>2, MarkingSendsNothing DEF WithoutEntry
  <2>3. CASE Pending(key[1], "requestMessage") # {} /\ wait[info[key]] = 0
    <3>1. _findMavCommandListEntryIndex(key[1], "requestMessage") \in DOMAIN list
      BY <1>1, <2>3, FoundIsPending DEF Pending
    <3> QED BY <1>1, <2>1, <2>3, <3>1, RemovalSendsNothing DEF WithoutEntry
  <2> QED BY <2>2, <2>3
<1>3. ASSUME NEW ack \in Acks, _handleCommandAck(ack) PROVE NotResent
  <2> DEFINE k == _findMavCommandListEntryIndex(ack.comp, ack.command)
  <2>1. k \in DOMAIN list
    BY <1>1, <1>3, FoundIsPending DEF _handleCommandAck, Pending
  <2>2. \/ list' = RemoveAt(list, k)
        \/ list' = [list EXCEPT ![k].maxTries = 1, ![k].age = 0, ![k].heard = TRUE]
    BY <1>3 DEF _handleCommandAck, CommandInProgress, CommandDone
  <2> HIDE DEF k
  <2>3. CASE list' = RemoveAt(list, k)
    BY <1>1, <2>1, <2>3, RemovalSendsNothing
  <2>4. CASE list' = [list EXCEPT ![k].maxTries = 1, ![k].age = 0, ![k].heard = TRUE]
    <3>1. /\ DOMAIN list' = DOMAIN list
          /\ \A i \in DOMAIN list : list'[i].call = list[i].call
                                    /\ list'[i].tries = list[i].tries
      BY <1>1, <2>1, <2>4 DEF Entries
    <3> QED BY <1>1, <3>1, MarkingSendsNothing
  <2> QED BY <2>2, <2>3, <2>4
<1> QED BY <1>2, <1>3

\* Every step.
LEMMA StepSends == IInv /\ [Next]_vars => NotResent
<1> SUFFICES ASSUME IInv, [Next]_vars PROVE NotResent
  OBVIOUS
<1>1. ASSUME NEW comp \in Components \cup {CompIdAll}, NEW command \in Commands,
             sendMavCommand(comp, command)
      PROVE  NotResent
  <2> DEFINE call == [comp |-> comp, command |-> command, message |-> NoMessage]
  <2>1. call \in Calls /\ _sendMavCommandWorker(call)
    BY <1>1 DEF Calls, sendMavCommand
  <2> HIDE DEF call
  <2> QED BY <2>1, CallSendsItsOwn
<1>2. ASSUME NEW comp \in Components \cup {CompIdAll}, NEW message \in Messages,
             requestMessage(comp, message)
      PROVE  NotResent
  <2> DEFINE call == [comp |-> comp, command |-> "requestMessage",
                      message |-> message]
  <2>1. call \in Calls /\ _sendMavCommandWorker(call)
    BY <1>2 DEF Calls, Commands, requestMessage
  <2> HIDE DEF call
  <2> QED BY <2>1, CallSendsItsOwn
<1>3. CASE _mavCommandResponseCheckTimer
  <2>1. /\ DOMAIN list' = DOMAIN list
        /\ \A i \in DOMAIN list : list'[i].call = list[i].call
                                  /\ list'[i].tries = list[i].tries
    <3>1. list' = [i \in DOMAIN list |->
                     [list[i] EXCEPT !.age = Later(@, AckTimeout)]]
      BY <1>3 DEF _mavCommandResponseCheckTimer
    <3>2. \A i \in DOMAIN list : list[i] \in Entries
      BY DEF IInv, Shape
    <3> QED BY <3>1, <3>2 DEF Entries
  <2> QED BY <2>1, MarkingSendsNothing DEF IInv
<1>4. CASE OtherMessageReceived \/ PrimaryLinkChanged \/ UNCHANGED vars
  BY <1>4, MarkingSendsNothing
     DEF IInv, OtherMessageReceived, PrimaryLinkChanged, vars
<1> QED BY <1>1, <1>2, <1>3, <1>4, CheckSendsOverdue, ArrivalSendsNothing
        DEF Next

-----------------------------------------------------------------------------
(* Theorems.                                                               *)

\* The invariant the others follow from.
THEOREM Invariance == Spec => []IInv
BY Initially, NextKeeps, PTL DEF Spec

\* No call is answered twice (Vehicle::_requestMessageCmdResultHandler,
\* _handleCommandAck, _sendMavCommandFromList).
THEOREM AnsweredOnceHolds == Spec => []AnsweredOnce
<1>1. IInv => AnsweredOnce
  BY DEF IInv, Books
<1> QED BY <1>1, Invariance, PTL

\* The state has its type, and neither a queued command nor the map points to an
\* info that has been deleted (Vehicle::_requestMessageInfoMap).
THEOREM InfosAreAliveHolds == Spec => []InfosAreAlive
<1>1. IInv => InfosAreAlive
  <2> SUFFICES ASSUME IInv PROVE InfosAreAlive
    OBVIOUS
  <2>1. /\ Shape /\ BookTypes /\ QueuedWait /\ MappedWait /\ Counters
    BY DEF IInv, Books
  <2>2. \A i \in DOMAIN list : list[i].call \in DOMAIN calls /\ list[i].call \notin freed
    BY <2>1 DEF Queued, QueuedWait
  <2>3. \A key \in Keys : info[key] # 0 => info[key] \in DOMAIN calls
    BY <2>1 DEF MappedWait
  <2>4. TypeOK
    BY <2>1, <2>2, <2>3 DEF TypeOK, Shape, BookTypes, Counters, Calls
  <2>5. \A key \in Keys : info[key] \notin freed
    BY <2>1 DEF MappedWait, BookTypes, CallIds
  <2> QED BY <2>2, <2>4, <2>5 DEF InfosAreAlive
<1> QED BY <1>1, Invariance, PTL

\* List and map agree while every request has been recorded with its command
\* (Vehicle::_sendMavCommandWorker, _waitForMavlinkMessageMessageReceivedHandler).
THEOREM ListAndMapAgreeHolds == Spec => []ListAndMapAgree
<1>1. IInv => ListAndMapAgree
  <2> SUFFICES ASSUME IInv, ~untracked PROVE ListAndMapAgree
    BY DEF ListAndMapAgree
  <2>1. BookTypes /\ Tracked
    BY DEF IInv, Books
  <2>2. \A c : c \in Queued <=> \E i \in DOMAIN list : list[i].call = c
    BY DEF Queued
  <2> QED BY <2>1, <2>2 DEF ListAndMapAgree, Tracked
<1> QED BY <1>1, Invariance, PTL

\* A command goes out again only if it may be retried and the vehicle has not
\* been heard to have it (Vehicle::_sendMavCommandFromList, _handleCommandAck).
THEOREM HeardIsNotResentHolds == Spec => HeardIsNotResent
<1>1. IInv /\ [Next]_vars =>
        [\A i \in DOMAIN list, j \in DOMAIN list' :
           list[i].call = list'[j].call /\ list[i].tries # list'[j].tries =>
             ~list[i].heard
             /\ _sendMavCommandShouldRetry(calls[list[i].call].command)]_vars
  BY StepSends DEF NotResent
<1> QED BY <1>1, Invariance, PTL DEF Spec, HeardIsNotResent

===============================================================================
