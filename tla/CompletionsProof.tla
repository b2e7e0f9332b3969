--------------------------- MODULE CompletionsProof ---------------------------
(***************************************************************************)
(* The server queue with its readers and slots implements Completions, for *)
(* any number of both and answers of any length.                           *)
(***************************************************************************)
EXTENDS ServerQueueProof

\* In the beginning nobody has asked.
LEMMA PromiseInit == Init => Promise!Init
<1> SUFFICES ASSUME Init PROVE Promise!Init
  OBVIOUS
<1>1. \A r \in Readers : Caller(r) = "new" /\ Task(r) = "none"
  BY DEF Init, Caller, Task
<1>2. Asked = [r \in Readers |-> "new"] /\ Work = [r \in Readers |-> "none"]
  BY <1>1 DEF Asked, Work
<1> QED BY <1>2 DEF Init, Promise!Init
-----------------------------------------------------------------------------
(***************************************************************************)
(* What a step does to the tasks and to the callers.                       *)
(***************************************************************************)
TaskStays(r) == Task(r)' = Task(r)
CallerStays(r) == Caller(r)' = Caller(r)

\* A task whose copies, slot and reader stay as they are does so itself,
LEMMA SameTask ==
    ASSUME NEW r \in Readers,
           reader'[r] \in {"new", "post"} <=> reader[r] \in {"new", "post"},
           Copies(r)' = Copies(r), Releasing(r)' <=> Releasing(r), InSlot(r)' <=> InSlot(r)
    PROVE  TaskStays(r)
  BY DEF TaskStays, Task

\* and a caller whose reader stays.
LEMMA SameCaller ==
    ASSUME NEW r \in Readers, reader'[r] = reader[r]
    PROVE  CallerStays(r)
  BY DEF CallerStays, Caller

\* If all stay, Completions sees no change,
LEMMA AllStay ==
    /\ (\A r \in Readers : TaskStays(r)) => Work' = Work
    /\ (\A r \in Readers : CallerStays(r)) => Asked' = Asked
  BY DEF TaskStays, CallerStays, Work, Asked

\* if all but one do, a change of this one.
LEMMA OneMoves ==
    ASSUME NEW q \in Readers
    PROVE  /\ (\A r \in Readers \ {q} : TaskStays(r))
                 => Work' = [Work EXCEPT ![q] = Task(q)'] /\ Work[q] = Task(q)
           /\ (\A r \in Readers \ {q} : CallerStays(r))
                 => Asked' = [Asked EXCEPT ![q] = Caller(q)'] /\ Asked[q] = Caller(q)
  BY DEF TaskStays, CallerStays, Work, Asked

\* A task that is placed once is nowhere else: in a slot,
LEMMA OnlyInSlot ==
    ASSUME TypeOK, TaskOnce, NEW r \in Readers, NEW s \in Slots, slot[s] = r
    PROVE  /\ InSlot(r) /\ Copies(r) = 1
           /\ Count(tasks, Completion(r)) = 0 /\ Count(deferred, r) = 0 /\ ~InHand(r)
           /\ \A i \in Slots : slot[i] = r => i = s
<1>1. /\ Count(tasks, Completion(r)) \in Nat /\ Count(deferred, r) \in Nat
      /\ Count(slot, r) \in Nat /\ Copies(r) \in Nat /\ Copies(r) >= 1 /\ Copies(r) <= 1
  BY CopiesTyped DEF TaskOnce
<1>2. DOMAIN slot = Slots /\ IsFiniteSet(Slots) /\ r # None
  BY QueueAssumption DEF TypeOK
<1>3. Count(slot, r) # 0
  BY <1>2, CountTyped
<1>4. /\ Count(tasks, Completion(r)) = 0 /\ Count(deferred, r) = 0 /\ ~InHand(r)
      /\ Count(slot, r) = 1 /\ Copies(r) = 1
  BY <1>1, <1>3 DEF Copies
<1> DEFINE g == [slot EXCEPT ![s] = None]
<1>5. DOMAIN g = Slots /\ g[s] # r /\ \A i \in Slots \ {s} : g[i] = slot[i]
  BY <1>2
<1> HIDE DEF g
<1>6. Count(g, r) = 0
  BY <1>2, <1>4, <1>5, CountSlot
<1>7. \A i \in Slots : g[i] # r
  <2>1. IsFiniteSet(DOMAIN g)
    BY <1>2, <1>5
  <2>2. \A i \in DOMAIN g : g[i] # r
    BY <1>6, <2>1, CountTyped
  <2> QED BY <1>5, <2>2
<1>8. \A i \in Slots : slot[i] = r => i = s
  BY <1>5, <1>7
<1> QED BY <1>4, <1>8 DEF InSlot

\* or in the inference thread's hands,
LEMMA OnlyInHand ==
    ASSUME TypeOK, TaskOnce, NEW r \in Readers, InHand(r)
    PROVE  Copies(r) = 1 /\ ~InSlot(r)
<1>1. /\ Count(tasks, Completion(r)) \in Nat /\ Count(deferred, r) \in Nat
      /\ Count(slot, r) \in Nat /\ Copies(r) \in Nat /\ Copies(r) >= 1 /\ Copies(r) <= 1
  BY CopiesTyped DEF TaskOnce
<1>2. ~InSlot(r)
  BY OnlyInSlot DEF InSlot
<1> QED BY <1>1, <1>2

\* or nowhere.
Absent(r) == ~InSlot(r) /\ ~InHand(r)

\* A task without copies is absent.
LEMMA Nowhere ==
    ASSUME TypeOK, NEW r \in Readers, Copies(r) = 0
    PROVE  Absent(r)
<1>1. (\A s \in Slots : slot[s] = r => Copies(r) >= 1) /\ (InHand(r) => Copies(r) >= 1)
  BY CopiesTyped
<1> QED BY <1>1 DEF InSlot, Absent

NoCopyAbsent == \A r \in Readers : Copies(r) = 0 => Absent(r)

\* After a step as well.
LEMMA AbsentNext == TypeOK' => NoCopyAbsent'
<1>1. TypeOK => NoCopyAbsent
  BY Nowhere DEF NoCopyAbsent
<1> QED BY <1>1, PTL
-----------------------------------------------------------------------------
(***************************************************************************)
(* The steps of the inference thread.                                      *)
(***************************************************************************)
\* What the inference thread does without a task moving on.
Unseen == \/ StartLoop \/ EndLoop \/ Pop \/ Wait \/ IgnoreTask \/ AllIdle \/ Decode
          \/ SlotsUpdated \/ Defer

\* Nobody sees that: a task that waits is queued, wherever it waits.
LEMMA UnseenStays == ASSUME IInv, Unseen PROVE UNCHANGED Promise!vars
<1>1. TypeOK /\ Hands
  BY DEF IInv
<1>2. UNCHANGED <<reader, got, sampled, slot>> /\ loop # "release" /\ loop' # "release"
  <2> USE DEF Unseen, scheduling
  <2>1. CASE StartLoop \/ EndLoop \/ Pop \/ Wait \/ AllIdle \/ Decode \/ SlotsUpdated
    BY <2>1 DEF StartLoop, EndLoop, Pop, Wait, AllIdle, Decode, SlotsUpdated
  <2>2. CASE IgnoreTask \/ Defer
    BY <2>2 DEF IgnoreTask, Defer, Processing
  <2> QED BY <2>1, <2>2
<1>3. \A r \in Readers : Copies(r)' = Copies(r)
  BY <1>1, PopCopies, DecodeCopies, DeferCopies, OtherCopies DEF Unseen, Elsewhere
<1>4. ASSUME NEW r \in Readers PROVE TaskStays(r) /\ CallerStays(r)
  <2>1. ~Releasing(r) /\ ~Releasing(r)' /\ (InSlot(r)' <=> InSlot(r))
    BY <1>2 DEF Releasing, InSlot
  <2> QED BY <1>2, <1>3, <2>1, SameTask, SameCaller
<1> QED BY <1>2, <1>4, AllStay DEF Promise!vars

\* A slot that is idle is one more than there are running tasks.
LEMMA RoomLeft ==
    ASSUME TypeOK, NEW s \in Slots, slot[s] = None
    PROVE  Cardinality(Promise!Running) < Cardinality(Slots)
<1> DEFINE R == Promise!Running
           h == [r \in R |-> CHOOSE i \in Slots : slot[i] = r]
<1>1. \A r \in R : r \in Readers /\ InSlot(r)
  <2>1. \A r \in Readers : Work[r] = "running" => InSlot(r)
    BY DEF Work, Task
  <2> QED BY <2>1 DEF Promise!Running
<1>2. \A r \in R : h[r] \in Slots /\ slot[h[r]] = r
  BY <1>1 DEF InSlot
<1>3. \A r \in R : h[r] \in Slots \ {s}
  BY <1>1, <1>2, QueueAssumption
<1> HIDE DEF R
<1>4. h \in Injection(R, Slots \ {s})
  <2>1. h \in [R -> Slots \ {s}]
    BY <1>3
  <2>2. \A r, q \in R : h[r] = h[q] => r = q
    BY <1>2
  <2> QED BY <2>1, <2>2 DEF Injection, IsInjective
<1> DEFINE rest == Slots \ {s}
<1>5. IsFiniteSet(rest) /\ Cardinality(rest) = Cardinality(Slots) - 1
  BY QueueAssumption, FS_RemoveElement
<1>6. Cardinality(Slots) \in Nat
  BY QueueAssumption, FS_CardinalityType
<1>7. h \in Injection(R, rest)
  BY <1>4
<1> HIDE DEF rest, h
<1>8. IsFiniteSet(R) /\ Cardinality(R) <= Cardinality(rest)
  BY <1>5, <1>7, FS_Injection
<1>9. Cardinality(R) \in Nat
  BY <1>8, FS_CardinalityType
<1> QED BY <1>5, <1>6, <1>8, <1>9 DEF R

\* A task in hand is queued, and not for a reader that has not posted it.
LEMMA HandQueued ==
    ASSUME IInv, Processing("completion")
    PROVE  /\ current.of \in Readers /\ InHand(current.of) /\ Copies(current.of) = 1
           /\ Task(current.of) = "queued"
           /\ reader[current.of] \notin {"new", "post"}
           /\ \A r \in Readers : ~Releasing(r) /\ (r # current.of => ~InHand(r))
<1>1. TypeOK /\ Hands /\ TaskOnce /\ Posted
  BY DEF IInv
<1>2. loop = "process" /\ current.of \in Readers /\ current = Completion(current.of)
  BY <1>1, Handed
<1>3. InHand(current.of) /\ \A r \in Readers : ~Releasing(r) /\ (r # current.of => ~InHand(r))
  BY <1>2, Distinct DEF InHand, Releasing
<1>4. Copies(current.of) = 1 /\ ~InSlot(current.of)
  BY <1>1, <1>2, <1>3, OnlyInHand
<1>5. reader[current.of] \notin {"new", "post"}
  BY <1>1, <1>2, <1>4 DEF Posted
<1> QED BY <1>2, <1>3, <1>4, <1>5 DEF Task

\* Launched, it starts,
LEMMA LaunchStarts ==
    ASSUME IInv, Launch
    PROVE  current.of \in Readers /\ Promise!Start(current.of)
<1>1. TypeOK /\ Hands
  BY DEF IInv
<1>0. current.of \in Readers
  BY HandQueued DEF Launch
<1> PICK q \in Readers : q = current.of
  BY <1>0
<1>2. /\ Copies(q) = 1 /\ Task(q) = "queued"
      /\ reader[q] \notin {"new", "post"} /\ \A r \in Readers : ~Releasing(r)
  BY HandQueued DEF Launch
<1>3. PICK s \in Slots : slot[s] = None /\ slot' = [slot EXCEPT ![s] = q]
  BY DEF Launch, Idle
<1>4. UNCHANGED <<reader, got, sampled>> /\ loop' = "pop"
  BY DEF Launch
<1>5. \A r \in Readers : Copies(r)' = Copies(r)
  BY <1>1, LaunchCopies
<1>6. slot'[s] = q /\ \A i \in Slots \ {s} : slot'[i] = slot[i]
  BY <1>1, <1>3 DEF TypeOK
<1>7. \A r \in Readers : ~Releasing(r)'
  BY <1>4 DEF Releasing
<1>8. \A r \in Readers \ {q} : TaskStays(r)
  <2> TAKE r \in Readers \ {q}
  <2>1. InSlot(r)' <=> InSlot(r)
    BY <1>3, <1>6, QueueAssumption DEF InSlot
  <2> QED BY <1>2, <1>4, <1>5, <1>7, <2>1, SameTask
<1>9. \A r \in Readers : CallerStays(r)
  BY <1>4, SameCaller
<1>10. Task(q)' = "running"
  <2>1. InSlot(q)'
    BY <1>6 DEF InSlot
  <2>2. Copies(q)' = 1
    BY <1>2, <1>5
  <2> QED BY <1>2, <1>4, <1>7, <2>1, <2>2 DEF Task
<1>11. Work[q] = "queued" /\ Work' = [Work EXCEPT ![q] = "running"]
  BY <1>2, <1>8, <1>10, OneMoves
<1>12. Asked' = Asked
  BY <1>9, AllStay
<1>13. Cardinality(Promise!Running) < Cardinality(Slots)
  BY <1>1, <1>3, RoomLeft
<1> QED BY <1>2, <1>4, <1>11, <1>12, <1>13
  DEF Promise!Start, Promise!Cardinality, Cardinality

\* refused, it is over,
LEMMA RefuseEnds ==
    ASSUME IInv, Refuse
    PROVE  current.of \in Readers /\ Promise!End(current.of)
<1>1. TypeOK /\ Hands
  BY DEF IInv
<1>0. current.of \in Readers
  BY HandQueued DEF Refuse
<1> PICK q \in Readers : q = current.of
  BY <1>0
<1>2. /\ Copies(q) = 1 /\ Task(q) = "queued"
      /\ reader[q] \notin {"new", "post"} /\ \A r \in Readers : ~Releasing(r)
  BY HandQueued DEF Refuse
<1>3. UNCHANGED <<reader, got, sampled, slot>> /\ loop' = "pop"
  BY DEF Refuse
<1>4. \A r \in Readers : Copies(r)' = IF r = q THEN Copies(r) - 1 ELSE Copies(r)
  BY <1>1, RefuseCopies
<1>5. \A r \in Readers : ~Releasing(r)' /\ (InSlot(r)' <=> InSlot(r))
  BY <1>3 DEF Releasing, InSlot
<1>6. \A r \in Readers \ {q} : TaskStays(r)
  BY <1>2, <1>3, <1>4, <1>5, SameTask
<1>7. \A r \in Readers : CallerStays(r)
  BY <1>3, SameCaller
<1>8. Task(q)' = "over"
  <2>1. Copies(q)' = 0
    BY <1>2, <1>4
  <2> QED BY <1>2, <1>3, <2>1 DEF Task
<1>9. Work[q] = "queued" /\ Work' = [Work EXCEPT ![q] = "over"] /\ Asked' = Asked
  BY <1>2, <1>6, <1>7, <1>8, OneMoves, AllStay
<1> QED BY <1>2, <1>3, <1>9 DEF Promise!End

\* A task in a slot is running until its last result is sent.
LEMMA SlotRuns ==
    ASSUME IInv, loop # "release", NEW s \in Slots, slot[s] \in Readers
    PROVE  /\ Copies(slot[s]) = 1 /\ InSlot(slot[s]) /\ reader[slot[s]] \notin {"new", "post"}
           /\ Task(slot[s]) = "running"
           /\ \A i \in Slots : slot[i] = slot[s] => i = s
<1>1. TypeOK /\ TaskOnce /\ Posted
  BY DEF IInv
<1>2. PICK q \in Readers : q = slot[s]
  OBVIOUS
<1>3. Copies(q) = 1 /\ InSlot(q) /\ \A i \in Slots : slot[i] = q => i = s
  BY <1>1, <1>2, OnlyInSlot
<1>4. reader[q] \notin {"new", "post"} /\ ~Releasing(q)
  BY <1>1, <1>3 DEF Posted, Releasing
<1> QED BY <1>2, <1>3, <1>4 DEF Task

\* Cancelled in its slot, it is over; the deferred task that takes its turn is
\* still queued.
LEMMA CancelRunningEnds ==
    ASSUME IInv, CancelRunning
    PROVE  current.of \in Readers /\ Promise!End(current.of)
<1>1. TypeOK /\ Hands
  BY DEF IInv
<1>2. /\ current.of \in Readers /\ loop = "process" /\ loop' = "pop" /\ current' = None
      /\ \A r \in Readers : ~InHand(r)
  BY <1>1, Handed DEF CancelRunning
<1> PICK q \in Readers : q = current.of
  BY <1>2
<1>3. PICK s \in Slots : slot[s] = q /\ Release(s)
  BY DEF CancelRunning
<1>4. UNCHANGED <<reader, got, sampled>> /\ slot' = [slot EXCEPT ![s] = None]
  BY <1>3 DEF CancelRunning, Release
<1>5. \A r \in Readers : ~Releasing(r) /\ ~Releasing(r)' /\ (InHand(r)' <=> InHand(r))
  BY <1>2 DEF Releasing, InHand
<1>6. \A r \in Readers : Copies(r)' = IF r = q THEN Copies(r) - 1 ELSE Copies(r)
  BY <1>1, <1>3, <1>5, Released
<1>7. /\ Copies(q) = 1 /\ Task(q) = "running" /\ reader[q] \notin {"new", "post"}
  BY <1>2, <1>3, SlotRuns
<1>8. \A i \in Slots \ {s} : slot'[i] = slot[i]
  BY <1>1, <1>4 DEF TypeOK
<1>9. \A r \in Readers \ {q} : TaskStays(r)
  <2> TAKE r \in Readers \ {q}
  <2>1. slot[s] # r /\ slot'[s] # r
    BY <1>1, <1>3, <1>4, QueueAssumption DEF TypeOK
  <2>2. InSlot(r)' <=> InSlot(r)
    BY <1>8, <2>1 DEF InSlot
  <2> QED BY <1>4, <1>5, <1>6, <2>2, SameTask
<1>10. \A r \in Readers : CallerStays(r)
  BY <1>4, SameCaller
<1>11. Task(q)' = "over"
  <2>1. Copies(q)' = 0
    BY <1>6, <1>7
  <2> QED BY <1>4, <1>7, <2>1 DEF Task
<1>12. Work[q] = "running" /\ Work' = [Work EXCEPT ![q] = "over"] /\ Asked' = Asked
  BY <1>7, <1>9, <1>10, <1>11, OneMoves, AllStay
<1> QED BY <1>4, <1>12 DEF Promise!End

\* Its tokens are generated one by one, and text withheld makes no difference,
LEMMA SampleGenerates ==
    ASSUME IInv, NEW s \in Slots, Sample(s)
    PROVE  \/ slot[s] \in Readers /\ Promise!Generate(slot[s])
           \/ UNCHANGED Promise!vars
<1>1. TypeOK /\ Hands
  BY DEF IInv
<1>2. /\ loop = "slots" /\ s \in pending /\ slot[s] \in Readers
      /\ decoded[slot[s]] < MaxTokens
      /\ sampled' \in {sampled, [sampled EXCEPT ![slot[s]] = sampled[slot[s]] + 1]}
      /\ UNCHANGED <<tasks, deferred, slot, reader, got>> /\ loop' \in {"slots", "finish"}
  BY <1>1 DEF Sample, TypeOK, scheduling
<1> PICK q \in Readers : q = slot[s]
  BY <1>2
<1>3. Task(q) = "running"
  BY <1>2, SlotRuns
<1>4. ASSUME NEW r \in Readers PROVE TaskStays(r) /\ CallerStays(r)
  <2>1. ~Releasing(r) /\ ~Releasing(r)' /\ ~InHand(r) /\ ~InHand(r)'
    BY <1>2 DEF Releasing, InHand
  <2>2. Copies(r)' = Copies(r)
    BY <1>2, <2>1 DEF Copies
  <2>3. InSlot(r)' <=> InSlot(r)
    BY <1>2 DEF InSlot
  <2> QED BY <1>2, <2>1, <2>2, <2>3, SameTask, SameCaller
<1>5. Work' = Work /\ Asked' = Asked /\ Work[q] = "running"
  BY <1>3, <1>4, AllStay DEF Work
<1>6. sampled[q] < MaxTokens
  <2>1. /\ sampled[q] \in Nat /\ decoded[q] \in 0..MaxTokens
        /\ sampled[q] <= decoded[q] /\ MaxTokens \in Nat
    BY <1>1, QueueAssumption DEF TypeOK
  <2> QED BY <1>2, <2>1
<1>7. CASE sampled' = sampled
  BY <1>2, <1>5, <1>7 DEF Promise!vars
<1>8. CASE sampled' = [sampled EXCEPT ![q] = sampled[q] + 1]
  BY <1>2, <1>5, <1>6, <1>8 DEF Promise!Generate
<1> QED BY <1>2, <1>7, <1>8

\* and sending the last result ends it.
LEMMA LastSentEnds ==
    ASSUME IInv, NEW s \in Slots, s \in pending, loop \in {"slots", "finish"},
           loop' = "release", current' = s, UNCHANGED <<scheduling, reader, got, sampled, slot>>
    PROVE  slot[s] \in Readers /\ Promise!End(slot[s])
<1>1. TypeOK /\ Hands
  BY DEF IInv
<1>2. slot[s] \in Readers
  BY <1>1 DEF TypeOK, Hands
<1> PICK q \in Readers : q = slot[s]
  BY <1>2
<1>3. Task(q) = "running" /\ reader[q] \notin {"new", "post"}
  BY <1>2, SlotRuns
<1>4. \A r \in Readers : (Releasing(r)' <=> r = q) /\ ~Releasing(r)
  BY DEF Releasing
<1>5. ASSUME NEW r \in Readers PROVE CallerStays(r) /\ (r # q => TaskStays(r))
  <2>1. ~InHand(r) /\ ~InHand(r)'
    BY DEF InHand
  <2>2. Copies(r)' = Copies(r)
    BY <2>1 DEF Copies, scheduling
  <2>3. InSlot(r)' <=> InSlot(r)
    BY DEF InSlot
  <2> QED BY <1>4, <2>2, <2>3, SameTask, SameCaller
<1>6. Task(q)' = "over"
  BY <1>3, <1>4 DEF Task
<1>7. Work[q] = "running" /\ Work' = [Work EXCEPT ![q] = "over"] /\ Asked' = Asked
  BY <1>3, <1>5, <1>6, OneMoves, AllStay
<1> QED BY <1>7 DEF Promise!End

\* The release of its slot is nobody's business then.
LEMMA ReleaseUnseen == ASSUME IInv, ReleaseSlot PROVE UNCHANGED Promise!vars
<1>1. TypeOK /\ Hands /\ TaskOnce
  BY DEF IInv
<1>2. /\ loop = "release" /\ loop' = "slots" /\ Release(current)
      /\ UNCHANGED <<reader, got, sampled>> /\ slot' = [slot EXCEPT ![current] = None]
  BY DEF ReleaseSlot, Release
<1>3. current \in Slots /\ slot[current] \in Readers
  BY <1>1, <1>2 DEF TypeOK, Hands
<1> PICK s \in Slots, q \in Readers : s = current /\ q = slot[s]
  BY <1>3
<1>4. \A r \in Readers : Copies(r)' = IF r = q THEN Copies(r) - 1 ELSE Copies(r)
  BY <1>1, ReleaseCopies
<1>5. \A r \in Readers : (Releasing(r) <=> r = q) /\ ~Releasing(r)'
  BY <1>2 DEF Releasing
<1>6. Copies(q) = 1
  BY <1>1, OnlyInSlot
<1>7. Copies(q)' = 0
  BY <1>4, <1>6
<1>8. TaskStays(q)
  BY <1>2, <1>5, <1>7 DEF TaskStays, Task
<1>9. \A r \in Readers \ {q} : TaskStays(r)
  <2> TAKE r \in Readers \ {q}
  <2>1. slot[s] # r /\ slot'[s] # r /\ \A i \in Slots \ {s} : slot'[i] = slot[i]
    BY <1>1, <1>2, QueueAssumption DEF TypeOK
  <2>2. InSlot(r)' <=> InSlot(r)
    BY <2>1 DEF InSlot
  <2> QED BY <1>2, <1>4, <1>5, <2>2, SameTask
<1>10. \A r \in Readers : CallerStays(r)
  BY <1>2, SameCaller
<1> QED BY <1>2, <1>8, <1>9, <1>10, AllStay DEF Promise!vars
-----------------------------------------------------------------------------
(***************************************************************************)
(* The steps of the readers.                                               *)
(***************************************************************************)
\* Which task waits where, and which slot works for whom.
places == <<tasks, deferred, slot, loop, current>>

\* A reader that moves on, with no task moved and none posted, changes at most
\* what it is as a caller.
LEMMA ReaderMoves ==
    ASSUME TypeOK, NEW q \in Readers, NEW l, UNCHANGED places,
           reader' = [reader EXCEPT ![q] = l],
           l \in {"new", "post"} <=> reader[q] \in {"new", "post"}
    PROVE  /\ Work' = Work
           /\ Asked' = [Asked EXCEPT ![q] = Caller(q)'] /\ Asked[q] = Caller(q)
           /\ reader'[q] = l
<1>1. reader'[q] = l /\ \A r \in Readers \ {q} : reader'[r] = reader[r]
  BY DEF TypeOK
<1>2. ASSUME NEW r \in Readers PROVE TaskStays(r)
  <2>1. Copies(r)' = Copies(r)
    BY DEF Copies, InHand, places
  <2>2. (Releasing(r)' <=> Releasing(r)) /\ (InSlot(r)' <=> InSlot(r))
    BY DEF Releasing, InSlot, places
  <2> QED BY <1>1, <2>1, <2>2, SameTask
<1>3. \A r \in Readers \ {q} : CallerStays(r)
  BY <1>1, SameCaller
<1> QED BY <1>1, <1>2, <1>3, AllStay, OneMoves

\* Before it has posted and after it has stopped nobody sees it move,
LEMMA MovesUnseen ==
    ASSUME TypeOK, NEW q \in Readers,
           AddWaiting(q) \/ StopServed(q) \/ StopWaiting(q) \/ DropResults(q)
    PROVE  UNCHANGED Promise!vars
<1>1. PICK l : /\ reader' = [reader EXCEPT ![q] = l]
               /\ <<reader[q], l>> \in {<<"new", "post">>, <<"received", "served">>,
                                        <<"stop", "drop">>, <<"drop", "cancel">>}
  <2>1. CASE AddWaiting(q)
    BY <2>1 DEF AddWaiting, ReaderGoto
  <2>2. CASE StopServed(q)
    BY <2>2 DEF StopServed, ReaderGoto
  <2>3. CASE StopWaiting(q)
    BY <2>3 DEF StopWaiting, ReaderGoto
  <2>4. CASE DropResults(q)
    BY <2>4 DEF DropResults, ReaderGoto
  <2> QED BY <2>1, <2>2, <2>3, <2>4
<1>2. UNCHANGED places /\ UNCHANGED <<got, sampled>>
  BY DEF AddWaiting, StopServed, StopWaiting, DropResults, places, scheduling, serving
<1>3. l \in {"new", "post"} <=> reader[q] \in {"new", "post"}
  BY <1>1
<1>4. /\ Work' = Work /\ reader'[q] = l
      /\ Asked' = [Asked EXCEPT ![q] = Caller(q)'] /\ Asked[q] = Caller(q)
  BY <1>1, <1>2, <1>3, ReaderMoves
<1>5. Caller(q)' = Caller(q)
  BY <1>1, <1>4 DEF Caller
<1>6. Asked' = Asked
  BY <1>4, <1>5 DEF Asked
<1> QED BY <1>2, <1>4, <1>6 DEF Promise!vars

\* posting is asking,
LEMMA PostAsks ==
    ASSUME IInv, NEW q \in Readers, PostTask(q)
    PROVE  Promise!Ask(q)
<1>1. TypeOK /\ Posted
  BY DEF IInv
<1>2. /\ reader[q] = "post" /\ reader' = [reader EXCEPT ![q] = "next"]
      /\ UNCHANGED <<deferred, slot, loop, current, got, sampled>>
  BY DEF PostTask, ReaderGoto, serving
<1>3. reader'[q] = "next" /\ \A r \in Readers \ {q} : reader'[r] = reader[r]
  BY <1>1, <1>2 DEF TypeOK
<1>4. \A r \in Readers : Copies(r)' = IF r = q THEN Copies(r) + 1 ELSE Copies(r)
  BY <1>1, PostCopies
<1>5. Copies(q) = 0 /\ ~InSlot(q)
  BY <1>1, <1>2, Nowhere DEF Posted, Absent
<1>6. \A r \in Readers : (Releasing(r)' <=> Releasing(r)) /\ (InSlot(r)' <=> InSlot(r))
  BY <1>2 DEF Releasing, InSlot
<1>7. ~Releasing(q)
  BY <1>1, <1>5 DEF Releasing, InSlot, IInv, Hands, TypeOK
<1>8. \A r \in Readers \ {q} : TaskStays(r) /\ CallerStays(r)
  BY <1>3, <1>4, <1>6, SameTask, SameCaller
<1>9. Task(q) = "none" /\ Caller(q) = "new"
  BY <1>2 DEF Task, Caller
<1>10. Task(q)' = "queued" /\ Caller(q)' = "open"
  <2>1. Copies(q)' = 1 /\ ~Releasing(q)' /\ ~InSlot(q)'
    BY <1>4, <1>5, <1>6, <1>7
  <2> QED BY <1>3, <2>1 DEF Task, Caller
<1>11. /\ Work[q] = "none" /\ Work' = [Work EXCEPT ![q] = "queued"]
       /\ Asked[q] = "new" /\ Asked' = [Asked EXCEPT ![q] = "open"]
  BY <1>8, <1>9, <1>10, OneMoves
<1> QED BY <1>2, <1>11 DEF Promise!Ask

\* leaving closes the stream,
LEMMA LeaveCloses ==
    ASSUME TypeOK, NEW q \in Readers, Leave(q)
    PROVE  Promise!Close(q)
<1>1. /\ reader[q] = "next" /\ reader' = [reader EXCEPT ![q] = "stop"]
      /\ UNCHANGED places /\ UNCHANGED <<got, sampled>>
  BY DEF Leave, ReaderGoto, places, scheduling, serving
<1>2. /\ Work' = Work /\ reader'[q] = "stop"
      /\ Asked' = [Asked EXCEPT ![q] = Caller(q)'] /\ Asked[q] = Caller(q)
  BY <1>1, ReaderMoves
<1>3. Caller(q) = "open" /\ Caller(q)' = "closed"
  BY <1>1, <1>2 DEF Caller
<1> QED BY <1>1, <1>2, <1>3 DEF Promise!Close

\* and the results deliver the tokens, the end after the last one, or an error.
LEMMA ReceiveDelivers ==
    ASSUME IInv, NEW q \in Readers, Receive(q)
    PROVE  Promise!Deliver(q) \/ Promise!Answer(q) \/ Promise!Close(q)
<1> DEFINE t == Taken(q)
<1>1. TypeOK /\ Balance /\ LastIsLast /\ Ends
  BY DEF IInv, Answers
<1>2. /\ t \in Places(q) /\ t \in DOMAIN results /\ results[t].of = q
      /\ \A j \in Places(q) : t <= j
  BY <1>1, TakenFirst DEF Receive, Places
<1>3. results[t].kind \in Kinds /\ results[t] = [kind |-> results[t].kind, of |-> q]
  BY <1>1, <1>2, PlacesTyped
<1>4. reader[q] = "next" /\ UNCHANGED places /\ UNCHANGED sampled
  BY DEF Receive, places, scheduling, serving
<1> DEFINE p == [kind |-> "partial", of |-> q]
<1>5. results \in Seq(Results)
  BY <1>1 DEF TypeOK
<1>6. /\ Partials(q) \in Nat /\ got[q] + Partials(q) = sampled[q]
      /\ got[q] \in Nat /\ sampled[q] \in Nat
  <2>1. Partials(q) \in Nat
    BY <1>5, CountSeq DEF Partials
  <2>2. got[q] + Partials(q) = sampled[q]
    BY <1>1, <1>4 DEF Balance
  <2>3. got[q] \in Nat /\ sampled[q] \in Nat
    BY <1>1, QueueAssumption DEF TypeOK
  <2> QED BY <2>1, <2>2, <2>3
<1>7. CASE results[t].kind = "partial"
  <2>1. got' = [got EXCEPT ![q] = got[q] + 1] /\ reader' = [reader EXCEPT ![q] = "next"]
    BY <1>7 DEF Receive, ReaderGoto
  <2>2. Partials(q) # 0
    <3>1. results[t] = p
      BY <1>3, <1>7
    <3> HIDE DEF p, t
    <3>2. Count(results, p) # 0
      BY <1>2, <1>5, <3>1, CountSeq
    <3> QED BY <3>2 DEF Partials, p
  <2>3. got[q] < sampled[q]
    BY <1>6, <2>2
  <2>4. /\ Work' = Work /\ reader'[q] = "next"
        /\ Asked' = [Asked EXCEPT ![q] = Caller(q)'] /\ Asked[q] = Caller(q)
    BY <1>1, <1>4, <2>1, ReaderMoves
  <2>5. Caller(q) = "open" /\ Caller(q)' = "open"
    BY <1>4, <2>4 DEF Caller
  <2>6. Asked' = Asked
    BY <2>4, <2>5 DEF Asked
  <2> QED BY <1>4, <2>1, <2>3, <2>4, <2>5, <2>6 DEF Promise!Deliver
<1>8. CASE results[t].kind = "final"
  <2>1. UNCHANGED got /\ reader' = [reader EXCEPT ![q] = "received"]
    BY <1>8 DEF Receive, ReaderGoto
  <2>2. Closing(results[t]) /\ Ended(q)
    BY <1>2, <1>8 DEF Closing, Ended
  <2>3. Task(q) = "over"
    BY <1>1, <1>4, <2>2 DEF Ends, Task
  <2>4. Partials(q) = 0
    <3>1. \A j \in Places(q) : j \in Nat /\ t \in Nat
      BY <1>1, <1>2, PlacesTyped DEF Places
    <3>2. \A j \in Places(q) : j = t
      BY <1>1, <1>2, <2>2, <3>1 DEF LastIsLast
    <3>3. \A j \in DOMAIN results : results[j] # p
      BY <1>8, <3>2 DEF Places
    <3> HIDE DEF p
    <3>4. Count(results, p) = 0
      BY <1>5, <3>3, CountSeq
    <3> QED BY <3>4 DEF Partials, p
  <2>5. got[q] = sampled[q]
    BY <1>6, <2>4
  <2>6. /\ Work' = Work /\ reader'[q] = "received"
        /\ Asked' = [Asked EXCEPT ![q] = Caller(q)'] /\ Asked[q] = Caller(q)
    BY <1>1, <1>4, <2>1, ReaderMoves
  <2>7. Caller(q) = "open" /\ Caller(q)' = "answered" /\ Work[q] = "over"
    BY <1>4, <2>3, <2>6 DEF Caller, Work
  <2> QED BY <1>4, <2>1, <2>5, <2>6, <2>7 DEF Promise!Answer
<1>9. CASE results[t].kind = "error"
  <2>1. UNCHANGED got /\ reader' = [reader EXCEPT ![q] = "stop"]
    BY <1>9 DEF Receive, ReaderGoto
  <2>2. /\ Work' = Work /\ reader'[q] = "stop"
        /\ Asked' = [Asked EXCEPT ![q] = Caller(q)'] /\ Asked[q] = Caller(q)
    BY <1>1, <1>4, <2>1, ReaderMoves
  <2>3. Caller(q) = "open" /\ Caller(q)' = "closed"
    BY <1>4, <2>2 DEF Caller
  <2> QED BY <1>4, <2>1, <2>2, <2>3 DEF Promise!Close
<1> QED BY <1>3, <1>7, <1>8, <1>9 DEF Kinds

\* A cancelled task that waits in a queue is over; one that works in a slot, or
\* is in the inference thread's hands, goes on until the thread sees the cancel.
LEMMA CancelEnds ==
    ASSUME IInv, TypeOK', NEW q \in Readers, PostCancel(q)
    PROVE  Promise!End(q) \/ UNCHANGED Promise!vars
<1>1. TypeOK /\ TaskOnce
  BY DEF IInv
<1>2. /\ reader[q] = "cancel" /\ reader' = [reader EXCEPT ![q] = "stopped"]
      /\ UNCHANGED <<slot, loop, current, got, sampled>>
  BY DEF PostCancel, ReaderGoto, serving
<1>3. reader'[q] = "stopped" /\ \A r \in Readers \ {q} : reader'[r] = reader[r]
  BY <1>1, <1>2 DEF TypeOK
<1>4. \A r \in Readers \ {q} : Copies(r)' = Copies(r)
  BY <1>1, CancelCopies
<1>5. /\ Copies(q) \in Nat /\ Copies(q) <= 1 /\ Copies(q)' <= Copies(q) /\ Copies(q)' \in Nat
  <2>1. Copies(q)' \in Nat
    <3>1. TypeOK' => CopiesAreNumbers'
      BY NumbersNext
    <3> QED BY <3>1 DEF CopiesAreNumbers
  <2> QED BY <1>1, <2>1, CopiesTyped, CancelCopies DEF TaskOnce
<1>6. \A r \in Readers : (Releasing(r)' <=> Releasing(r)) /\ (InSlot(r)' <=> InSlot(r))
  BY <1>2 DEF Releasing, InSlot
<1>7. \A r \in Readers \ {q} : TaskStays(r) /\ CallerStays(r)
  BY <1>3, <1>4, <1>6, SameTask, SameCaller
<1>8. CallerStays(q) /\ (Copies(q)' = Copies(q) => TaskStays(q))
  BY <1>2, <1>3, <1>6, SameTask DEF CallerStays, Caller
<1>9. CASE Copies(q)' = Copies(q)
  BY <1>2, <1>7, <1>8, <1>9, AllStay DEF Promise!vars
<1>10. CASE Copies(q)' # Copies(q)
  <2>1. Copies(q) = 1 /\ Copies(q)' = 0
    BY <1>5, <1>10
  <2>2. ~InSlot(q)
    <3>1. NoCopyAbsent'
      BY AbsentNext
    <3> QED BY <1>6, <2>1, <3>1 DEF NoCopyAbsent, Absent
  <2>3. ~Releasing(q)
    BY <2>2 DEF Releasing, InSlot, IInv, Hands, TypeOK
  <2>4. Task(q) = "queued" /\ Task(q)' = "over"
    BY <1>2, <1>3, <2>1, <2>2, <2>3 DEF Task
  <2>5. Work[q] = "queued" /\ Work' = [Work EXCEPT ![q] = "over"] /\ Asked' = Asked
    BY <1>7, <1>8, <2>4, OneMoves, AllStay
  <2> QED BY <1>2, <2>5 DEF Promise!End
<1> QED BY <1>9, <1>10
-----------------------------------------------------------------------------
\* Every step is one of Completions, or nobody sees it.
LEMMA PromiseNext ==
    ASSUME IInv, IInv', [Next]_vars
    PROVE  [Promise!Next]_(Promise!vars)
<1> USE DEF Promise!Next
<1>1. TypeOK /\ TypeOK'
  BY DEF IInv
<1>2. CASE \E q \in Readers : AddWaiting(q) \/ Leave(q) \/ Reads(q)
  BY <1>1, <1>2, MovesUnseen, PostAsks, LeaveCloses, ReceiveDelivers, CancelEnds DEF Reads
<1>3. CASE Unseen
  BY <1>3, UnseenStays
<1>4. CASE Launch \/ Refuse \/ CancelRunning
  BY <1>4, LaunchStarts, RefuseEnds, CancelRunningEnds
<1>5. CASE ReleaseSlot
  BY <1>5, ReleaseUnseen
<1>6. CASE SendFinal
  <2>1. /\ loop = "finish" /\ current \in pending /\ loop' = "release"
        /\ UNCHANGED <<scheduling, reader, got, sampled, slot, current>>
    BY <1>6 DEF SendFinal, IInv, Hands
  <2>2. PICK s \in Slots : s = current
    BY <1>1, <2>1 DEF TypeOK
  <2> QED BY <2>1, <2>2, LastSentEnds
<1>7. ASSUME NEW s \in Slots, Sample(s) PROVE [Promise!Next]_(Promise!vars)
  BY <1>7, SampleGenerates
<1>8. ASSUME NEW s \in Slots, SendError(s) PROVE [Promise!Next]_(Promise!vars)
  <2>1. /\ s \in pending /\ loop = "slots" /\ loop' = "release" /\ current' = s
        /\ UNCHANGED <<scheduling, reader, got, sampled, slot>>
    BY <1>8 DEF SendError
  <2> QED BY <2>1, LastSentEnds
<1>9. CASE Terminate \/ Join \/ UNCHANGED vars
  <2>1. UNCHANGED <<tasks, deferred, slot, loop, current, reader, got, sampled>>
    BY <1>9 DEF Terminate, Join, vars, scheduling, serving
  <2>2. ASSUME NEW r \in Readers PROVE TaskStays(r) /\ CallerStays(r)
    BY <2>1 DEF TaskStays, CallerStays, Task, Caller, Copies, InHand, Releasing, InSlot
  <2> QED BY <2>1, <2>2, AllStay DEF Promise!vars
<1> QED BY <1>2, <1>3, <1>4, <1>5, <1>6, <1>7, <1>8, <1>9
  DEF Next, Infer, Process, Update, Unseen

\* The queue, its readers and the slots implement Completions: a completion runs
\* once, with as many others as there are slots, and its caller is told the end
\* after the last token.
THEOREM Refinement == Spec => ImplementsCompletions
<1>1. Init => Promise!Init
  BY PromiseInit
<1>2. IInv /\ IInv' /\ [Next]_vars => [Promise!Next]_(Promise!vars)
  BY PromiseNext
<1> QED BY <1>1, <1>2, Invariance, PTL DEF Spec, Promise!Spec, ImplementsCompletions
=============================================================================
