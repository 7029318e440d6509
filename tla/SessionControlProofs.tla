------------------------- MODULE SessionControlProofs -------------------------
(***************************************************************************)
(* Proofs about SessionControl for every set of sessions and runners.      *)
(* IInv is the inductive invariant: a runner only holds, resumes and loads *)
(* sessions of its shard (ShardInv), and a session whose row says running  *)
(* is in its owner's registry or on its way there (RunInv).                *)
(***************************************************************************)
EXTENDS SessionControl, TLAPS

Loading == {"load", "run", "fail"}

ShardInv ==
  \A r \in Runners :
    /\ \A s \in reg[r] \cup resume[r] : Owns(r, s)
    /\ \A j \in busy[r] : j.step \in Loading => Owns(r, j.s)

\* The jobs of a runner that account for a running row outside its registry.
Accounts(j) == j.step \in {"fail", "stop"} \/ (j.step = "load" /\ j.resumed)

\* A status write was lost, which is all that lets a row go stale.
WriteLost == count["db"] > 0

HaltInv ==
  \A r \in Runners : dropping[r] \subseteq halted /\ (life[r] = "up" => resume[r] = {})

\* A job that is to mark a row running has registered the session; one that loads a session on
\* a control message does not find it running.
JobSound(r, j) ==
  /\ j.step = "run" => j.s \in reg[r] \/ j.s \in halted \/ row[j.s] = "deleted"
  /\ j.step = "load" /\ ~j.resumed => row[j.s] # "running" \/ j.s \in halted \/ WriteLost

JobInv == \A r \in Runners : \A j \in busy[r] : JobSound(r, j)

\* Where a session is held that its row calls running.
Held(s) ==
  LET o == Owner[s] IN
    \/ life[o] = "down"
    \/ s \in resume[o] \/ s \in reg[o] \/ s \in halted
    \/ WriteLost
    \/ \E j \in busy[o] : j.s = s /\ Accounts(j)

RunInv == \A s \in Sessions : row[s] = "running" => Held(s)

IInv == TypeOK /\ ShardInv /\ HaltInv /\ JobInv /\ RunInv

-----------------------------------------------------------------------------
(* What the shared operators do *)

\* An event counts.
LEMMA Counted ==
  ASSUME NEW k \in EventKind, count \in [EventKind -> Nat], Happens(k)
  PROVE  /\ count' \in [EventKind -> Nat]
         /\ count["db"] > 0 => count'["db"] > 0
         /\ k = "db" => count'["db"] > 0
BY DEF Happens, EventKind

\* A status is written to one row, if it is there.
LEMMA Marked ==
  ASSUME NEW s \in Sessions, NEW status \in Status, row \in [Sessions -> Status], Mark(s, status)
  PROVE  /\ row' \in [Sessions -> Status]
         /\ Present(s) => row'[s] = status
         /\ ~Present(s) => row'[s] = row[s]
         /\ \A t \in Sessions \ {s} : row'[t] = row[t]
BY DEF Mark

\* The jobs in hand: at most one per runner.
Jobs(b) == b \in [Runners -> SUBSET Job] /\ \A r \in Runners : \A i, j \in b[r] : i = j

\* A free runner takes up a job.
LEMMA Begun ==
  ASSUME NEW r \in Runners, NEW s \in Sessions, NEW step, NEW resumed \in BOOLEAN,
         step \in {"load", "run", "fail", "cancel", "stop"},
         Jobs(busy), busy[r] = {}, Begin(r, step, s, resumed)
  PROVE  /\ Jobs(busy')
         /\ busy'[r] = {[step |-> step, s |-> s, resumed |-> resumed]}
         /\ \A q \in Runners \ {r} : busy'[q] = busy[q]
<1>1. [step |-> step, s |-> s, resumed |-> resumed] \in Job
  BY DEF Job
<1>2. busy' = [busy EXCEPT ![r] = {[step |-> step, s |-> s, resumed |-> resumed]}]
  BY DEF Begin, Jobs
<1>. QED  BY <1>1, <1>2 DEF Jobs

\* A job goes on to its next step.
LEMMA Stepped ==
  ASSUME NEW r \in Runners, NEW j \in busy[r], NEW step,
         step \in {"load", "run", "fail", "cancel", "stop"},
         Jobs(busy), Step(r, j, step)
  PROVE  /\ Jobs(busy')
         /\ busy'[r] = {[step |-> step, s |-> j.s, resumed |-> j.resumed]}
         /\ \A q \in Runners \ {r} : busy'[q] = busy[q]
<1>1. j \in Job /\ busy[r] = {j}
  BY DEF Jobs
<1>2. [j EXCEPT !.step = step] = [step |-> step, s |-> j.s, resumed |-> j.resumed]
  BY <1>1 DEF Job
<1>3. [j EXCEPT !.step = step] \in Job
  BY <1>1 DEF Job
<1>4. busy' = [busy EXCEPT ![r] = {[j EXCEPT !.step = step]}]
  BY <1>1 DEF Step, Jobs
<1>. QED  BY <1>2, <1>3, <1>4 DEF Jobs

\* A job ends.
LEMMA Ended ==
  ASSUME NEW r \in Runners, NEW j \in busy[r], Jobs(busy), Done(r, j)
  PROVE  /\ Jobs(busy')
         /\ busy'[r] = {}
         /\ \A q \in Runners \ {r} : busy'[q] = busy[q]
<1>1. busy[r] = {j}
  BY DEF Jobs
<1>2. busy' = [busy EXCEPT ![r] = {}]
  BY <1>1 DEF Done, Jobs
<1>. QED  BY <1>2 DEF Jobs


\* A step keeps the state well typed.
LEMMA TypeStep ==
  ASSUME TypeOK, [Next]_vars  PROVE TypeOK'
<1>. USE SessionControlAssumption DEF TypeOK, Status, Active, Call, Message, EventKind, Jobs
<1>1. ASSUME NEW s \in Sessions, Create(s)  PROVE TypeOK'
  BY <1>1 DEF Create, memory
<1>2. ASSUME NEW s \in Sessions, Stop(s)  PROVE TypeOK'
  <2>1. Happens("stop")
    BY <1>2 DEF Stop
  <2>2. count' \in [EventKind -> Nat]
    BY <2>1, Counted
  <2>. QED  BY <1>2, <2>2, SMTT(30) DEF Stop, Present, memory
<1>3. ASSUME NEW m \in calls, Push(m)  PROVE TypeOK'
  <2>1. m \in calls /\ m.action # "delete"
    BY <1>3 DEF Push
  <2>2. m \in Message
    BY <2>1 DEF Message
  <2>3. Append(queue, m) \in Seq(Message)
    BY <2>2
  <2>4. queue' \in Seq(Message) /\ count' \in [EventKind -> Nat]
    BY <1>3, <2>3, Counted DEF Push
  <2>. QED  BY <1>3, <2>4 DEF Push, memory
<1>4. ASSUME NEW s \in Sessions, Delete(s)  PROVE TypeOK'
  BY <1>4 DEF Delete, Present, memory
<1>5. ASSUME NEW m \in calls, DeleteRow(m)  PROVE TypeOK'
  BY <1>5 DEF DeleteRow, Mark, Present, memory
<1>6. ASSUME NEW r \in Runners, Boot(r)  PROVE TypeOK'
  BY <1>6 DEF Boot, Resumed, Owns, Active, memory
<1>7. ASSUME NEW r \in Runners, Ready(r)  PROVE TypeOK'
  BY <1>7 DEF Ready, Free, memory
<1>8. ASSUME NEW r \in Runners, NEW s \in Sessions, ResumeRow(r, s)  PROVE TypeOK'
  <2>1. Jobs(busy')
    BY <1>8, Begun DEF ResumeRow, Free
  <2>. QED  BY <1>8, <2>1 DEF ResumeRow
<1>9. ASSUME NEW r \in Runners, NEW j \in busy[r], Loaded(r, j)  PROVE TypeOK'
  <2>1. Jobs(busy')
    BY <1>9, Stepped DEF Loaded
  <2>2. j.s \in Sessions
    BY DEF Job
  <2>3. reg' \in [Runners -> SUBSET Sessions] /\ tripped' \in [Runners -> SUBSET Sessions]
    BY <1>9, <2>2 DEF Loaded, Register
  <2>. QED  BY <1>9, <2>1, <2>3 DEF Loaded
<1>10. ASSUME NEW r \in Runners, NEW j \in busy[r], MarkRunning(r, j)  PROVE TypeOK'
  BY <1>10, ZenonT(30) DEF MarkRunning, Mark, Present, Done, memory
<1>11. ASSUME NEW r \in Runners, NEW j \in busy[r], LoadFails(r, j)  PROVE TypeOK'
  <2>1. Jobs(busy')
    BY <1>11, Stepped, Ended DEF LoadFails
  <2>2. count' \in [EventKind -> Nat]
    BY <1>11, Counted DEF LoadFails
  <2>. QED  BY <1>11, <2>1, <2>2 DEF LoadFails
<1>12. ASSUME NEW r \in Runners, NEW j \in busy[r], MarkFailed(r, j)  PROVE TypeOK'
  BY <1>12, ZenonT(30) DEF MarkFailed, Mark, Present, Done, memory
<1>13. ASSUME NEW r \in Runners, NEW j \in busy[r], StopDrops(r, j)  PROVE TypeOK'
  <2>1. Jobs(busy')
    BY <1>13, Stepped DEF StopDrops
  <2>. QED  BY <1>13, <2>1 DEF StopDrops, Unregister, Job
<1>14. ASSUME NEW r \in Runners, NEW j \in busy[r], MarkStopped(r, j)  PROVE TypeOK'
  BY <1>14, SMTT(30) DEF MarkStopped, Mark, Present, Happens, Done, memory
<1>15. ASSUME NEW r \in Runners, Pop(r)  PROVE TypeOK'
  <2>. HIDE DEF Call, Message
  <2>1. Head(queue) \in Message /\ Tail(queue) \in Seq(Message)
    BY <1>15 DEF Pop
  <2>2. Jobs(busy')
    BY <1>15, <2>1, Begun DEF Pop, Free, Message
  <2>. QED  BY <1>15, <2>1, <2>2 DEF Pop
<1>16. ASSUME NEW r \in Runners, NEW s \in Sessions, HaltDrops(r, s)  PROVE TypeOK'
  BY <1>16 DEF HaltDrops, Unregister, memory
<1>17. ASSUME NEW r \in Runners, NEW s \in Sessions, HaltMarks(r, s)  PROVE TypeOK'
  BY <1>17, SMTT(30) DEF HaltMarks, Mark, Present, Happens, memory
<1>18. ASSUME NEW r \in Runners, Crash(r)  PROVE TypeOK'
  BY <1>18 DEF Crash, Happens, memory
<1>19. ASSUME NEW r \in Runners, NEW s \in Sessions, Trip(r, s)  PROVE TypeOK'
  BY <1>19 DEF Trip, Happens, memory
<1>20. ASSUME NEW r \in Runners, NEW s \in Sessions, Evict(r, s)  PROVE TypeOK'
  BY <1>20 DEF Evict, Unregister, memory
<1>21. CASE UNCHANGED vars
  BY <1>21 DEF vars, memory
<1>. HIDE DEF TypeOK, Status, Active, Call, Message, EventKind, Jobs
<1>. QED
  BY <1>1, <1>2, <1>3, <1>4, <1>5, <1>6, <1>7, <1>8, <1>9, <1>10, <1>11, <1>12, <1>13, <1>14,
       <1>15, <1>16, <1>17, <1>18, <1>19, <1>20, <1>21 DEF Next, Api, Starting, Working, Halting

\* A step keeps every session in the shard that owns it.
LEMMA ShardStep ==
  ASSUME TypeOK, ShardInv, [Next]_vars  PROVE ShardInv'
<1>. USE SessionControlAssumption DEF ShardInv, TypeOK, Loading, Owns, Jobs, Job
<1>1. ASSUME NEW s \in Sessions, Create(s)  PROVE ShardInv'
  BY <1>1 DEF Create, memory
<1>2. ASSUME NEW s \in Sessions, Stop(s)  PROVE ShardInv'
  BY <1>2 DEF Stop, Happens, Present, memory
<1>3. ASSUME NEW m \in calls, Push(m)  PROVE ShardInv'
  BY <1>3 DEF Push, Happens, memory
<1>4. ASSUME NEW s \in Sessions, Delete(s)  PROVE ShardInv'
  BY <1>4 DEF Delete, Present, memory
<1>5. ASSUME NEW m \in calls, DeleteRow(m)  PROVE ShardInv'
  BY <1>5 DEF DeleteRow, Mark, Present, memory
<1>6. ASSUME NEW r \in Runners, Boot(r)  PROVE ShardInv'
  BY <1>6 DEF Boot, Resumed, Owns, Active, memory
<1>7. ASSUME NEW r \in Runners, Ready(r)  PROVE ShardInv'
  BY <1>7 DEF Ready, Free, memory
<1>8. ASSUME NEW r \in Runners, NEW s \in Sessions, ResumeRow(r, s)  PROVE ShardInv'
  BY <1>8 DEF ResumeRow, Free, Begin, memory
<1>9. ASSUME NEW r \in Runners, NEW j \in busy[r], Loaded(r, j)  PROVE ShardInv'
  <2>1. busy'[r] = {[step |-> "run", s |-> j.s, resumed |-> j.resumed]}
        /\ \A q \in Runners \ {r} : busy'[q] = busy[q]
    BY <1>9, Stepped DEF Loaded
  <2>. QED  BY <1>9, <2>1 DEF Loaded, Register
<1>10. ASSUME NEW r \in Runners, NEW j \in busy[r], MarkRunning(r, j)  PROVE ShardInv'
  BY <1>10 DEF MarkRunning, Mark, Present, Done, memory
<1>11. ASSUME NEW r \in Runners, NEW j \in busy[r], LoadFails(r, j)  PROVE ShardInv'
  <2>1. \/ busy'[r] = {[step |-> "fail", s |-> j.s, resumed |-> j.resumed]}
        \/ busy'[r] = {}
    BY <1>11, Stepped, Ended DEF LoadFails
  <2>2. \A q \in Runners \ {r} : busy'[q] = busy[q]
    BY <1>11, Stepped, Ended DEF LoadFails
  <2>3. reg' = reg /\ resume' = resume
    BY <1>11 DEF LoadFails
  <2>4. Owner[j.s] = r
    BY <1>11 DEF LoadFails
  <2>5. \A i \in busy'[r] : i.s = j.s
    BY <2>1
  <2>6. ASSUME NEW p \in Runners, NEW i \in busy'[p], i.step \in Loading  PROVE Owner[i.s] = p
    <3>1. CASE p = r
      BY <2>4, <2>5, <3>1
    <3>2. CASE p # r
      BY <2>2, <2>6, <3>2
    <3>. QED  BY <3>1, <3>2
  <2>. HIDE DEF Loading, TypeOK, Job, Jobs
  <2>. QED  BY <2>3, <2>6
<1>12. ASSUME NEW r \in Runners, NEW j \in busy[r], MarkFailed(r, j)  PROVE ShardInv'
  BY <1>12 DEF MarkFailed, Mark, Present, Done, memory
<1>13. ASSUME NEW r \in Runners, NEW j \in busy[r], StopDrops(r, j)  PROVE ShardInv'
  <2>1. busy'[r] = {[step |-> "stop", s |-> j.s, resumed |-> j.resumed]}
        /\ \A q \in Runners \ {r} : busy'[q] = busy[q]
    BY <1>13, Stepped DEF StopDrops
  <2>. QED  BY <1>13, <2>1 DEF StopDrops, Unregister
<1>14. ASSUME NEW r \in Runners, NEW j \in busy[r], MarkStopped(r, j)  PROVE ShardInv'
  BY <1>14 DEF MarkStopped, Mark, Present, Happens, Done, memory
<1>15. ASSUME NEW r \in Runners, Pop(r)  PROVE ShardInv'
  <2>1. Head(queue) \in Message /\ reg' = reg /\ resume' = resume
    BY <1>15 DEF Pop
  <2>2. CASE Wanted(r, Head(queue)) /\ Begin(r, "load", Head(queue).s, FALSE)
    <3>1. /\ busy'[r] = {[step |-> "load", s |-> Head(queue).s, resumed |-> FALSE]}
          /\ \A q \in Runners \ {r} : busy'[q] = busy[q]
      BY <1>15, <2>1, <2>2, Begun DEF Pop, Free, Message
    <3>. QED  BY <2>1, <2>2, <3>1 DEF Wanted
  <2>3. CASE Begin(r, "cancel", Head(queue).s, FALSE)
    <3>1. /\ busy'[r] = {[step |-> "cancel", s |-> Head(queue).s, resumed |-> FALSE]}
          /\ \A q \in Runners \ {r} : busy'[q] = busy[q]
      BY <1>15, <2>1, <2>3, Begun DEF Pop, Free, Message
    <3>2. \A i \in busy'[r] : i.step \notin Loading
      BY <3>1
    <3>3. ASSUME NEW p \in Runners, NEW i \in busy'[p], i.step \in Loading  PROVE Owner[i.s] = p
      BY <3>1, <3>2, <3>3
    <3>. HIDE DEF Loading, TypeOK, Job, Jobs
    <3>. QED  BY <2>1, <3>3
  <2>4. CASE UNCHANGED busy
    BY <2>1, <2>4
  <2>. QED  BY <1>15, <2>2, <2>3, <2>4 DEF Pop
<1>16. ASSUME NEW r \in Runners, NEW s \in Sessions, HaltDrops(r, s)  PROVE ShardInv'
  BY <1>16 DEF HaltDrops, Unregister, memory
<1>17. ASSUME NEW r \in Runners, NEW s \in Sessions, HaltMarks(r, s)  PROVE ShardInv'
  BY <1>17 DEF HaltMarks, Mark, Present, Happens, memory
<1>18. ASSUME NEW r \in Runners, Crash(r)  PROVE ShardInv'
  BY <1>18 DEF Crash, Happens, memory
<1>19. ASSUME NEW r \in Runners, NEW s \in Sessions, Trip(r, s)  PROVE ShardInv'
  BY <1>19 DEF Trip, Happens, memory
<1>20. ASSUME NEW r \in Runners, NEW s \in Sessions, Evict(r, s)  PROVE ShardInv'
  BY <1>20 DEF Evict, Unregister, memory
<1>21. CASE UNCHANGED vars
  BY <1>21 DEF vars, memory
<1>. HIDE DEF ShardInv, TypeOK, Loading, Owns, Jobs, Job
<1>. QED
  BY <1>1, <1>2, <1>3, <1>4, <1>5, <1>6, <1>7, <1>8, <1>9, <1>10, <1>11, <1>12, <1>13, <1>14,
       <1>15, <1>16, <1>17, <1>18, <1>19, <1>20, <1>21 DEF Next, Api, Starting, Working, Halting

\* A step keeps halts flagged, and resumes nothing outside start().
LEMMA HaltStep ==
  ASSUME TypeOK, HaltInv, [Next]_vars  PROVE HaltInv'
<1>. USE SessionControlAssumption DEF HaltInv, TypeOK
<1>1. ASSUME NEW s \in Sessions, Create(s)  PROVE HaltInv'
  BY <1>1 DEF Create, memory
<1>2. ASSUME NEW s \in Sessions, Stop(s)  PROVE HaltInv'
  BY <1>2 DEF Stop, Happens, Present, memory
<1>3. ASSUME NEW m \in calls, Push(m)  PROVE HaltInv'
  BY <1>3 DEF Push, Happens, memory
<1>4. ASSUME NEW s \in Sessions, Delete(s)  PROVE HaltInv'
  BY <1>4 DEF Delete, Present, memory
<1>5. ASSUME NEW m \in calls, DeleteRow(m)  PROVE HaltInv'
  BY <1>5 DEF DeleteRow, Mark, Present, memory
<1>6. ASSUME NEW r \in Runners, Boot(r)  PROVE HaltInv'
  BY <1>6 DEF Boot, Resumed, Owns, Active, memory
<1>7. ASSUME NEW r \in Runners, Ready(r)  PROVE HaltInv'
  BY <1>7 DEF Ready, Free, memory
<1>8. ASSUME NEW r \in Runners, NEW s \in Sessions, ResumeRow(r, s)  PROVE HaltInv'
  BY <1>8 DEF ResumeRow, Free, Begin, memory
<1>9. ASSUME NEW r \in Runners, NEW j \in busy[r], Loaded(r, j)  PROVE HaltInv'
  BY <1>9 DEF Loaded, Register, Step, memory
<1>10. ASSUME NEW r \in Runners, NEW j \in busy[r], MarkRunning(r, j)  PROVE HaltInv'
  BY <1>10 DEF MarkRunning, Mark, Present, Done, memory
<1>11. ASSUME NEW r \in Runners, NEW j \in busy[r], LoadFails(r, j)  PROVE HaltInv'
  BY <1>11 DEF LoadFails, Happens, Step, Done, memory
<1>12. ASSUME NEW r \in Runners, NEW j \in busy[r], MarkFailed(r, j)  PROVE HaltInv'
  BY <1>12 DEF MarkFailed, Mark, Present, Done, memory
<1>13. ASSUME NEW r \in Runners, NEW j \in busy[r], StopDrops(r, j)  PROVE HaltInv'
  BY <1>13 DEF StopDrops, Unregister, Step, memory
<1>14. ASSUME NEW r \in Runners, NEW j \in busy[r], MarkStopped(r, j)  PROVE HaltInv'
  BY <1>14 DEF MarkStopped, Mark, Present, Happens, Done, memory
<1>15. ASSUME NEW r \in Runners, Pop(r)  PROVE HaltInv'
  BY <1>15 DEF Pop, Free, Begin, Wanted, Present, Owns, memory
<1>16. ASSUME NEW r \in Runners, NEW s \in Sessions, HaltDrops(r, s)  PROVE HaltInv'
  BY <1>16 DEF HaltDrops, Unregister, memory
<1>17. ASSUME NEW r \in Runners, NEW s \in Sessions, HaltMarks(r, s)  PROVE HaltInv'
  BY <1>17 DEF HaltMarks, Mark, Present, Happens, memory
<1>18. ASSUME NEW r \in Runners, Crash(r)  PROVE HaltInv'
  BY <1>18 DEF Crash, Happens, memory
<1>19. ASSUME NEW r \in Runners, NEW s \in Sessions, Trip(r, s)  PROVE HaltInv'
  BY <1>19 DEF Trip, Happens, memory
<1>20. ASSUME NEW r \in Runners, NEW s \in Sessions, Evict(r, s)  PROVE HaltInv'
  BY <1>20 DEF Evict, Unregister, memory
<1>21. CASE UNCHANGED vars
  BY <1>21 DEF vars, memory
<1>. HIDE DEF HaltInv, TypeOK
<1>. QED
  BY <1>1, <1>2, <1>3, <1>4, <1>5, <1>6, <1>7, <1>8, <1>9, <1>10, <1>11, <1>12, <1>13, <1>14,
       <1>15, <1>16, <1>17, <1>18, <1>19, <1>20, <1>21 DEF Next, Api, Starting, Working, Halting

\* A step keeps the jobs in accord with rows and registry.
LEMMA JobStep ==
  ASSUME IInv, [Next]_vars  PROVE JobInv'
<1>. USE SessionControlAssumption DEF JobInv, JobSound, WriteLost
<1>. SUFFICES ASSUME NEW q \in Runners, NEW i \in busy'[q]  PROVE JobSound(q, i)'
  BY DEF JobInv
<1>0. TypeOK /\ ShardInv /\ HaltInv /\ JobInv /\ RunInv /\ Jobs(busy)
  BY DEF IInv, TypeOK, Jobs
<1>1. ASSUME NEW s \in Sessions, Create(s)  PROVE JobSound(q, i)'
  BY <1>0, <1>1 DEF Create, memory, TypeOK
<1>2. ASSUME NEW s \in Sessions, Stop(s)  PROVE JobSound(q, i)'
  BY <1>0, <1>2 DEF Stop, Happens, Present, memory, TypeOK
<1>3. ASSUME NEW m \in calls, Push(m)  PROVE JobSound(q, i)'
  <2>1. WriteLost => WriteLost'
    BY <1>0, <1>3, Counted DEF Push, TypeOK, EventKind
  <2>2. UNCHANGED <<life, resume, busy, reg, row, halted>>
    BY <1>3 DEF Push, memory
  <2>. QED  BY <1>0, <2>1, <2>2
<1>4. ASSUME NEW s \in Sessions, Delete(s)  PROVE JobSound(q, i)'
  BY <1>0, <1>4 DEF Delete, Present, memory, TypeOK
<1>5. ASSUME NEW m \in calls, DeleteRow(m)  PROVE JobSound(q, i)'
  BY <1>0, <1>5 DEF DeleteRow, Mark, Present, memory, TypeOK
<1>6. ASSUME NEW r \in Runners, Boot(r)  PROVE JobSound(q, i)'
  BY <1>0, <1>6 DEF Boot, Resumed, Owns, Active, memory, TypeOK
<1>7. ASSUME NEW r \in Runners, Ready(r)  PROVE JobSound(q, i)'
  BY <1>0, <1>7 DEF Ready, Free, memory, TypeOK
<1>8. ASSUME NEW r \in Runners, NEW s \in Sessions, ResumeRow(r, s)  PROVE JobSound(q, i)'
  BY <1>0, <1>8 DEF ResumeRow, Free, Begin, memory, TypeOK
<1>9. ASSUME NEW r \in Runners, NEW j \in busy[r], Loaded(r, j)  PROVE JobSound(q, i)'
  <2>0. Step(r, j, "run") /\ Register(r, j.s) /\ reg \in [Runners -> SUBSET Sessions]
    BY <1>0, <1>9 DEF Loaded, TypeOK
  <2>1. /\ busy'[r] = {[step |-> "run", s |-> j.s, resumed |-> j.resumed]}
        /\ \A p \in Runners \ {r} : busy'[p] = busy[p]
    BY <1>0, <2>0, Stepped
  <2>2. j.s \in reg'[r] /\ \A p \in Runners : reg[p] \subseteq reg'[p]
    BY <2>0 DEF Register
  <2>3. row' = row /\ halted' = halted /\ count' = count
    BY <1>9 DEF Loaded
  <2>. QED  BY <1>0, <2>1, <2>2, <2>3
<1>10. ASSUME NEW r \in Runners, NEW j \in busy[r], MarkRunning(r, j)  PROVE JobSound(q, i)'
  <2>1. busy'[r] = {} /\ \A p \in Runners \ {r} : busy'[p] = busy[p]
    BY <1>0, <1>10, Ended DEF MarkRunning
  <2>2. q # r /\ i \in busy[q] /\ i.s \in Sessions /\ j.s \in Sessions
    BY <1>0, <2>1 DEF Jobs, Job
  <2>3. Owner[j.s] = r
    BY <1>0, <1>10, <2>2 DEF MarkRunning, ShardInv, Loading, Owns
  <2>4. i.step = "load" => i.s # j.s
    BY <1>0, <2>2, <2>3 DEF ShardInv, Loading, Owns
  <2>5. /\ i.s # j.s => row'[i.s] = row[i.s]
        /\ row[i.s] = "deleted" => row'[i.s] = "deleted"
    <3>1. Mark(j.s, "running") /\ row \in [Sessions -> Status] /\ "running" \in Status
      BY <1>0, <1>10 DEF MarkRunning, TypeOK, Status, Active
    <3>. QED  BY <2>2, <3>1, Marked DEF Present
  <2>6. reg' = reg /\ halted' = halted /\ count' = count
    BY <1>10 DEF MarkRunning
  <2>. QED  BY <1>0, <2>2, <2>4, <2>5, <2>6
<1>11. ASSUME NEW r \in Runners, NEW j \in busy[r], LoadFails(r, j)  PROVE JobSound(q, i)'
  <2>1. \/ busy'[r] = {[step |-> "fail", s |-> j.s, resumed |-> j.resumed]}
        \/ busy'[r] = {}
    BY <1>0, <1>11, Stepped, Ended DEF LoadFails
  <2>2. \A p \in Runners \ {r} : busy'[p] = busy[p]
    BY <1>0, <1>11, Stepped, Ended DEF LoadFails
  <2>3. WriteLost => WriteLost'
    BY <1>0, <1>11, Counted DEF LoadFails, TypeOK, EventKind
  <2>4. reg' = reg /\ halted' = halted /\ row' = row
    BY <1>11 DEF LoadFails
  <2>. QED  BY <1>0, <2>1, <2>2, <2>3, <2>4
<1>12. ASSUME NEW r \in Runners, NEW j \in busy[r], MarkFailed(r, j)  PROVE JobSound(q, i)'
  <2>1. busy'[r] = {} /\ \A p \in Runners \ {r} : busy'[p] = busy[p]
    BY <1>0, <1>12, Ended DEF MarkFailed
  <2>2. i \in busy[q] /\ i.s \in Sessions /\ j.s \in Sessions
    BY <1>0, <2>1 DEF Jobs, Job
  <2>3. /\ row[i.s] # "running" => row'[i.s] # "running"
        /\ row[i.s] = "deleted" => row'[i.s] = "deleted"
    BY <1>0, <1>12, <2>2, Marked DEF MarkFailed, Present, TypeOK, Status, Active
  <2>4. reg' = reg /\ halted' = halted /\ count' = count
    BY <1>12 DEF MarkFailed
  <2>. QED  BY <1>0, <2>2, <2>3, <2>4
<1>13. ASSUME NEW r \in Runners, NEW j \in busy[r], StopDrops(r, j)  PROVE JobSound(q, i)'
  <2>1. /\ busy'[r] = {[step |-> "stop", s |-> j.s, resumed |-> j.resumed]}
        /\ \A p \in Runners \ {r} : busy'[p] = busy[p]
    BY <1>0, <1>13, Stepped DEF StopDrops
  <2>2. /\ \A p \in Runners \ {r} : reg'[p] = reg[p]
        /\ row' = row /\ halted' = halted /\ count' = count
    BY <1>0, <1>13 DEF StopDrops, Unregister, TypeOK
  <2>. QED  BY <1>0, <2>1, <2>2
<1>14. ASSUME NEW r \in Runners, NEW j \in busy[r], MarkStopped(r, j)  PROVE JobSound(q, i)'
  <2>1. busy'[r] = {} /\ \A p \in Runners \ {r} : busy'[p] = busy[p]
    BY <1>0, <1>14, Ended DEF MarkStopped
  <2>2. i \in busy[q] /\ i.s \in Sessions /\ j.s \in Sessions
    BY <1>0, <2>1 DEF Jobs, Job
  <2>3. /\ row[i.s] # "running" => row'[i.s] # "running"
        /\ row[i.s] = "deleted" => row'[i.s] = "deleted"
    BY <1>0, <1>14, <2>2, Marked DEF MarkStopped, Present, TypeOK, Status, Active
  <2>4. WriteLost => WriteLost'
    BY <1>0, <1>14, Counted DEF MarkStopped, TypeOK, EventKind
  <2>5. reg' = reg /\ halted' = halted
    BY <1>14 DEF MarkStopped
  <2>. QED  BY <1>0, <2>2, <2>3, <2>4, <2>5
<1>15. ASSUME NEW r \in Runners, Pop(r)  PROVE JobSound(q, i)'
  <2>1. Head(queue) \in Message
    BY <1>0, <1>15 DEF Pop, TypeOK
  <2>2. life[r] = "up" /\ busy[r] = {} /\ resume[r] = {}
    BY <1>0, <1>15 DEF Pop, Free, HaltInv
  <2>3. reg' = reg /\ row' = row /\ halted' = halted /\ count' = count
    BY <1>15 DEF Pop
  <2>4. CASE Wanted(r, Head(queue)) /\ Begin(r, "load", Head(queue).s, FALSE)
    <3>. DEFINE t == Head(queue).s
    <3>1. t \in Sessions /\ Owner[t] = r /\ t \notin reg[r]
      BY <2>1, <2>4 DEF Message, Wanted, Owns
    <3>2. row[t] = "running" => t \in halted \/ WriteLost
      BY <1>0, <2>2, <3>1 DEF RunInv, Held
    <3>3. /\ busy'[r] = {[step |-> "load", s |-> t, resumed |-> FALSE]}
          /\ \A p \in Runners \ {r} : busy'[p] = busy[p]
      BY <1>0, <2>2, <2>4, <3>1, Begun
    <3>. QED  BY <1>0, <2>3, <3>2, <3>3
  <2>5. CASE Begin(r, "cancel", Head(queue).s, FALSE)
    <3>1. /\ busy'[r] = {[step |-> "cancel", s |-> Head(queue).s, resumed |-> FALSE]}
          /\ \A p \in Runners \ {r} : busy'[p] = busy[p]
      BY <1>0, <2>1, <2>2, <2>5, Begun DEF Message
    <3>. QED  BY <1>0, <2>3, <3>1
  <2>6. CASE UNCHANGED busy
    BY <1>0, <2>3, <2>6
  <2>. QED  BY <1>15, <2>4, <2>5, <2>6 DEF Pop
<1>16. ASSUME NEW r \in Runners, NEW s \in Sessions, HaltDrops(r, s)  PROVE JobSound(q, i)'
  <2>1. /\ s \in halted /\ \A p \in Runners : reg[p] \ {s} \subseteq reg'[p]
        /\ busy' = busy /\ row' = row /\ halted' = halted /\ count' = count
    BY <1>0, <1>16 DEF HaltDrops, Unregister, HaltInv, TypeOK
  <2>. QED  BY <1>0, <2>1
<1>17. ASSUME NEW r \in Runners, NEW s \in Sessions, HaltMarks(r, s)  PROVE JobSound(q, i)'
  <2>1. busy' = busy /\ reg' = reg /\ halted' = halted
    BY <1>17 DEF HaltMarks
  <2>2. i \in busy[q] /\ i.s \in Sessions
    BY <1>0, <2>1 DEF Jobs, Job
  <2>3. /\ row[i.s] # "running" => row'[i.s] # "running"
        /\ row[i.s] = "deleted" => row'[i.s] = "deleted"
    BY <1>0, <1>17, <2>2, Marked DEF HaltMarks, Present, TypeOK, Status, Active
  <2>4. WriteLost => WriteLost'
    BY <1>0, <1>17, Counted DEF HaltMarks, TypeOK, EventKind
  <2>. QED  BY <1>0, <2>1, <2>2, <2>3, <2>4
<1>18. ASSUME NEW r \in Runners, Crash(r)  PROVE JobSound(q, i)'
  BY <1>0, <1>18 DEF Crash, Happens, memory, TypeOK
<1>19. ASSUME NEW r \in Runners, NEW s \in Sessions, Trip(r, s)  PROVE JobSound(q, i)'
  BY <1>0, <1>19 DEF Trip, Happens, memory, TypeOK
<1>20. ASSUME NEW r \in Runners, NEW s \in Sessions, Evict(r, s)  PROVE JobSound(q, i)'
  BY <1>0, <1>20 DEF Evict, Unregister, memory, TypeOK
<1>21. CASE UNCHANGED vars
  BY <1>0, <1>21 DEF vars, memory, TypeOK
<1>. HIDE DEF JobInv, JobSound, WriteLost
<1>. QED
  BY <1>1, <1>2, <1>3, <1>4, <1>5, <1>6, <1>7, <1>8, <1>9, <1>10, <1>11, <1>12, <1>13, <1>14,
       <1>15, <1>16, <1>17, <1>18, <1>19, <1>20, <1>21 DEF Next, Api, Starting, Working, Halting

\* A step leaves no running row without a runner.
LEMMA RunStep ==
  ASSUME IInv, [Next]_vars  PROVE RunInv'
<1>. USE SessionControlAssumption DEF RunInv, Held, WriteLost
<1>. SUFFICES ASSUME NEW x \in Sessions, row'[x] = "running"  PROVE Held(x)'
  BY DEF RunInv
<1>0. TypeOK /\ ShardInv /\ HaltInv /\ JobInv /\ RunInv /\ Jobs(busy)
  BY DEF IInv, TypeOK, Jobs
<1>. DEFINE o == Owner[x]
<1>1. ASSUME NEW s \in Sessions, Create(s)  PROVE Held(x)'
  BY <1>0, <1>1 DEF Create, memory, TypeOK
<1>2. ASSUME NEW s \in Sessions, Stop(s)  PROVE Held(x)'
  BY <1>0, <1>2 DEF Stop, Happens, Present, memory, TypeOK
<1>3. ASSUME NEW m \in calls, Push(m)  PROVE Held(x)'
  <2>1. WriteLost => WriteLost'
    BY <1>0, <1>3, Counted DEF Push, TypeOK, EventKind
  <2>2. UNCHANGED <<life, resume, busy, reg, row, halted>>
    BY <1>3 DEF Push, memory
  <2>. QED  BY <1>0, <2>1, <2>2
<1>4. ASSUME NEW s \in Sessions, Delete(s)  PROVE Held(x)'
  BY <1>0, <1>4 DEF Delete, Present, memory, TypeOK
<1>5. ASSUME NEW m \in calls, DeleteRow(m)  PROVE Held(x)'
  BY <1>0, <1>5 DEF DeleteRow, Mark, Present, memory, TypeOK
<1>6. ASSUME NEW r \in Runners, Boot(r)  PROVE Held(x)'
  BY <1>0, <1>6 DEF Boot, Resumed, Owns, Active, memory, TypeOK
<1>7. ASSUME NEW r \in Runners, Ready(r)  PROVE Held(x)'
  BY <1>0, <1>7 DEF Ready, Free, memory, TypeOK
<1>8. ASSUME NEW r \in Runners, NEW s \in Sessions, ResumeRow(r, s)  PROVE Held(x)'
  <2>1. /\ busy'[r] = {[step |-> "load", s |-> s, resumed |-> TRUE]}
        /\ \A p \in Runners \ {r} : busy'[p] = busy[p]
    BY <1>0, <1>8, Begun DEF ResumeRow, Free
  <2>2. /\ \A p \in Runners : resume[p] \ {s} \subseteq resume'[p]
        /\ \A p \in Runners \ {r} : resume'[p] = resume[p]
        /\ life' = life /\ row' = row /\ reg' = reg /\ halted' = halted /\ count' = count
    BY <1>0, <1>8 DEF ResumeRow, TypeOK
  <2>3. busy[r] = {}
    BY <1>8 DEF ResumeRow, Free
  <2>4. Held(x)
    BY <1>0, <2>2
  <2>5. o \in Runners
    OBVIOUS
  <2>7. CASE o = r
    <3>1. CASE x = s
      <4>. DEFINE k == [step |-> "load", s |-> s, resumed |-> TRUE]
      <4>1. k \in busy'[o] /\ k.s = x /\ Accounts(k)
        BY <2>1, <2>7, <3>1 DEF Accounts
      <4>. QED  BY <4>1
    <3>2. CASE x # s
      BY <2>2, <2>3, <2>4, <2>7, <3>2
    <3>. QED  BY <3>1, <3>2
  <2>8. CASE o # r
    BY <2>1, <2>2, <2>3, <2>4, <2>8 DEF Accounts
  <2>. QED  BY <2>7, <2>8
<1>9. ASSUME NEW r \in Runners, NEW j \in busy[r], Loaded(r, j)  PROVE Held(x)'
  <2>1. /\ busy[r] = {j} /\ \A p \in Runners \ {r} : busy'[p] = busy[p]
    BY <1>0, <1>9, Stepped DEF Loaded, Jobs
  <2>2. /\ j.s \in reg'[r] /\ \A p \in Runners : reg[p] \subseteq reg'[p]
        /\ life' = life /\ resume' = resume /\ row' = row /\ halted' = halted /\ count' = count
    BY <1>0, <1>9 DEF Loaded, Register, TypeOK
  <2>3. Held(x)
    BY <1>0, <2>2
  <2>. QED  BY <2>1, <2>2, <2>3
<1>10. ASSUME NEW r \in Runners, NEW j \in busy[r], MarkRunning(r, j)  PROVE Held(x)'
  <2>1. /\ busy[r] = {j} /\ j.s \in Sessions
        /\ \A p \in Runners \ {r} : busy'[p] = busy[p]
    BY <1>0, <1>10, Ended DEF MarkRunning, Jobs, Job
  <2>2. life' = life /\ resume' = resume /\ reg' = reg /\ halted' = halted /\ count' = count
    BY <1>10 DEF MarkRunning
  <2>3. j.step = "run" /\ Owner[j.s] = r
    BY <1>0, <1>10, <2>1 DEF MarkRunning, ShardInv, Loading, Owns
  <2>4. CASE x = j.s
    <3>1. row[j.s] # "deleted"
      BY <1>0, <1>10, <2>1, <2>4, Marked DEF MarkRunning, Present, TypeOK, Status, Active
    <3>2. j.s \in reg[r] \/ j.s \in halted
      BY <1>0, <2>3, <3>1 DEF JobInv, JobSound
    <3>. QED  BY <2>2, <2>3, <2>4, <3>2
  <2>5. CASE x # j.s
    <3>1. row'[x] = row[x]
      BY <1>0, <1>10, <2>1, <2>5, Marked DEF MarkRunning, TypeOK, Status, Active
    <3>2. Held(x)
      BY <1>0, <3>1
    <3>. QED  BY <2>1, <2>2, <2>5, <3>2
  <2>. QED  BY <2>4, <2>5
<1>11. ASSUME NEW r \in Runners, NEW j \in busy[r], LoadFails(r, j)  PROVE Held(x)'
  <2>1. /\ busy[r] = {j} /\ \A p \in Runners \ {r} : busy'[p] = busy[p]
    BY <1>0, <1>11, Stepped, Ended DEF LoadFails, Jobs
  <2>2. /\ life' = life /\ resume' = resume /\ reg' = reg /\ row' = row /\ halted' = halted
    BY <1>11 DEF LoadFails
  <2>3. Held(x) /\ (WriteLost => WriteLost')
    BY <1>0, <1>11, <2>2, Counted DEF LoadFails, TypeOK, EventKind
  <2>4. CASE j.step = "run"
    <3>1. WriteLost'
      BY <1>0, <1>11, <2>4, Counted DEF LoadFails, TypeOK, EventKind
    <3>. QED  BY <3>1
  <2>5. CASE j.step = "load" /\ j.resumed
    <3>1. busy'[r] = {[step |-> "fail", s |-> j.s, resumed |-> j.resumed]}
      BY <1>0, <1>11, <2>5, Stepped DEF LoadFails
    <3>2. CASE o = r
      <4>. DEFINE k == [step |-> "fail", s |-> j.s, resumed |-> j.resumed]
      <4>1. k \in busy'[o] /\ k.s = j.s /\ Accounts(k)
        BY <3>1, <3>2 DEF Accounts
      <4>2. CASE x = j.s
        BY <4>1, <4>2
      <4>3. CASE x # j.s
        BY <2>1, <2>2, <2>3, <3>2, <4>3
      <4>. QED  BY <4>2, <4>3
    <3>3. CASE o # r
      BY <2>1, <2>2, <2>3, <3>3
    <3>. QED  BY <3>2, <3>3
  <2>6. CASE j.step = "load" /\ ~j.resumed
    <3>1. Accounts(j) => FALSE
      BY <2>6 DEF Accounts
    <3>. QED  BY <2>1, <2>2, <2>3, <3>1
  <2>. QED  BY <1>11, <2>4, <2>5, <2>6 DEF LoadFails
<1>12. ASSUME NEW r \in Runners, NEW j \in busy[r], MarkFailed(r, j)  PROVE Held(x)'
  BY <1>0, <1>12 DEF MarkFailed, Mark, Present, Done, memory, TypeOK
<1>13. ASSUME NEW r \in Runners, NEW j \in busy[r], StopDrops(r, j)  PROVE Held(x)'
  <2>1. /\ busy[r] = {j} /\ j.step = "cancel"
        /\ busy'[r] = {[step |-> "stop", s |-> j.s, resumed |-> j.resumed]}
        /\ \A p \in Runners \ {r} : busy'[p] = busy[p]
    BY <1>0, <1>13, Stepped DEF StopDrops, Jobs
  <2>2. /\ \A p \in Runners : reg[p] \ {j.s} \subseteq reg'[p]
        /\ \A p \in Runners \ {r} : reg'[p] = reg[p]
        /\ life' = life /\ resume' = resume /\ row' = row /\ halted' = halted /\ count' = count
    BY <1>0, <1>13 DEF StopDrops, Unregister, TypeOK
  <2>3. Held(x)
    BY <1>0, <2>2
  <2>7. CASE o = r
    <3>. DEFINE k == [step |-> "stop", s |-> j.s, resumed |-> j.resumed]
    <3>1. k \in busy'[o] /\ k.s = j.s /\ Accounts(k)
      BY <2>1, <2>7 DEF Accounts
    <3>2. CASE x = j.s
      BY <3>1, <3>2
    <3>3. CASE x # j.s
      BY <2>1, <2>2, <2>3, <2>7, <3>3
    <3>. QED  BY <3>1, <3>2, <3>3
  <2>8. CASE o # r
    BY <2>1, <2>2, <2>3, <2>8 DEF Accounts
  <2>. QED  BY <2>7, <2>8
<1>14. ASSUME NEW r \in Runners, NEW j \in busy[r], MarkStopped(r, j)  PROVE Held(x)'
  <2>1. /\ busy[r] = {j} /\ j.s \in Sessions
        /\ \A p \in Runners \ {r} : busy'[p] = busy[p]
    BY <1>0, <1>14, Ended DEF MarkStopped, Jobs, Job
  <2>2. life' = life /\ resume' = resume /\ reg' = reg /\ halted' = halted
    BY <1>14 DEF MarkStopped
  <2>3. WriteLost => WriteLost'
    BY <1>0, <1>14, Counted DEF MarkStopped, TypeOK, EventKind
  <2>4. CASE Mark(j.s, "stopped")
    <3>1. x # j.s /\ row'[x] = row[x]
      <4>1. row \in [Sessions -> Status] /\ "stopped" \in Status
        BY <1>0 DEF TypeOK, Status
      <4>. QED  BY <2>1, <2>4, <4>1, Marked DEF Present
    <3>2. Held(x)
      BY <1>0, <3>1
    <3>. QED  BY <2>1, <2>2, <2>3, <3>1, <3>2
  <2>5. CASE Happens("db")
    <3>1. WriteLost'
      BY <1>0, <2>5, Counted DEF TypeOK, EventKind
    <3>. QED  BY <3>1
  <2>. QED  BY <1>14, <2>4, <2>5 DEF MarkStopped
<1>15. ASSUME NEW r \in Runners, Pop(r)  PROVE Held(x)'
  <2>1. busy[r] = {} /\ \A p \in Runners \ {r} : busy'[p] = busy[p]
    BY <1>0, <1>15 DEF Pop, Free, Begin, Wanted, TypeOK
  <2>2. /\ life' = life /\ resume' = resume /\ reg' = reg /\ row' = row
        /\ halted' = halted /\ count' = count
    BY <1>15 DEF Pop
  <2>3. Held(x)
    BY <1>0, <2>2
  <2>. QED  BY <2>1, <2>2, <2>3
<1>16. ASSUME NEW r \in Runners, NEW s \in Sessions, HaltDrops(r, s)  PROVE Held(x)'
  <2>1. /\ s \in halted /\ \A p \in Runners : reg[p] \ {s} \subseteq reg'[p]
        /\ life' = life /\ resume' = resume
        /\ busy' = busy /\ row' = row /\ halted' = halted /\ count' = count
    BY <1>0, <1>16 DEF HaltDrops, Unregister, HaltInv, TypeOK
  <2>2. Held(x)
    BY <1>0, <2>1
  <2>. QED  BY <2>1, <2>2
<1>17. ASSUME NEW r \in Runners, NEW s \in Sessions, HaltMarks(r, s)  PROVE Held(x)'
  BY <1>0, <1>17 DEF HaltMarks, Mark, Present, Happens, memory, TypeOK
<1>18. ASSUME NEW r \in Runners, Crash(r)  PROVE Held(x)'
  BY <1>0, <1>18 DEF Crash, Happens, memory, TypeOK
<1>19. ASSUME NEW r \in Runners, NEW s \in Sessions, Trip(r, s)  PROVE Held(x)'
  BY <1>0, <1>19 DEF Trip, Happens, memory, TypeOK
<1>20. ASSUME NEW r \in Runners, NEW s \in Sessions, Evict(r, s)  PROVE Held(x)'
  BY <1>0, <1>20 DEF Evict, Unregister, memory, TypeOK
<1>21. CASE UNCHANGED vars
  BY <1>0, <1>21 DEF vars, memory, TypeOK
<1>. HIDE DEF RunInv, Held, WriteLost
<1>. QED
  BY <1>1, <1>2, <1>3, <1>4, <1>5, <1>6, <1>7, <1>8, <1>9, <1>10, <1>11, <1>12, <1>13, <1>14,
       <1>15, <1>16, <1>17, <1>18, <1>19, <1>20, <1>21 DEF Next, Api, Starting, Working, Halting

-----------------------------------------------------------------------------
LEMMA InitInv == Init => IInv
BY DEF Init, IInv, TypeOK, Status, Active, ShardInv, HaltInv, JobInv, RunInv, EventKind

\* The inductive invariant holds throughout.
THEOREM Invariance == Spec => []IInv
<1>1. IInv /\ [Next]_vars => IInv'
  BY TypeStep, ShardStep, HaltStep, JobStep, RunStep DEF IInv
<1>. QED  BY InitInv, <1>1, PTL DEF Spec

\* The state is well typed, and a runner is in the middle of one job at most.
THEOREM TypeCorrect == Spec => []TypeOK
<1>1. IInv => TypeOK
  BY DEF IInv
<1>. QED  BY <1>1, Invariance, PTL

\* No two processes trade a session: _owns guards the control messages as the shard filter of
\* load_active_paper_sessions guards the resumed rows.
THEOREM NeverTwoTraders == Spec => []OneTrader
<1>1. IInv => OneTrader
  BY DEF IInv, TypeOK, ShardInv, Owns, OneTrader
<1>. QED  BY <1>1, Invariance, PTL

\* A runner that is up and between control messages trades the running sessions of its shard.
THEOREM RunningRowsTraded == Spec => []RunningIsTraded
<1>1. IInv => RunningIsTraded
  BY SessionControlAssumption
     DEF IInv, HaltInv, RunInv, Held, WriteLost, Free, RunningIsTraded
<1>. QED  BY <1>1, Invariance, PTL

=============================================================================
