-------------------------- MODULE Scheduler_proofs --------------------------
(***************************************************************************)
(* Theorems of Scheduler, for any savers and askers, any sizes and any     *)
(* number of faults.                                                       *)
(***************************************************************************)
EXTENDS Scheduler, TLAPS

-----------------------------------------------------------------------------
(* Lists of calls.                                                          *)

LEMMA Lists ==
    /\ reconcileManager \in Seq(Stage) /\ Reconciling \in Seq(Stage) /\ Testing \in Seq(Stage)
    /\ TestOne \in Seq(Stage) /\ Refilling \in Seq(Stage) /\ GenerateAccounts \in Seq(Stage)
<1>1. /\ reconcileManager \in Seq(Stage) /\ Refilling \in Seq(Stage)
      /\ GenerateAccounts \in Seq(Stage)
      /\ <<"mend">> \in Seq(Stage) /\ <<"heal">> \in Seq(Stage) /\ <<"finish">> \in Seq(Stage)
  BY DEF reconcileManager, Refilling, GenerateAccounts, Stage
<1> QED
  BY <1>1 DEF Reconciling, Testing, TestOne

LEMMA ErrorList ==
    ASSUME NEW p \in Process
    PROVE  AfterError(p) \in Seq(Stage)
<1>1. <<"finish">> \in Seq(Stage) /\ <<>> \in Seq(Stage)
  BY DEF Stage
<1>2. CASE p \in working
  BY <1>1, <1>2 DEF AfterError
<1>3. CASE p \notin working /\ asked[p] = "test"
  BY <1>3, Lists DEF AfterError
<1>4. CASE p \notin working /\ asked[p] # "test"
  BY <1>1, <1>4 DEF AfterError
<1> QED
  BY <1>2, <1>3, <1>4

LEMMA ContinueType ==
    ASSUME TypeOK, NEW p \in Process, todo[p] # <<>>, NEW a \in Seq(Stage), Continue(p, a)
    PROVE  todo' \in [Process -> Seq(Stage)]
<1>1. Tail(todo[p]) \in Seq(Stage)
  BY DEF TypeOK
<1>2. a \o Tail(todo[p]) \in Seq(Stage)
  BY <1>1
<1> QED
  BY <1>2 DEF Continue, TypeOK

LEMMA Numbers ==
    ASSUME TypeOK
    PROVE  healNeed \in 0 .. MaxBatch /\ AtMost(MaxBatch, requiredAccountRegistrations) \in 0 .. MaxBatch
<1>1. (Slots + 1) \div 2 \in Nat
  BY SchedulerAssumption
<1>2. targetWarpPoolSize \in Nat
  BY <1>1, SchedulerAssumption DEF targetWarpPoolSize, AtLeast
<1>3. requiredAccountRegistrations \in Nat /\ missing \in Nat
  BY <1>2, SchedulerAssumption DEF TypeOK, requiredAccountRegistrations, missing, AtLeast
<1> QED
  BY <1>3, SchedulerAssumption DEF healNeed, AtMost, AtLeast

-----------------------------------------------------------------------------
(* Types.                                                                   *)

LEMMA InitType == Init => TypeOK
<1> SUFFICES ASSUME Init
             PROVE  TypeOK
  OBVIOUS
<1>1. <<>> \in Seq(Stage) /\ <<>> \in Seq({"dedup", "reconcile"})
  OBVIOUS
<1>2. 0 \in 0 .. MaxBatch
  BY SchedulerAssumption
<1> QED
  BY <1>1, <1>2 DEF Init, TypeOK

LEMMA StartType ==
    ASSUME TypeOK, NEW p \in Process, NEW a \in Seq(Stage), Start(p, a)
    PROVE  /\ todo' \in [Process -> Seq(Stage)]
           /\ running' \in BOOLEAN /\ working' \subseteq Process
BY DEF Start, TypeOK

LEMMA CallType ==
    ASSUME TypeOK, NEW p \in Process, Call(p)
    PROVE  TypeOK'
<1> USE DEF work, settings, batches, world
<1>1. CASE Reconcile(p)
  <2>1. CASE running
    <3>1. todo' = [todo EXCEPT ![p] = <<>>] /\ UNCHANGED work
      BY <1>1, <2>1 DEF Reconcile
    <3>2. <<>> \in Seq(Stage)
      OBVIOUS
    <3> QED
      BY <1>1, <3>1, <3>2 DEF Reconcile, TypeOK
  <2>2. CASE ~ running
    BY <1>1, <2>2, StartType, Lists DEF Reconcile, TypeOK
  <2> QED
    BY <2>1, <2>2
<1>2. ASSUME todo[p] # <<>>, NEW a \in Seq(Stage), Continue(p, a)
      PROVE  todo' \in [Process -> Seq(Stage)]
  BY <1>2, ContinueType
<1> <<>> \in Seq(Stage)
  OBVIOUS
<1>3. CASE ReadSettings(p) \/ ApplySettings(p)
  <2>1. todo[p] # <<>> /\ Continue(p, <<>>)
    BY <1>3 DEF ReadSettings, ApplySettings, At
  <2>2. todo' \in [Process -> Seq(Stage)]
    BY <1>2, <2>1
  <2>3. CASE ReadSettings(p)
    BY <2>2, <2>3 DEF ReadSettings, TypeOK
  <2>4. CASE ApplySettings(p)
    BY <2>2, <2>4 DEF ApplySettings, TypeOK
  <2> QED
    BY <1>3, <2>3, <2>4
<1>4. CASE Plan(p)
  <2>1. PICK a \in Seq(Stage) : Continue(p, a)
    <3>1. <<"heal">> \in Seq(Stage) /\ <<"mend">> \in Seq(Stage) /\ <<>> \in Seq(Stage)
      BY DEF Stage
    <3>2. GenerateAccounts \o <<"heal">> \in Seq(Stage) /\ <<>> \o <<"heal">> \in Seq(Stage)
      BY <3>1, Lists
    <3> QED
      BY <1>4, <3>1, <3>2 DEF Plan
  <2>2. todo' \in [Process -> Seq(Stage)]
    BY <1>2, <1>4, <2>1 DEF Plan, At
  <2>3. owed' \in [Process -> 0 .. MaxBatch]
    BY <1>4, Numbers DEF Plan, TypeOK
  <2> QED
    BY <1>4, <2>2, <2>3 DEF Plan, TypeOK
<1>5. CASE Heal(p)
  <2>1. PICK a \in Seq(Stage) : Continue(p, a)
    <3>1. <<"mend">> \in Seq(Stage)
      BY DEF Stage
    <3>2. GenerateAccounts \o reconcileManager \o <<"mend">> \in Seq(Stage)
      BY <3>1, Lists
    <3> QED
      BY <1>5, <3>1, <3>2 DEF Heal
  <2>2. todo' \in [Process -> Seq(Stage)]
    BY <1>2, <1>5, <2>1 DEF Heal, At
  <2>3. owed' \in [Process -> 0 .. MaxBatch]
    BY <1>5, Numbers DEF Heal, TypeOK
  <2> QED
    BY <1>5, <2>2, <2>3 DEF Heal, TypeOK
<1>6. CASE Mend(p)
  <2>1. PICK a \in Seq(Stage) : Continue(p, a)
    BY <1>6, Lists DEF Mend
  <2>2. todo' \in [Process -> Seq(Stage)]
    BY <1>2, <1>6, <2>1 DEF Mend, At
  <2> QED
    BY <1>6, <2>2 DEF Mend, TypeOK
<1>7. CASE EnterGate(p)
  <2>1. Continue(p, <<>>) /\ todo[p] # <<>>
    BY <1>7 DEF EnterGate, At
  <2>2. todo' \in [Process -> Seq(Stage)]
    BY <1>2, <2>1
  <2> QED
    BY <1>7, <2>2 DEF EnterGate, TypeOK
<1>8. CASE Register(p)
  <2>1. owed' \in [Process -> 0 .. MaxBatch] /\ fresh' \in [Process -> Nat]
    BY <1>8, SchedulerAssumption DEF Register, TypeOK
  <2> QED
    BY <1>8, <2>1 DEF Register, TypeOK
<1>9. CASE BatchOver(p)
  <2>1. PICK a \in Seq(Stage) : Continue(p, a)
    <3>1. <<"leave">> \in Seq(Stage) /\ <<"test", "mend">> \in Seq(Stage) /\ <<>> \in Seq(Stage)
      BY DEF Stage
    <3>2. (reconcileManager \o <<"test", "mend">>) \o <<"leave">> \in Seq(Stage)
          /\ <<>> \o <<"leave">> \in Seq(Stage)
      BY <3>1, Lists
    <3> QED
      BY <1>9, <3>2 DEF BatchOver
  <2>2. todo' \in [Process -> Seq(Stage)]
    BY <1>2, <1>9, <2>1 DEF BatchOver, At
  <2> QED
    BY <1>9, <2>2 DEF BatchOver, TypeOK
<1>10. CASE TestNew(p)
  <2>1. Continue(p, <<>>) /\ todo[p] # <<>>
    BY <1>10 DEF TestNew, At
  <2>2. todo' \in [Process -> Seq(Stage)]
    BY <1>2, <2>1
  <2>3. pool' \in Nat /\ fresh' \in [Process -> Nat]
    BY <1>10 DEF TestNew, TypeOK
  <2> QED
    BY <1>10, <2>2, <2>3 DEF TestNew, TypeOK
<1>11. CASE LeaveGate(p)
  <2>1. Tail(todo[p]) \in Seq(Stage)
    BY <1>11 DEF LeaveGate, At, TypeOK
  <2>2. todo' \in [Process -> Seq(Stage)]
    BY <1>11, <2>1, ErrorList DEF LeaveGate, TypeOK
  <2>3. backoff' \in BOOLEAN
    BY <1>11, Zenon DEF LeaveGate
  <2> QED
    BY <1>11, <2>2, <2>3 DEF LeaveGate, TypeOK
<1>12. CASE Finish(p)
  <2>1. Continue(p, <<>>) /\ todo[p] # <<>>
    BY <1>12 DEF Finish, At
  <2>2. todo' \in [Process -> Seq(Stage)]
    BY <1>2, <2>1
  <2> QED
    BY <1>12, <2>2 DEF Finish, TypeOK
<1> QED
  BY <1>1, <1>3, <1>4, <1>5, <1>6, <1>7, <1>8, <1>9, <1>10, <1>11, <1>12 DEF Call

LEMMA RequestType ==
    ASSUME TypeOK, NEW p \in Process,
           MendFails(p) \/ RegisterFails(p) \/ Save(p) \/ AskTestOne(p) \/ AccountsGenerate(p) \/ GiveUp(p)
    PROVE  TypeOK'
<1> USE DEF work, settings, batches, world
<1> <<>> \in Seq(Stage) /\ <<"try">> \in Seq(Stage)
  BY DEF Stage
<1>1. CASE MendFails(p)
  BY <1>1, ErrorList DEF MendFails, TypeOK
<1>2. CASE RegisterFails(p)
  BY <1>2, SchedulerAssumption DEF RegisterFails, TypeOK
<1>3. CASE Save(p)
  BY <1>3 DEF Save, TypeOK
<1>4. CASE AskTestOne(p)
  BY <1>4, Lists DEF AskTestOne, TypeOK
<1>5. CASE AccountsGenerate(p)
  <2>1. 1 .. MaxBatch \subseteq 0 .. MaxBatch
    BY SchedulerAssumption
  <2>2. owed' \in [Process -> 0 .. MaxBatch]
    BY <1>5, <2>1 DEF AccountsGenerate, TypeOK
  <2> QED
    BY <1>5, <2>2, Lists DEF AccountsGenerate, TypeOK
<1>6. CASE GiveUp(p)
  <2>1. owed' \in [Process -> 0 .. MaxBatch]
    BY <1>6, SchedulerAssumption DEF GiveUp, TypeOK
  <2> QED
    BY <1>6, <2>1 DEF GiveUp, TypeOK
<1> QED
  BY <1>1, <1>2, <1>3, <1>4, <1>5, <1>6

LEMMA LoopType ==
    ASSUME TypeOK, Trigger \/ TakeJob \/ TimerFires \/ RefillTick
    PROVE  TypeOK'
<1> USE DEF work, settings, batches, world
<1> "loop" \in Process /\ "refill" \in Process
  BY DEF Process
<1>1. CASE Trigger
  BY <1>1 DEF Trigger, TypeOK
<1>2. CASE TakeJob
  <2>1. queue' \in Seq({"dedup", "reconcile"})
    BY <1>2 DEF TakeJob, TypeOK
  <2>2. CASE running
    BY <1>2, <2>1, <2>2 DEF TakeJob, TypeOK
  <2>3. CASE ~ running
    <3>1. PICK a \in Seq(Stage) : Start("loop", a)
      BY <1>2, <2>3, Lists DEF TakeJob
    <3> QED
      BY <1>2, <2>1, <3>1, StartType DEF TakeJob, TypeOK
  <2> QED
    BY <2>2, <2>3
<1>3. CASE TimerFires
  BY <1>3, StartType, Lists DEF TimerFires, TypeOK
<1>4. CASE RefillTick
  BY <1>4, StartType, Lists DEF RefillTick, TypeOK
<1> QED
  BY <1>1, <1>2, <1>3, <1>4

LEMMA WorldType ==
    ASSUME TypeOK, BackoffEnds \/ LoseAccount \/ GoOffline \/ ComeBack
    PROVE  TypeOK'
<1> USE DEF work, settings, batches, world, TypeOK
<1>1. CASE BackoffEnds
  BY <1>1 DEF BackoffEnds
<1>2. CASE LoseAccount
  BY <1>2 DEF LoseAccount
<1>3. CASE GoOffline
  <2>1. online' = FALSE /\ faults' = faults + 1
    BY <1>3, Zenon DEF GoOffline
  <2>2. UNCHANGED <<todo, asked, work, queue, settings, batches>>
    BY <1>3, Zenon DEF GoOffline
  <2>3. faults' \in Nat
    BY <2>1
  <2>4. online' \in BOOLEAN
    BY <2>1
  <2> QED
    BY <2>2, <2>3, <2>4
<1>4. CASE ComeBack
  BY <1>4 DEF ComeBack
<1> QED
  BY <1>1, <1>2, <1>3, <1>4

LEMMA StepType == TypeOK /\ [Next]_vars => TypeOK'
<1>1. TypeOK /\ UNCHANGED vars => TypeOK'
  BY DEF vars, work, settings, batches, world, TypeOK
<1> QED
  BY <1>1, CallType, RequestType, LoopType, WorldType DEF Next, Fault

\* The goroutines of the scheduler keep their types, and no batch is larger than
\* maxAutoRegisterBatch.
THEOREM TypeCorrect == Spec => []TypeOK
BY InitType, StepType, PTL DEF Spec

-----------------------------------------------------------------------------
(* What the lists of calls look like.                                       *)

Has(s, call) == \E i \in 1 .. Len(s) : s[i] = call

\* The calls that GenerateAccounts makes inside the gate, before it leaves.
Gated == {"read", "apply", "test", "mend"}

\* A registration follows its entry; what precedes the way out of the gate
\* happens inside; a job is over at the end of its list.
Shape(s) ==
    /\ \A i \in 1 .. Len(s) : s[i] = "finish" => i = Len(s)
    /\ \A i \in 1 .. Len(s) : s[i] = "register" => i = 1 \/ s[i - 1] = "enter"
    /\ \A i \in 1 .. Len(s) : s[i] = "enter" => i < Len(s) /\ s[i + 1] = "register"
    /\ \A i \in 1 .. Len(s) : s[i] = "leave" => \A j \in 1 .. (i - 1) : s[j] \in Gated
    /\ \A i \in 1 .. Len(s) : s[i] = "test" => \E j \in 1 .. Len(s) : i < j /\ s[j] = "leave"
    /\ Has(s, "try") => Len(s) = 1

\* The goroutine is between EnterGate and LeaveGate.
Inside(s) == (s # <<>> /\ s[1] = "register") \/ Has(s, "leave")

\* What may be put in front of a list.
Prefix(a) ==
    /\ a \in Seq(Stage)
    /\ Shape(a)
    /\ \A i \in 1 .. Len(a) : a[i] \notin {"finish", "leave", "test", "try"}
    /\ a # <<>> => a[1] # "register"

LEMMA Concat ==
    ASSUME NEW a \in Seq(Stage), NEW s \in Seq(Stage), s # <<>>
    PROVE  LET n == a \o Tail(s) IN
           /\ n \in Seq(Stage)
           /\ Len(n) = Len(a) + Len(s) - 1
           /\ \A i \in 1 .. Len(a) : n[i] = a[i]
           /\ \A i \in 1 .. Len(n) : i > Len(a) => n[i] = s[i - Len(a) + 1]
           /\ \A i \in 2 .. Len(s) : n[i + Len(a) - 1] = s[i]
<1>1. Tail(s) \in Seq(Stage) /\ Len(Tail(s)) = Len(s) - 1 /\ Len(s) \in Nat /\ Len(s) > 0
  OBVIOUS
<1>2. \A i \in 1 .. (Len(s) - 1) : Tail(s)[i] = s[i + 1]
  OBVIOUS
<1> QED
  BY <1>1, <1>2

\* The call at the head is replaced by calls outside the gate, or by calls that
\* may happen inside.
LEMMA Advance ==
    ASSUME NEW s \in Seq(Stage), s # <<>>, Shape(s), NEW a, Prefix(a),
           s[1] \in {"read", "apply", "mend", "heal", "plan", "test"},
           Has(s, "leave") => \A i \in 1 .. Len(a) : a[i] \in Gated
    PROVE  LET n == a \o Tail(s) IN
           /\ Shape(n)
           /\ Inside(n) <=> Inside(s)
           /\ Has(n, "finish") <=> Has(s, "finish")
           /\ ~ Has(n, "try")
<1> DEFINE n == a \o Tail(s)
<1>1. /\ n \in Seq(Stage)
      /\ Len(n) = Len(a) + Len(s) - 1
      /\ \A i \in 1 .. Len(a) : n[i] = a[i]
      /\ \A i \in 1 .. Len(n) : i > Len(a) => n[i] = s[i - Len(a) + 1]
      /\ \A i \in 2 .. Len(s) : n[i + Len(a) - 1] = s[i]
  BY Concat DEF Prefix
<1>2. Len(a) \in Nat /\ Len(s) \in Nat /\ Len(s) >= 1 /\ Len(n) \in Nat
  BY <1>1 DEF Prefix
<1> HIDE DEF n
<1>3. \A call \in {"leave", "finish"} : Has(n, call) <=> Has(s, call)
  <2> TAKE call \in {"leave", "finish"}
  <2>1. ASSUME Has(n, call)
        PROVE  Has(s, call)
    <3>1. PICK i \in 1 .. Len(n) : n[i] = call
      BY <2>1 DEF Has
    <3>2. i > Len(a)
      BY <1>1, <1>2, <3>1 DEF Prefix
    <3>3. i - Len(a) + 1 \in 1 .. Len(s) /\ s[i - Len(a) + 1] = call
      BY <1>1, <1>2, <3>1, <3>2
    <3> QED
      BY <3>3 DEF Has
  <2>2. ASSUME Has(s, call)
        PROVE  Has(n, call)
    <3>1. PICK i \in 1 .. Len(s) : s[i] = call
      BY <2>2 DEF Has
    <3>2. i \in 2 .. Len(s)
      BY <1>2, <3>1
    <3>3. i + Len(a) - 1 \in 1 .. Len(n) /\ n[i + Len(a) - 1] = call
      BY <1>1, <1>2, <3>1, <3>2
    <3> QED
      BY <3>3 DEF Has
  <2> QED
    BY <2>1, <2>2
<1>4. ~ Has(n, "try")
  <2> SUFFICES ASSUME NEW i \in 1 .. Len(n), n[i] = "try"
               PROVE  FALSE
    BY DEF Has
  <2>1. i > Len(a)
    BY <1>1, <1>2 DEF Prefix
  <2>2. i - Len(a) + 1 \in 2 .. Len(s) /\ s[i - Len(a) + 1] = "try"
    BY <1>1, <1>2, <2>1
  <2> QED
    BY <1>2, <2>2 DEF Shape, Has
<1>5. Inside(n) <=> Inside(s)
  <2>1. n # <<>> => n[1] # "register"
    <3>1. CASE a # <<>>
      BY <1>1, <1>2, <3>1 DEF Prefix
    <3>2. CASE a = <<>>
      BY <1>1, <1>2, <3>2 DEF Shape
    <3> QED
      BY <3>1, <3>2
  <2> QED
    BY <1>3, <2>1 DEF Inside
<1>6. ASSUME NEW i \in 1 .. Len(n)
      PROVE  /\ n[i] = "finish" => i = Len(n)
             /\ n[i] = "register" => i = 1 \/ n[i - 1] = "enter"
             /\ n[i] = "enter" => i < Len(n) /\ n[i + 1] = "register"
             /\ n[i] = "leave" => \A j \in 1 .. (i - 1) : n[j] \in Gated
             /\ n[i] = "test" => \E j \in 1 .. Len(n) : i < j /\ n[j] = "leave"
  <2>1. CASE i =< Len(a)
    <3>1. i \in 1 .. Len(a) /\ n[i] = a[i]
      BY <1>1, <1>2, <2>1
    <3>2. a[i] = "register" => i = 1 \/ a[i - 1] = "enter"
      BY <3>1 DEF Prefix, Shape
    <3>3. i # 1 => i - 1 \in 1 .. Len(a) /\ n[i - 1] = a[i - 1]
      BY <1>1, <1>2, <3>1
    <3>4. a[i] = "enter" => i + 1 \in 1 .. Len(a) /\ a[i + 1] = "register" /\ n[i + 1] = a[i + 1]
      BY <1>1, <1>2, <3>1 DEF Prefix, Shape
    <3>5. a[i] \notin {"finish", "leave", "test"}
      BY <3>1 DEF Prefix
    <3> QED
      BY <1>1, <1>2, <3>1, <3>2, <3>3, <3>4, <3>5
  <2>2. CASE i > Len(a)
    <3> DEFINE k == i - Len(a) + 1
    <3>1. k \in 2 .. Len(s) /\ n[i] = s[k] /\ i = k + Len(a) - 1
      <4>1. n[i] = s[i - Len(a) + 1]
        BY <1>1, <2>2
      <4>2. i \in Nat /\ i =< Len(a) + Len(s) - 1
        BY <1>1, <1>2
      <4>3. k \in 2 .. Len(s) /\ i = k + Len(a) - 1
        BY <1>2, <2>2, <4>2
      <4> QED
        BY <4>1, <4>3
    <3> HIDE DEF k
    <3>2. s[k] = "finish" => k = Len(s)
      BY <1>2, <3>1 DEF Shape
    <3>3. s[k] = "register" => k > 2 /\ s[k - 1] = "enter" /\ n[i - 1] = s[k - 1]
      <4>1. s[k] = "register" => s[k - 1] = "enter"
        BY <1>2, <3>1 DEF Shape
      <4>2. s[k - 1] = "enter" => k # 2
        BY <3>1
      <4>3. k > 2 => n[i - 1] = s[k - 1]
        <5> SUFFICES ASSUME k > 2
                     PROVE  n[i - 1] = s[k - 1]
          OBVIOUS
        <5>1. k - 1 \in 2 .. Len(s) /\ (k - 1) + Len(a) - 1 = i - 1
          BY <1>2, <3>1
        <5> QED
          BY <1>1, <5>1
      <4> QED
        BY <1>2, <3>1, <4>1, <4>2, <4>3
    <3>4. s[k] = "enter" => i < Len(n) /\ n[i + 1] = "register"
      <4> SUFFICES ASSUME s[k] = "enter"
                   PROVE  i < Len(n) /\ n[i + 1] = "register"
        OBVIOUS
      <4>1. k < Len(s) /\ s[k + 1] = "register"
        BY <1>2, <3>1 DEF Shape
      <4>2. k + 1 \in 2 .. Len(s) /\ (k + 1) + Len(a) - 1 = i + 1
        BY <1>2, <3>1, <4>1
      <4> QED
        BY <1>1, <1>2, <3>1, <4>1, <4>2
    <3>5. s[k] = "leave" => \A j \in 1 .. (i - 1) : n[j] \in Gated
      <4> SUFFICES ASSUME s[k] = "leave", NEW j \in 1 .. (i - 1)
                   PROVE  n[j] \in Gated
        OBVIOUS
      <4>1. Has(s, "leave") /\ \A m \in 1 .. (k - 1) : s[m] \in Gated
        BY <1>2, <3>1 DEF Has, Shape
      <4>2. CASE j =< Len(a)
        BY <1>1, <1>2, <4>1, <4>2
      <4>3. CASE j > Len(a)
        <5>1. j - Len(a) + 1 \in 1 .. (k - 1) /\ j \in 1 .. Len(n)
          BY <1>1, <1>2, <3>1, <4>3
        <5> QED
          BY <1>1, <4>1, <4>3, <5>1
      <4> QED
        BY <1>2, <3>1, <4>2, <4>3
    <3>6. s[k] = "test" => \E j \in 1 .. Len(n) : i < j /\ n[j] = "leave"
      <4> SUFFICES ASSUME s[k] = "test"
                   PROVE  \E j \in 1 .. Len(n) : i < j /\ n[j] = "leave"
        OBVIOUS
      <4>1. PICK m \in 1 .. Len(s) : k < m /\ s[m] = "leave"
        BY <1>2, <3>1 DEF Shape
      <4>2. m \in 2 .. Len(s) /\ m + Len(a) - 1 \in 1 .. Len(n) /\ i < m + Len(a) - 1
        BY <1>1, <1>2, <3>1, <4>1, SMTT(30)
      <4> QED
        BY <1>1, <4>1, <4>2
    <3> QED
      BY <1>1, <1>2, <3>1, <3>2, <3>3, <3>4, <3>5, <3>6
  <2> QED
    BY <1>2, <2>1, <2>2
<1>7. Shape(n)
  BY <1>4, <1>6 DEF Shape
<1> QED
  BY <1>3, <1>4, <1>5, <1>7 DEF n

-----------------------------------------------------------------------------
(* The lists of the code.                                                   *)

LEMMA ReconcilingSpelled ==
    LET s == Reconciling IN
    /\ Len(s) = 6
    /\ s[1] = "read" /\ s[2] = "apply" /\ s[3] = "mend" /\ s[4] = "read" /\ s[5] = "apply" /\ s[6] = "finish"
BY DEF Reconciling, reconcileManager

LEMMA TestingSpelled ==
    LET s == Testing IN
    /\ Len(s) = 6
    /\ s[1] = "read" /\ s[2] = "apply" /\ s[3] = "heal" /\ s[4] = "read" /\ s[5] = "apply" /\ s[6] = "finish"
BY DEF Testing, reconcileManager

LEMMA TestOneSpelled ==
    LET s == TestOne IN
    /\ Len(s) = 5
    /\ s[1] = "read" /\ s[2] = "apply" /\ s[3] = "heal" /\ s[4] = "read" /\ s[5] = "apply"
BY DEF TestOne, reconcileManager

LEMMA RefillingSpelled ==
    LET s == Refilling IN
    /\ Len(s) = 2
    /\ s[1] = "plan" /\ s[2] = "finish"
BY DEF Refilling

LEMMA GenerateAccountsSpelled ==
    LET s == GenerateAccounts IN
    /\ Len(s) = 2
    /\ s[1] = "enter" /\ s[2] = "register"
BY DEF GenerateAccounts

LEMMA reconcileManagerSpelled ==
    LET s == reconcileManager IN
    /\ Len(s) = 2
    /\ s[1] = "read" /\ s[2] = "apply"
BY DEF reconcileManager

LEMMA HealedSpelled ==
    LET s == GenerateAccounts \o reconcileManager \o <<"mend">> IN
    /\ Len(s) = 5
    /\ s[1] = "enter" /\ s[2] = "register" /\ s[3] = "read" /\ s[4] = "apply" /\ s[5] = "mend"
BY DEF GenerateAccounts, reconcileManager

LEMMA PlannedSpelled ==
    LET s == GenerateAccounts \o <<"heal">> IN
    /\ Len(s) = 3
    /\ s[1] = "enter" /\ s[2] = "register" /\ s[3] = "heal"
BY DEF GenerateAccounts

LEMMA InsertedSpelled ==
    LET s == (reconcileManager \o <<"test", "mend">>) \o <<"leave">> IN
    /\ Len(s) = 5
    /\ s[1] = "read" /\ s[2] = "apply" /\ s[3] = "test" /\ s[4] = "mend" /\ s[5] = "leave"
BY DEF reconcileManager

LEMMA Jobs ==
    ASSUME NEW s \in {Reconciling, Testing, Refilling, <<"finish">>}
    PROVE  Shape(s) /\ ~ Inside(s) /\ Has(s, "finish") /\ ~ Has(s, "try")
<1>1. CASE s = Reconciling
  BY <1>1, ReconcilingSpelled DEF Shape, Inside, Has
<1>2. CASE s = Testing
  BY <1>2, TestingSpelled DEF Shape, Inside, Has
<1>3. CASE s = Refilling
  BY <1>3, RefillingSpelled DEF Shape, Inside, Has
<1>4. CASE s = <<"finish">>
  BY <1>4 DEF Shape, Inside, Has
<1> QED
  BY <1>1, <1>2, <1>3, <1>4

LEMMA Requests ==
    ASSUME NEW s \in {TestOne, GenerateAccounts, reconcileManager, <<>>}
    PROVE  Shape(s) /\ ~ Inside(s) /\ ~ Has(s, "finish") /\ ~ Has(s, "try")
<1>1. CASE s = TestOne
  BY <1>1, TestOneSpelled DEF Shape, Inside, Has
<1>2. CASE s = GenerateAccounts
  BY <1>2, GenerateAccountsSpelled DEF Shape, Inside, Has
<1>3. CASE s = reconcileManager
  BY <1>3, reconcileManagerSpelled DEF Shape, Inside, Has
<1>4. CASE s = <<>>
  BY <1>4 DEF Shape, Inside, Has
<1> QED
  BY <1>1, <1>2, <1>3, <1>4

\* What Mend, Heal and Plan put in front.
LEMMA Prefixes ==
    ASSUME NEW a \in {<<>>, <<"mend">>, <<"heal">>, reconcileManager,
                      GenerateAccounts \o <<"heal">>, <<>> \o <<"heal">>,
                      GenerateAccounts \o reconcileManager \o <<"mend">>}
    PROVE  Prefix(a)
<1>1. CASE a = <<>>
  BY <1>1 DEF Prefix, Shape, Has
<1>6. CASE a = <<"mend">> \/ a = <<"heal">>
  <2>1. a = <<"mend">> => a \in Seq(Stage) /\ Len(a) = 1 /\ a[1] = "mend"
    BY DEF Stage
  <2>2. a = <<"heal">> => a \in Seq(Stage) /\ Len(a) = 1 /\ a[1] = "heal"
    BY DEF Stage
  <2>3. a \in Seq(Stage) /\ Len(a) = 1 /\ a[1] \in {"mend", "heal"}
    BY <1>6, <2>1, <2>2
  <2> QED
    BY <2>3 DEF Prefix, Shape, Has
<1>2. CASE a = reconcileManager
  BY <1>2, reconcileManagerSpelled, Lists DEF Prefix, Shape, Has
<1>3. CASE a = GenerateAccounts \o <<"heal">>
  <2>1. a \in Seq(Stage)
    BY <1>3, Lists DEF Stage
  <2> QED
    BY <1>3, <2>1, PlannedSpelled DEF Prefix, Shape, Has
<1>4. CASE a = <<>> \o <<"heal">>
  <2>1. a \in Seq(Stage) /\ Len(a) = 1 /\ a[1] = "heal"
    BY <1>4 DEF Stage
  <2> QED
    BY <2>1 DEF Prefix, Shape, Has
<1>5. CASE a = GenerateAccounts \o reconcileManager \o <<"mend">>
  <2>1. a \in Seq(Stage)
    BY <1>5, Lists DEF Stage
  <2>2. /\ Len(a) = 5
        /\ a[1] = "enter" /\ a[2] = "register" /\ a[3] = "read" /\ a[4] = "apply" /\ a[5] = "mend"
    BY <1>5, HealedSpelled
  <2> QED
    BY <2>1, <2>2 DEF Prefix, Shape, Has
<1> QED
  BY <1>1, <1>2, <1>3, <1>4, <1>5, <1>6

-----------------------------------------------------------------------------
(* A list whose first call is one that begins or ends something.            *)

\* After EnterGate the registration is next.
LEMMA Entered ==
    ASSUME NEW s \in Seq(Stage), s # <<>>, Shape(s), s[1] = "enter"
    PROVE  LET n == <<>> \o Tail(s) IN
           /\ Shape(n) /\ Inside(n) /\ ~ Inside(s)
           /\ Has(n, "finish") <=> Has(s, "finish")
           /\ ~ Has(n, "try")
<1> DEFINE n == <<>> \o Tail(s)
<1>1. Len(n) = Len(s) - 1 /\ Len(s) \in Nat \ {0} /\ \A i \in 1 .. Len(n) : n[i] = s[i + 1]
  OBVIOUS
<1>2. \A i \in 1 .. Len(n) : i + 1 \in 1 .. Len(s)
  BY <1>1
<1>3. \A i \in 1 .. Len(s) : i # 1 => i - 1 \in 1 .. Len(n) /\ n[i - 1] = s[i]
  BY <1>1
<1> HIDE DEF n
<1>4. n # <<>> /\ n[1] = "register" /\ Len(s) > 1
  <2>1. 1 < Len(s) /\ s[1 + 1] = "register"
    <3>1. 1 \in 1 .. Len(s)
      BY <1>1
    <3> QED
      BY <3>1 DEF Shape
  <2>2. 1 \in 1 .. Len(n)
    BY <1>1, <2>1
  <2> QED
    BY <1>1, <2>1, <2>2
<1>5. ~ Has(s, "leave")
  BY <1>1 DEF Has, Shape, Gated
<1>6. Has(n, "finish") <=> Has(s, "finish")
  BY <1>1, <1>2, <1>3 DEF Has
<1>7. ~ Has(n, "leave") /\ ~ Has(n, "try")
  BY <1>1, <1>2, <1>4, <1>5 DEF Has, Shape
<1>8. ASSUME NEW i \in 1 .. Len(n)
      PROVE  /\ n[i] = "finish" => i = Len(n)
             /\ n[i] = "register" => i = 1 \/ n[i - 1] = "enter"
             /\ n[i] = "enter" => i < Len(n) /\ n[i + 1] = "register"
             /\ n[i] # "test"
  <2>1. i + 1 \in 1 .. Len(s) /\ n[i] = s[i + 1]
    BY <1>1, <1>2
  <2>2. n[i] = "finish" => i = Len(n)
    BY <1>1, <2>1 DEF Shape
  <2>3. n[i] = "register" => i = 1 \/ n[i - 1] = "enter"
    <3>1. n[i] = "register" => s[i] = "enter"
      <4>1. s[i + 1] = "register" => i + 1 = 1 \/ s[(i + 1) - 1] = "enter"
        BY <2>1 DEF Shape
      <4> QED
        BY <2>1, <4>1
    <3>2. i # 1 => n[i - 1] = s[i]
      BY <1>1, <1>3, <2>1
    <3> QED
      BY <3>1, <3>2
  <2>4. n[i] = "enter" => i < Len(n) /\ n[i + 1] = "register"
    <3>1. n[i] = "enter" => i + 1 < Len(s) /\ s[i + 2] = "register"
      <4>1. s[i + 1] = "enter" => i + 1 < Len(s) /\ s[(i + 1) + 1] = "register"
        BY <2>1 DEF Shape
      <4> QED
        BY <2>1, <4>1
    <3>2. i + 1 < Len(s) => i + 1 \in 1 .. Len(n)
      BY <1>1, <2>1
    <3>3. i + 1 < Len(s) => n[i + 1] = s[i + 2]
      BY <1>1, <3>2
    <3> QED
      BY <1>1, <3>1, <3>3
  <2>5. n[i] # "test"
    BY <1>5, <2>1 DEF Shape, Has
  <2> QED
    BY <2>2, <2>3, <2>4, <2>5
<1>9. Shape(n)
  BY <1>7, <1>8 DEF Shape, Has
<1> QED
  BY <1>4, <1>5, <1>6, <1>7, <1>9 DEF Inside, n

\* After BatchOver the goroutine has its way out of the gate before it.
LEMMA Registered ==
    ASSUME NEW s \in Seq(Stage), s # <<>>, Shape(s), s[1] = "register",
           NEW a \in {(reconcileManager \o <<"test", "mend">>) \o <<"leave">>, <<>> \o <<"leave">>}
    PROVE  LET n == a \o Tail(s) IN
           /\ Shape(n) /\ Inside(n) /\ Inside(s)
           /\ Has(n, "finish") <=> Has(s, "finish")
           /\ ~ Has(n, "try")
<1> DEFINE n == a \o Tail(s)
<1>1. /\ a \in Seq(Stage) /\ Len(a) \in Nat \ {0} /\ a[Len(a)] = "leave"
      /\ \A i \in 1 .. Len(a) : i # Len(a) => a[i] \in Gated
      /\ \A i \in 1 .. Len(a) : a[i] # "finish"
  <2>1. CASE a = <<>> \o <<"leave">>
    <3>1. a \in Seq(Stage) /\ Len(a) = 1 /\ a[1] = "leave"
      BY <2>1 DEF Stage
    <3> QED
      BY <3>1
  <2>2. CASE a = (reconcileManager \o <<"test", "mend">>) \o <<"leave">>
    <3>1. a \in Seq(Stage)
      BY <2>2, Lists DEF Stage
    <3>2. /\ Len(a) = 5
          /\ a[1] = "read" /\ a[2] = "apply" /\ a[3] = "test" /\ a[4] = "mend" /\ a[5] = "leave"
      BY <2>2, InsertedSpelled
    <3> QED
      BY <3>1, <3>2 DEF Gated
  <2> QED
    BY <2>1, <2>2
<1>2. /\ n \in Seq(Stage)
      /\ Len(n) = Len(a) + Len(s) - 1
      /\ \A i \in 1 .. Len(a) : n[i] = a[i]
      /\ \A i \in 1 .. Len(n) : i > Len(a) => n[i] = s[i - Len(a) + 1]
      /\ \A i \in 2 .. Len(s) : n[i + Len(a) - 1] = s[i]
  BY <1>1, Concat
<1>3. Len(s) \in Nat /\ Len(s) >= 1 /\ Len(n) \in Nat
  BY <1>2
<1> HIDE DEF n
<1>4. ~ Has(s, "leave")
  BY <1>3 DEF Has, Shape, Gated
<1>5. \A i \in 1 .. Len(s) : s[i] \notin {"leave", "test", "try"}
  BY <1>3, <1>4 DEF Has, Shape
<1>6. Has(n, "finish") <=> Has(s, "finish")
  <2>1. ASSUME Has(n, "finish")
        PROVE  Has(s, "finish")
    <3>1. PICK i \in 1 .. Len(n) : n[i] = "finish"
      BY <2>1 DEF Has
    <3>2. i > Len(a)
      <4>1. i =< Len(a) => i \in 1 .. Len(a)
        BY <1>1
      <4>2. i =< Len(a) => n[i] = a[i] /\ a[i] # "finish"
        BY <1>1, <1>2, <4>1
      <4> QED
        BY <1>1, <3>1, <4>2
    <3>3. i - Len(a) + 1 \in 1 .. Len(s) /\ s[i - Len(a) + 1] = "finish"
      BY <1>1, <1>2, <1>3, <3>1, <3>2
    <3> QED
      BY <3>3 DEF Has
  <2>2. ASSUME Has(s, "finish")
        PROVE  Has(n, "finish")
    <3>1. PICK i \in 1 .. Len(s) : s[i] = "finish"
      BY <2>2 DEF Has
    <3>2. i \in 2 .. Len(s)
      BY <1>3, <3>1
    <3>3. i + Len(a) - 1 \in 1 .. Len(n) /\ n[i + Len(a) - 1] = "finish"
      BY <1>1, <1>2, <1>3, <3>1, <3>2
    <3> QED
      BY <3>3 DEF Has
  <2> QED
    BY <2>1, <2>2
<1>7. ASSUME NEW i \in 1 .. Len(n)
      PROVE  /\ n[i] = "finish" => i = Len(n)
             /\ n[i] = "register" => i = 1 \/ n[i - 1] = "enter"
             /\ n[i] = "enter" => i < Len(n) /\ n[i + 1] = "register"
             /\ n[i] = "leave" => \A j \in 1 .. (i - 1) : n[j] \in Gated
             /\ n[i] = "test" => \E j \in 1 .. Len(n) : i < j /\ n[j] = "leave"
             /\ n[i] # "try"
  <2>1. CASE i =< Len(a)
    <3>1. n[i] = a[i] /\ n[i] \in Gated \cup {"leave"} /\ (n[i] = "leave" => i = Len(a))
      BY <1>1, <1>2, <2>1 DEF Gated
    <3>2. n[i] = "leave" => \A j \in 1 .. (i - 1) : n[j] \in Gated
      BY <1>1, <1>2, <3>1
    <3>3. n[i] = "test" => i < Len(a)
      <4>1. i = Len(a) => n[i] = "leave"
        BY <1>1, <3>1
      <4> QED
        BY <1>1, <2>1, <4>1
    <3>4. Len(a) \in 1 .. Len(n) /\ n[Len(a)] = "leave"
      BY <1>1, <1>2, <1>3
    <3> QED
      BY <3>1, <3>2, <3>3, <3>4 DEF Gated
  <2>2. CASE i > Len(a)
    <3> DEFINE k == i - Len(a) + 1
    <3>1. k \in 2 .. Len(s) /\ n[i] = s[k] /\ i = k + Len(a) - 1
      <4>1. n[i] = s[i - Len(a) + 1]
        BY <1>2, <2>2
      <4>2. i \in Nat /\ i =< Len(a) + Len(s) - 1
        BY <1>2
      <4>3. k \in 2 .. Len(s) /\ i = k + Len(a) - 1
        BY <1>1, <1>3, <2>2, <4>2
      <4> QED
        BY <4>1, <4>3
    <3> HIDE DEF k
    <3>2. s[k] = "finish" => k = Len(s)
      BY <1>3, <3>1 DEF Shape
    <3>3. s[k] = "register" => n[i - 1] = "enter"
      <4> SUFFICES ASSUME s[k] = "register"
                   PROVE  n[i - 1] = "enter"
        OBVIOUS
      <4>1. s[k - 1] = "enter"
        BY <1>3, <3>1 DEF Shape
      <4>2. k - 1 \in 2 .. Len(s) /\ (k - 1) + Len(a) - 1 = i - 1
        BY <1>1, <1>3, <3>1, <4>1
      <4> QED
        BY <1>2, <4>1, <4>2
    <3>4. s[k] = "enter" => i < Len(n) /\ n[i + 1] = "register"
      <4> SUFFICES ASSUME s[k] = "enter"
                   PROVE  i < Len(n) /\ n[i + 1] = "register"
        OBVIOUS
      <4>1. k < Len(s) /\ s[k + 1] = "register"
        BY <1>3, <3>1 DEF Shape
      <4>2. k + 1 \in 2 .. Len(s) /\ (k + 1) + Len(a) - 1 = i + 1
        BY <1>1, <1>3, <3>1, <4>1
      <4> QED
        BY <1>1, <1>2, <1>3, <3>1, <4>1, <4>2
    <3>5. s[k] \notin {"leave", "test", "try"}
      BY <1>3, <1>5, <3>1
    <3>6. s[k] = "finish" => i = Len(n)
      BY <1>1, <1>2, <1>3, <3>1, <3>2
    <3> QED
      BY <3>1, <3>3, <3>4, <3>5, <3>6
  <2> QED
    BY <1>1, <2>1, <2>2
<1>8. Shape(n) /\ ~ Has(n, "try")
  BY <1>7 DEF Shape, Has
<1>9. Inside(n)
  <2>1. Len(a) \in 1 .. Len(n) /\ n[Len(a)] = "leave"
    BY <1>1, <1>2, <1>3
  <2> QED
    BY <2>1 DEF Inside, Has
<1> QED
  BY <1>6, <1>8, <1>9 DEF Inside, n

\* After LeaveGate nothing of the batch is left.
LEMMA Departed ==
    ASSUME NEW s \in Seq(Stage), s # <<>>, Shape(s), s[1] = "leave"
    PROVE  LET n == Tail(s) IN
           /\ Shape(n) /\ ~ Inside(n) /\ Inside(s)
           /\ Has(n, "finish") <=> Has(s, "finish")
           /\ ~ Has(n, "try")
<1> DEFINE n == Tail(s)
<1>1. Len(n) = Len(s) - 1 /\ Len(s) \in Nat \ {0} /\ \A i \in 1 .. Len(n) : n[i] = s[i + 1]
  OBVIOUS
<1>2. \A i \in 1 .. Len(n) : i + 1 \in 1 .. Len(s)
  BY <1>1
<1>3. \A i \in 1 .. Len(s) : i # 1 => i - 1 \in 1 .. Len(n) /\ n[i - 1] = s[i]
  BY <1>1
<1> HIDE DEF n
<1>4. Inside(s)
  BY <1>1 DEF Inside, Has
<1>5. \A i \in 2 .. Len(s) : s[i] \notin {"leave", "test", "try"}
  BY <1>1 DEF Has, Shape, Gated
<1>6. Has(n, "finish") <=> Has(s, "finish")
  BY <1>1, <1>2, <1>3 DEF Has
<1>7. \A i \in 1 .. Len(n) : n[i] \notin {"leave", "test", "try"}
  BY <1>1, <1>2, <1>5
<1>8. ASSUME NEW i \in 1 .. Len(n)
      PROVE  /\ n[i] = "finish" => i = Len(n)
             /\ n[i] = "register" => i # 1 /\ n[i - 1] = "enter"
             /\ n[i] = "enter" => i < Len(n) /\ n[i + 1] = "register"
  <2>1. i + 1 \in 1 .. Len(s) /\ n[i] = s[i + 1]
    BY <1>1, <1>2
  <2>2. n[i] = "finish" => i = Len(n)
    BY <1>1, <2>1 DEF Shape
  <2>3. n[i] = "register" => i # 1 /\ n[i - 1] = "enter"
    <3>1. n[i] = "register" => s[i] = "enter"
      <4>1. s[i + 1] = "register" => i + 1 = 1 \/ s[(i + 1) - 1] = "enter"
        BY <2>1 DEF Shape
      <4> QED
        BY <2>1, <4>1
    <3>2. i # 1 => n[i - 1] = s[i]
      BY <1>1, <1>3, <2>1
    <3> QED
      BY <3>1, <3>2
  <2>4. n[i] = "enter" => i < Len(n) /\ n[i + 1] = "register"
    <3>1. n[i] = "enter" => i + 1 < Len(s) /\ s[i + 2] = "register"
      <4>1. s[i + 1] = "enter" => i + 1 < Len(s) /\ s[(i + 1) + 1] = "register"
        BY <2>1 DEF Shape
      <4> QED
        BY <2>1, <4>1
    <3>2. i + 1 < Len(s) => i + 1 \in 1 .. Len(n)
      BY <1>1, <2>1
    <3>3. i + 1 < Len(s) => n[i + 1] = s[i + 2]
      BY <1>1, <3>2
    <3> QED
      BY <1>1, <3>1, <3>3
  <2> QED
    BY <2>2, <2>3, <2>4
<1>9. Shape(n)
  BY <1>7, <1>8 DEF Shape, Has
<1>10. ~ Inside(n) /\ ~ Has(n, "try")
  <2>1. n # <<>> => 1 \in 1 .. Len(n)
    BY <1>1 DEF n
  <2> QED
    BY <1>7, <1>8, <2>1 DEF Inside, Has
<1> QED
  BY <1>4, <1>6, <1>9, <1>10 DEF n

-----------------------------------------------------------------------------
(* Exclusion.                                                               *)

\* What a goroutine's list says of its place in the flag and in the gate.
Place(p) ==
    /\ Shape(todo[p])
    /\ p \in working <=> Has(todo[p], "finish")
    /\ p \in gate <=> Inside(todo[p])
    /\ Has(todo[p], "try") => p \in Saver
    /\ p \in Asker => p \notin working
    /\ p \in Saver \cup Asker /\ asked[p] = "nothing" => todo[p] = <<>>
    /\ asked[p] = "generate" => p \in Asker

Exclusion ==
    /\ \A p \in Process : Place(p)
    /\ running <=> working # {}
    /\ \A p, q \in working : p = q
    /\ \A p, q \in gate : p = q

LEMMA InitExclusion == Init => Exclusion
BY Requests DEF Init, Exclusion, Place

\* One goroutine moves, and the others stay where they are.
LEMMA Moved ==
    ASSUME TypeOK, Exclusion, NEW p \in Process, NEW n, todo' = [todo EXCEPT ![p] = n],
           \A q \in Process \ {p} :
               /\ q \in working' <=> q \in working
               /\ q \in gate' <=> q \in gate
               /\ asked'[q] = asked[q],
           Place(p)',
           running' <=> working' # {},
           \A q, r \in working' : q = r,
           \A q, r \in gate' : q = r
    PROVE  Exclusion'
<1>1. \A q \in Process \ {p} : todo'[q] = todo[q]
  BY DEF TypeOK
<1>2. ASSUME NEW q \in Process \ {p}
      PROVE  Place(q)'
  BY <1>1, <1>2 DEF Place, Exclusion
<1> QED
  BY <1>2 DEF Exclusion

\* A goroutine makes a call that neither begins nor ends a job or a batch.
LEMMA Goes ==
    ASSUME TypeOK, Exclusion, NEW p \in Process, NEW n, todo' = [todo EXCEPT ![p] = n],
           todo[p] # <<>>, UNCHANGED <<asked, working, running, gate>>,
           Shape(n), Inside(n) <=> Inside(todo[p]), Has(n, "finish") <=> Has(todo[p], "finish"),
           ~ Has(n, "try")
    PROVE  Exclusion'
<1>1. todo'[p] = n
  BY DEF TypeOK
<1>2. Place(p)'
  BY <1>1 DEF Place, Exclusion
<1> QED
  BY <1>2, Moved DEF Exclusion

\* The call at the head puts a list in front that begins and ends nothing.
LEMMA GoesOn ==
    ASSUME TypeOK, Exclusion, NEW p \in Process, todo[p] # <<>>, NEW a, Prefix(a), Continue(p, a),
           Head(todo[p]) \in {"read", "apply", "mend", "heal", "plan", "test"},
           Has(todo[p], "leave") => \A i \in 1 .. Len(a) : a[i] \in Gated,
           UNCHANGED <<asked, working, running, gate>>
    PROVE  Exclusion'
<1> DEFINE s == todo[p]
<1>1. s \in Seq(Stage) /\ s # <<>> /\ Shape(s) /\ s[1] = Head(s)
  BY DEF TypeOK, Exclusion, Place
<1>2. /\ Shape(a \o Tail(s))
      /\ Inside(a \o Tail(s)) <=> Inside(s)
      /\ Has(a \o Tail(s), "finish") <=> Has(s, "finish")
      /\ ~ Has(a \o Tail(s), "try")
  BY <1>1, Advance
<1>3. todo' = [todo EXCEPT ![p] = a \o Tail(s)]
  BY DEF Continue
<1> HIDE DEF s
<1> QED
  BY <1>1, <1>2, <1>3, Goes DEF s

LEMMA PlainCalls ==
    ASSUME TypeOK, Exclusion, NEW p \in Process,
           ReadSettings(p) \/ ApplySettings(p) \/ Mend(p) \/ Heal(p) \/ Plan(p) \/ TestNew(p)
    PROVE  Exclusion'
<1> USE DEF At, work, batches
<1>1. CASE ReadSettings(p)
  <2>1. Prefix(<<>>) /\ Len(<<>>) = 0
    BY Prefixes
  <2> QED
    BY <1>1, <2>1, GoesOn DEF ReadSettings
<1>2. CASE ApplySettings(p)
  <2>1. Prefix(<<>>) /\ Len(<<>>) = 0
    BY Prefixes
  <2> QED
    BY <1>2, <2>1, GoesOn DEF ApplySettings
<1>3. CASE Mend(p)
  <2>1. PICK a \in {<<>>, reconcileManager} : Continue(p, a)
    BY <1>3 DEF Mend
  <2>2. Prefix(a)
    BY Prefixes
  <2>3. \A i \in 1 .. Len(a) : a[i] \in Gated
    BY reconcileManagerSpelled DEF Gated
  <2> QED
    BY <1>3, <2>1, <2>2, <2>3, GoesOn DEF Mend
<1>4. CASE TestNew(p)
  <2>1. Prefix(<<>>) /\ Len(<<>>) = 0
    BY Prefixes
  <2> QED
    BY <1>4, <2>1, GoesOn DEF TestNew
<1>5. CASE Heal(p) \/ Plan(p)
  <2>1. PICK a \in {<<>>, <<"mend">>, GenerateAccounts \o <<"heal">>, <<>> \o <<"heal">>,
                    GenerateAccounts \o reconcileManager \o <<"mend">>} : Continue(p, a)
    BY <1>5 DEF Heal, Plan
  <2>2. Prefix(a)
    BY Prefixes
  <2>3. todo[p] # <<>> /\ Head(todo[p]) \in {"heal", "plan"}
    BY <1>5 DEF Heal, Plan
  <2>4. ~ Has(todo[p], "leave")
    <3>1. todo[p] \in Seq(Stage) /\ Shape(todo[p])
      BY DEF TypeOK, Exclusion, Place
    <3>2. 1 \in 1 .. Len(todo[p]) /\ todo[p][1] \in {"heal", "plan"}
      BY <2>3, <3>1
    <3> QED
      BY <3>1, <3>2, SMTT(30) DEF Has, Shape, Gated
  <2>5. UNCHANGED <<asked, working, running, gate>>
    BY <1>5 DEF Heal, Plan
  <2> QED
    BY <2>1, <2>2, <2>3, <2>4, <2>5, GoesOn
<1> QED
  BY <1>1, <1>2, <1>3, <1>4, <1>5

LEMMA GateCalls ==
    ASSUME TypeOK, Exclusion, NEW p \in Process,
           EnterGate(p) \/ BatchOver(p) \/ LeaveGate(p) \/ GiveUp(p)
    PROVE  Exclusion'
<1> USE DEF At, work, batches
<1> DEFINE s == todo[p]
<1>1. s \in Seq(Stage) /\ s # <<>> /\ Shape(s) /\ s[1] = Head(s) /\ Place(p)
  BY DEF TypeOK, Exclusion, Place, EnterGate, BatchOver, LeaveGate, GiveUp
<1>2. CASE EnterGate(p)
  <2> DEFINE n == <<>> \o Tail(s)
  <2>1. /\ Shape(n) /\ Inside(n) /\ ~ Inside(s)
        /\ Has(n, "finish") <=> Has(s, "finish")
        /\ ~ Has(n, "try")
    BY <1>1, <1>2, Entered DEF EnterGate
  <2>2. todo' = [todo EXCEPT ![p] = n] /\ gate = {} /\ gate' = {p} /\ UNCHANGED <<asked, working, running>>
    BY <1>2 DEF EnterGate, Continue
  <2> HIDE DEF n
  <2>3. todo'[p] = n
    BY <2>2 DEF TypeOK
  <2>4. Place(p)'
    BY <1>1, <2>1, <2>2, <2>3 DEF Place
  <2> QED
    BY <2>2, <2>4, Moved DEF Exclusion
<1>3. CASE BatchOver(p)
  <2>1. PICK a \in {(reconcileManager \o <<"test", "mend">>) \o <<"leave">>, <<>> \o <<"leave">>} : Continue(p, a)
    BY <1>3 DEF BatchOver
  <2> DEFINE n == a \o Tail(s)
  <2>2. /\ Shape(n) /\ Inside(n) /\ Inside(s)
        /\ Has(n, "finish") <=> Has(s, "finish")
        /\ ~ Has(n, "try")
    BY <1>1, <1>3, Registered DEF BatchOver
  <2>3. todo' = [todo EXCEPT ![p] = n] /\ UNCHANGED <<asked, working, running, gate>>
    BY <1>3, <2>1 DEF BatchOver, Continue
  <2> HIDE DEF n
  <2> QED
    BY <1>1, <2>2, <2>3, Goes
<1>4. CASE LeaveGate(p)
  <2> DEFINE n == IF p \in failed THEN AfterError(p) ELSE Tail(s)
  <2>1. /\ Shape(Tail(s)) /\ ~ Inside(Tail(s)) /\ Inside(s)
        /\ Has(Tail(s), "finish") <=> Has(s, "finish")
        /\ ~ Has(Tail(s), "try")
    BY <1>1, <1>4, Departed DEF LeaveGate
  <2>2. /\ Shape(AfterError(p)) /\ ~ Inside(AfterError(p)) /\ ~ Has(AfterError(p), "try")
        /\ Has(AfterError(p), "finish") <=> p \in working
    BY Jobs, Requests DEF AfterError
  <2>3. todo' = [todo EXCEPT ![p] = n] /\ gate' = gate \ {p} /\ UNCHANGED <<asked, working, running>>
    BY <1>4 DEF LeaveGate
  <2>4. /\ Shape(n) /\ ~ Inside(n) /\ ~ Has(n, "try")
        /\ Has(n, "finish") <=> p \in working
    BY <1>1, <2>1, <2>2 DEF Place
  <2> HIDE DEF n
  <2>5. todo'[p] = n
    BY <2>3 DEF TypeOK
  <2>6. Place(p)'
    BY <1>1, <2>3, <2>4, <2>5 DEF Place
  <2> QED
    BY <2>3, <2>6, Moved DEF Exclusion
<1>5. CASE GiveUp(p)
  <2>1. ~ Inside(s) /\ p \notin working
    BY <1>1, <1>5, Entered DEF GiveUp, Place
  <2>2. todo' = [todo EXCEPT ![p] = <<>>] /\ UNCHANGED <<asked, working, running, gate>>
    BY <1>5 DEF GiveUp
  <2> QED
    BY <1>1, <2>1, <2>2, Requests, Goes DEF Place
<1> QED
  BY <1>2, <1>3, <1>4, <1>5

LEMMA JobCalls ==
    ASSUME TypeOK, Exclusion, NEW p \in Process, Reconcile(p) \/ Finish(p) \/ MendFails(p)
    PROVE  Exclusion'
<1> USE DEF At, work, batches
<1> DEFINE s == todo[p]
<1>1. s \in Seq(Stage) /\ s # <<>> /\ Shape(s) /\ s[1] = Head(s) /\ 1 \in 1 .. Len(s) /\ Place(p)
  <2>1. s \in Seq(Stage) /\ s # <<>> /\ Shape(s) /\ Place(p)
    BY DEF TypeOK, Exclusion, Place, Reconcile, Finish, MendFails
  <2> QED
    BY <2>1
<1>2. CASE Reconcile(p)
  <2>1. Has(s, "try") /\ Len(s) = 1
    BY <1>1, <1>2 DEF Reconcile, Has, Shape
  <2>2. ~ Inside(s) /\ ~ Has(s, "finish")
    BY <1>1, <1>2, <2>1 DEF Reconcile, Inside, Has
  <2>3. CASE running
    BY <1>1, <1>2, <2>2, <2>3, Requests, Goes DEF Reconcile
  <2>4. CASE ~ running
    <3>1. /\ todo' = [todo EXCEPT ![p] = Reconciling] /\ running' = TRUE /\ working = {}
          /\ working' = {p} /\ UNCHANGED <<asked, gate>>
      BY <1>2, <2>4 DEF Reconcile, Start, Exclusion
    <3>2. todo'[p] = Reconciling
      BY <3>1 DEF TypeOK
    <3>3. p \in Saver /\ p \notin Asker
      BY <1>1, <2>1, SchedulerAssumption DEF Place
    <3>4. Place(p)'
      BY <1>1, <2>2, <3>1, <3>2, <3>3, Jobs DEF Place
    <3> QED
      BY <3>1, <3>4, Moved DEF Exclusion
  <2> QED
    BY <2>3, <2>4
<1>3. CASE Finish(p)
  <2>1. Has(s, "finish") /\ Len(s) = 1
    BY <1>1, <1>3 DEF Finish, Has, Shape
  <2>2. ~ Inside(s) /\ <<>> \o Tail(s) = <<>>
    <3>1. s[1] = "finish" /\ \A i \in 1 .. Len(s) : i = 1
      BY <1>1, <1>3, <2>1 DEF Finish
    <3>2. ~ Inside(s)
      BY <3>1 DEF Inside, Has
    <3>3. Tail(s) \in Seq(Stage) /\ Len(Tail(s)) = 0
      BY <1>1, <2>1
    <3>4. \A r \in Seq(Stage) : Len(r) = 0 => r = <<>>
      OBVIOUS
    <3>5. Tail(s) = <<>>
      BY <3>3, <3>4
    <3> QED
      BY <3>2, <3>5
  <2>3. p \in working /\ p \notin gate
    BY <1>1, <2>1, <2>2 DEF Place
  <2>4. /\ todo' = [todo EXCEPT ![p] = <<>>] /\ running' = FALSE /\ working' = {}
        /\ UNCHANGED <<asked, gate>>
    BY <1>3, <2>2, <2>3 DEF Finish, Continue, Exclusion
  <2>5. todo'[p] = <<>>
    BY <2>4 DEF TypeOK
  <2>6. Place(p)'
    BY <1>1, <2>3, <2>4, <2>5, Requests DEF Place
  <2>7. \A q \in Process \ {p} : q \notin working
    BY <2>3 DEF Exclusion
  <2> QED
    BY <2>4, <2>6, <2>7, Moved DEF Exclusion
<1>4. CASE MendFails(p)
  <2>1. /\ Shape(AfterError(p)) /\ ~ Inside(AfterError(p)) /\ ~ Has(AfterError(p), "try")
        /\ Has(AfterError(p), "finish") <=> p \in working
    BY Jobs, Requests DEF AfterError
  <2>2. ~ Inside(s)
    BY <1>1, <1>4 DEF MendFails, Place
  <2>3. todo' = [todo EXCEPT ![p] = AfterError(p)] /\ UNCHANGED <<asked, working, running, gate>>
    BY <1>4 DEF MendFails
  <2> QED
    BY <1>1, <2>1, <2>2, <2>3, Goes DEF Place
<1> QED
  BY <1>2, <1>3, <1>4

LEMMA Begins ==
    ASSUME TypeOK, Exclusion, NEW p \in {"loop", "refill"},
           NEW n \in {Reconciling, Testing, Refilling}, todo[p] = <<>>, ~ running, Start(p, n),
           UNCHANGED <<asked, gate>>
    PROVE  Exclusion'
<1>1. p \in Process /\ p \notin Saver /\ p \notin Asker
  BY SchedulerAssumption DEF Process
<1>2. ~ Inside(todo[p])
  BY Requests
<1>3. /\ todo' = [todo EXCEPT ![p] = n] /\ running' = TRUE /\ working = {} /\ working' = {p}
  BY DEF Start, Exclusion
<1>4. todo'[p] = n
  BY <1>1, <1>3 DEF TypeOK
<1>5. Place(p)
  BY <1>1 DEF Exclusion
<1>6. Place(p)'
  BY <1>1, <1>2, <1>3, <1>4, <1>5, Jobs DEF Place
<1> QED
  BY <1>1, <1>3, <1>6, Moved DEF Exclusion

LEMMA LoopCalls ==
    ASSUME TypeOK, Exclusion, Trigger \/ TakeJob \/ TimerFires \/ RefillTick
    PROVE  Exclusion'
<1> USE DEF work, batches
<1>1. CASE Trigger
  BY <1>1 DEF Trigger, Exclusion, Place
<1>2. CASE TakeJob
  <2>1. CASE running
    BY <1>2, <2>1 DEF TakeJob, Exclusion, Place
  <2>2. CASE ~ running
    <3>1. PICK n \in {Reconciling, Testing} : Start("loop", n)
      BY <1>2, <2>2 DEF TakeJob
    <3> QED
      BY <1>2, <2>2, <3>1, Begins DEF TakeJob
  <2> QED
    BY <2>1, <2>2
<1>3. CASE TimerFires
  BY <1>3, Begins DEF TimerFires
<1>4. CASE RefillTick
  BY <1>4, Begins DEF RefillTick
<1> QED
  BY <1>1, <1>2, <1>3, <1>4

LEMMA RequestCalls ==
    ASSUME TypeOK, Exclusion, NEW p \in Process, Save(p) \/ AskTestOne(p) \/ AccountsGenerate(p)
    PROVE  Exclusion'
<1> USE DEF work, batches
<1>1. todo[p] = <<>> /\ Place(p) /\ UNCHANGED <<working, running, gate>>
  BY DEF Save, AskTestOne, AccountsGenerate, Exclusion, Place
<1>2. ~ Inside(todo[p]) /\ ~ Has(todo[p], "finish")
  BY <1>1, Requests
<1>3. PICK n, kind :
         /\ todo' = [todo EXCEPT ![p] = n]
         /\ asked' = [asked EXCEPT ![p] = kind]
         /\ \/ p \in Saver /\ n = <<"try">> /\ kind = "save"
            \/ p \in Asker /\ n = TestOne /\ kind = "test"
            \/ p \in Asker /\ n = GenerateAccounts /\ kind = "generate"
  BY DEF Save, AskTestOne, AccountsGenerate
<1>4. todo'[p] = n /\ asked'[p] = kind
  BY <1>3 DEF TypeOK
<1>5. \A q \in Process \ {p} : asked'[q] = asked[q]
  BY <1>3 DEF TypeOK
<1>6. Shape(n) /\ ~ Inside(n) /\ ~ Has(n, "finish") /\ (Has(n, "try") => p \in Saver)
  <2>1. n = <<"try">> => Shape(n) /\ ~ Inside(n) /\ ~ Has(n, "finish")
    BY DEF Shape, Inside, Has
  <2> QED
    BY <1>3, <2>1, Requests
<1>7. Place(p)'
  BY <1>1, <1>2, <1>3, <1>4, <1>6 DEF Place
<1> QED
  BY <1>1, <1>3, <1>5, <1>7, Moved DEF Exclusion

LEMMA StepExclusion == TypeOK /\ Exclusion /\ [Next]_vars => Exclusion'
<1> SUFFICES ASSUME TypeOK, Exclusion, [Next]_vars
             PROVE  Exclusion'
  OBVIOUS
<1>1. CASE UNCHANGED vars
  BY <1>1 DEF vars, work, batches, Exclusion, Place
<1>2. ASSUME NEW p \in Process, Register(p) \/ RegisterFails(p)
      PROVE  Exclusion'
  BY <1>2 DEF Register, RegisterFails, work, batches, Exclusion, Place
<1>3. CASE BackoffEnds \/ LoseAccount \/ GoOffline \/ ComeBack
  BY <1>3 DEF BackoffEnds, LoseAccount, GoOffline, ComeBack, work, batches, Exclusion, Place
<1> QED
  BY <1>1, <1>2, <1>3, PlainCalls, GateCalls, JobCalls, LoopCalls, RequestCalls DEF Next, Call, Fault

LEMMA ExclusionSuffices == TypeOK /\ Exclusion => OneAtATime
<1> SUFFICES ASSUME TypeOK, Exclusion
             PROVE  OneAtATime
  OBVIOUS
<1>1. ASSUME NEW p \in Process, At(p, "register") \/ At(p, "test") \/ At(p, "leave")
      PROVE  gate = {p}
  <2> DEFINE s == todo[p]
  <2>1. s \in Seq(Stage) /\ s # <<>> /\ Shape(s) /\ Place(p)
    BY <1>1 DEF At, TypeOK, Exclusion, Place
  <2>2. 1 \in 1 .. Len(s) /\ s[1] \in {"register", "test", "leave"}
    BY <1>1, <2>1 DEF At
  <2>3. Inside(s)
    BY <2>1, <2>2 DEF Inside, Shape, Has
  <2>4. p \in gate
    BY <2>1, <2>3 DEF Place
  <2> QED
    BY <2>4 DEF Exclusion
<1> QED
  BY <1>1 DEF OneAtATime, Exclusion

\* Jobs, refills and Reconcile exclude each other, and so do batches of
\* registrations, whoever asks for them and whatever fails.
THEOREM AlwaysOneAtATime == Spec => []OneAtATime
BY InitType, StepType, InitExclusion, StepExclusion, ExclusionSuffices, PTL DEF Spec
=============================================================================
