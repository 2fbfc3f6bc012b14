--------------------- MODULE IntegrationSubmissionProofs --------------------
(***************************************************************************)
(* Proofs about IntegrationSubmission, for any number of submissions, keys *)
(* and threads.                                                            *)
(*                                                                         *)
(* The steps of a thread are a list, so the first part is about lists:     *)
(* which step may follow which, and what a thread holds while a step is    *)
(* ahead of it (Shape, Sane).  On it rests Base, the inductive invariant   *)
(* of all the theorems: what threads, jobs, dead letters and calls name    *)
(* exists, a creation has room for what it inserts, a key that is not      *)
(* marked as overlapping has one creation and a submission one worker.     *)
(* Each further property adds what is on its way between two statements:   *)
(* the attempts in the rows threads carry (CallsCounted), the dead letters *)
(* that are about to be opened or closed (LettersListed), and the calls    *)
(* that threads and waiting jobs may still make (SendsBudgeted).           *)
(***************************************************************************)
EXTENDS IntegrationSubmission, SequenceTheorems, FiniteSetTheorems, WellFoundedInduction, TLAPS

-----------------------------------------------------------------------------
(* What the list of steps of a thread looks like. *)

Enders == {"record", "return", "mark"}

\* Step y may come after step x in the list, and next after it.
Precedes(x, y) ==
  \/ x = "find"    /\ y \in {"insert", "enqueue", "record"}
  \/ x = "insert"  /\ y \in {"enqueue", "record"}
  \/ x = "enqueue" /\ y = "record"
  \/ x = "read"    /\ y \in {"requeue", "get", "begin", "execute", "store"} \cup Enders
  \/ x = "requeue" /\ y \in {"get", "begin", "execute", "store"} \cup Enders
  \/ x = "get"     /\ y \in {"begin", "execute", "store"} \cup Enders
  \/ x = "begin"   /\ y \in {"execute", "store"} \cup Enders
  \/ x = "execute" /\ y \in {"store"} \cup Enders
  \/ x = "bury"    /\ y \in {"store"} \cup Enders
  \/ x = "store"   /\ y \in Enders
  \/ x = "return"  /\ y = "mark"

\* The steps that are never the last ones, and what comes next.
Before == {"find", "read", "requeue", "get", "begin", "execute", "bury", "return"}
Follows(x, y) ==
  \/ x = "find"    /\ y = "insert"
  \/ x = "read"    /\ y = "requeue"
  \/ x = "requeue" /\ y = "get"
  \/ x = "get"     /\ y = "begin"
  \/ x = "begin"   /\ y = "execute"
  \/ x \in {"execute", "bury"} /\ y = "store"
  \/ x = "return"  /\ y = "mark"

Shape(td) ==
  /\ td \in Seq(Steps)
  /\ \A i, j \in 1..Len(td) : i < j => Precedes(td[i], td[j])
  /\ \A i \in 1..Len(td) :
       td[i] \in Before => i < Len(td) /\ Follows(td[i], td[i + 1])

\* The steps of a thread that runs a job.
JobSteps == {"return", "mark", "refuse"}

Procs == [todo : Seq(Steps), sub : Submissions \cup {NoSub}, row : Rows,
          job : Jobs \cup {NoJob}, claim : Nat, key : IdemKeys \cup {NoKey}]

\* What a thread holds fits the steps it has left.
Sane(p) ==
  /\ p \in Procs /\ Shape(p.todo)
  /\ p.todo = <<>> => p = Idle
  /\ p.job # NoJob <=> Range(p.todo) \cap JobSteps # {}
  /\ p.job # NoJob => p.job[1] = p.sub
  /\ p.todo # <<>> /\ Head(p.todo) \notin {"find", "insert", "fail"} => p.sub # NoSub
  /\ p.key # NoKey /\ Range(p.todo) \cap {"find", "insert"} # {} => "record" \in Range(p.todo)

\* The thread goes on with the same work.
Kept(p, q) == q.sub = p.sub /\ q.job = p.job /\ q.key = p.key /\ q.claim = p.claim

\* The types of the tables and counters, and the threads.
Tables ==
  /\ phase \in [Jobs -> {"absent", "open", "succeeded", "dead_letter"}]
  /\ tries \in [Jobs -> Nat] /\ handled \subseteq Jobs
  /\ idem \in [IdemKeys -> [status : {"none", "failed", "succeeded"}, sub : Submissions \cup {NoSub}]]
  /\ sub \in [Submissions -> Rows]
  /\ dead \in [Submissions -> {"none", "open", "replayed"}]
  /\ executed \in [Submissions -> Nat] /\ again \in [Submissions -> Nat]
  /\ faults \in Nat
Core ==
  /\ Tables /\ proc \in [Threads -> Procs]
  /\ \A t \in Threads : Sane(proc[t])

\* The thread is in the middle of a delivery or of a job, or will still send.
Works(p) == p.job # NoJob \/ Range(p.todo) \cap RowSteps # {}
Sends(p) == Range(p.todo) \cap {"execute", "refuse"} # {}

\* The thread goes from p to q and takes up nothing new.
Continues(p, q) ==
  /\ q.key \in {p.key, NoKey} /\ q.job \in {p.job, NoJob}
  /\ Works(q) => Works(p) /\ q.sub = p.sub
  /\ "insert" \in Range(q.todo) => "insert" \in Range(p.todo)

\* The thread has done the next step of its list.
Advances(p, q) ==
  /\ Range(q.todo) = Range(p.todo) \ {Head(p.todo)}
  /\ \A y \in Range(q.todo) : Precedes(Head(p.todo), y)
  /\ q.todo # <<>> => Kept(p, q)
  /\ Head(p.todo) \in Before => q.todo # <<>> /\ Follows(Head(p.todo), Head(q.todo))

\* A step of thread t, as the others see it.
Moves(t) ==
  /\ proc' \in [Threads -> Procs] /\ Sane(proc'[t])
  /\ \A u \in Threads \ {t} : proc'[u] = proc[u]

\* The bound on submissions leaves room for every creation that runs.
Existing == {s \in Submissions : Exists(s)}
Inserting == {t \in Threads : "insert" \in Range(proc[t].todo)}
RoomLeft == Cardinality(Existing) + Cardinality(Inserting) <= MaxSubmissions

\* What threads, jobs, dead letters and calls name exists, and a thread that
\* is about to save a row has one of the submission it works on.
Carries(p) ==
  p.todo # <<>> /\ Head(p.todo) \in {"requeue", "begin", "execute", "bury", "store"}
Placed ==
  /\ \A t \in Threads : proc[t].sub # NoSub => Exists(proc[t].sub)
  /\ \A t \in Threads :
       Carries(proc[t]) => proc[t].row.status # "none" /\ proc[t].row.key = sub[proc[t].sub].key
  /\ \A j \in Jobs : phase[j] # "absent" => Exists(j[1])
  /\ \A s \in Submissions : dead[s] # "none" \/ executed[s] # 0 => Exists(s)

\* A key no two creations used at once belongs to one creation at a time, and
\* a creation that is about to insert has found no submission with it.
KeysOwned ==
  \A k \in IdemKeys : k \notin overlaps =>
    /\ \A t, u \in Threads : proc[t].key = k /\ proc[u].key = k => t = u
    /\ \A t \in Threads : At(t, "insert") /\ proc[t].key = k => WithKey(k) = {}
    /\ \A r, s \in WithKey(k) : r = s

\* A submission that is not marked as overlapping has one worker.
Alone ==
  \A s \in Submissions : s \notin overlaps =>
    \A t, u \in Threads : WorksOn(t, s) /\ WorksOn(u, s) => t = u

Base == Core /\ RoomLeft /\ Placed /\ KeysOwned /\ Alone

\* A step of t that neither inserts a submission nor begins a creation.
Goes(t) ==
  LET p == proc[t]
      q == proc'[t]
  IN  /\ Moves(t)
      /\ q.key \in {p.key, NoKey}
      /\ "insert" \in Range(q.todo) => "insert" \in Range(p.todo)
      /\ (q.todo # <<>> /\ Head(q.todo) = "insert") => WithKey(q.key) = {}
      /\ q.sub # NoSub => Exists(q.sub)
      /\ Carries(q) => q.row.status # "none" /\ q.row.key = sub[q.sub].key
      /\ Works(q) =>
           \/ Works(p) /\ q.sub = p.sub
           \/ q.sub \in overlaps' \/ \A u \in Threads \ {t} : ~WorksOn(u, q.sub)

\* Such a step, or one of no thread: the submissions and their keys stay.
SameRows ==
  \A s \in Submissions :
    (Exists(s)' <=> Exists(s)) /\ (Exists(s) => sub'[s].key = sub[s].key)
Quiet ==
  /\ Tables' /\ SameRows /\ overlaps \subseteq overlaps'
  /\ proc' = proc \/ \E t \in Threads : Goes(t)
  /\ \A j \in Jobs : phase'[j] # "absent" => Exists(j[1])
  /\ \A s \in Submissions : dead'[s] # "none" \/ executed'[s] # 0 => Exists(s)

\* The rows that a thread carries count every call of the adapter; before the
\* call the stored row counts one more.
Counted(p) ==
  LET at(S) == p.todo # <<>> /\ Head(p.todo) \in S
  IN  p.sub \notin overlaps =>
        /\ at({"requeue", "bury", "store"}) => executed[p.sub] <= p.row.attempt
        /\ at({"begin", "execute"}) => executed[p.sub] + 1 <= p.row.attempt
        /\ at({"execute"}) => executed[p.sub] + 1 <= sub[p.sub].attempt
CallsCounted == AttemptsCoverSends /\ \A t \in Threads : Counted(proc[t])

\* Without faults and overlaps a dead letter is open before the row says so, and
\* is closed only while its replay is about to change the row.
Listed(s) ==
  /\ sub[s].status = "dead_letter" =>
       dead[s] = "open" \/ \E t \in Threads : proc[t].sub = s /\ (At(t, "read") \/ At(t, "requeue"))
  /\ \A t \in Threads :
       proc[t].sub = s /\ proc[t].row.status = "dead_letter" =>
         ~At(t, "begin") /\ (At(t, "store") => dead[s] = "open")
LettersListed == \A s \in Submissions : faults = 0 /\ s \notin overlaps => Listed(s)

\* The calls that were made, and the ones that the threads, the waiting jobs and
\* the job that is not there yet may still make, were all asked for.
Senders(s) == {t \in Threads : proc[t].sub = s /\ Sends(proc[t])}
One(b) == IF b THEN 1 ELSE 0
Waiting(j) == phase[j] = "open" /\ ~Held(j)
Pending(s) ==
  Cardinality(Senders(s)) + One(Waiting(<<s, "process">>)) + One(Waiting(<<s, "retry">>))
    + One(phase[<<s, "process">>] = "absent")
SendsBudgeted ==
  \A s \in Submissions : executed[s] + Pending(s) <= 1 + again[s] + faults

-----------------------------------------------------------------------------
(* PROOFS: lists of steps *)

\* The steps of a list are its elements, the first among them.
LEMMA RangeSeq ==
  ASSUME NEW td \in Seq(Steps)
  PROVE  /\ \A i \in 1..Len(td) : td[i] \in Range(td)
         /\ \A x \in Range(td) : x \in Steps /\ \E i \in 1..Len(td) : td[i] = x
         /\ td # <<>> => Head(td) = td[1] /\ Head(td) \in Range(td) /\ Len(td) \in Nat \ {0}
<1>1. td \in [1..Len(td) -> Steps] /\ Len(td) \in Nat
  BY LenProperties
<1>2. td # <<>> => Len(td) \in Nat \ {0}
  BY EmptySeq
<1> QED BY <1>1, <1>2 DEF Range

\* The rest of a well-formed list is well-formed and without the first step,
\* which precedes all of it.
LEMMA TailShape ==
  ASSUME NEW td, Shape(td), td # <<>>
  PROVE  /\ Shape(Tail(td))
         /\ Len(Tail(td)) = Len(td) - 1
         /\ \A i \in 1..Len(Tail(td)) : Tail(td)[i] = td[i + 1]
         /\ Range(Tail(td)) = Range(td) \ {Head(td)}
         /\ \A y \in Range(Tail(td)) : Precedes(Head(td), y)
         /\ Head(td) \in Before => Tail(td) # <<>> /\ Follows(Head(td), Head(Tail(td)))
<1>a. td \in Seq(Steps) BY DEF Shape
<1>1. /\ Tail(td) \in Seq(Steps) /\ Len(td) \in Nat \ {0} /\ Len(Tail(td)) = Len(td) - 1
      /\ \A i \in 1..Len(Tail(td)) : Tail(td)[i] = td[i + 1]
  BY <1>a, HeadTailProperties, EmptySeq
<1>2. Shape(Tail(td))
  BY <1>1 DEF Shape
<1>3. Head(td) = td[1] BY <1>a, RangeSeq
<1>4. \A x \in Range(Tail(td)) : Precedes(Head(td), x) /\ x \in Range(td)
  <2> SUFFICES ASSUME NEW x \in Range(Tail(td)) PROVE Precedes(Head(td), x) /\ x \in Range(td)
    OBVIOUS
  <2>1. PICK i \in 1..Len(Tail(td)) : Tail(td)[i] = x BY <1>1, RangeSeq
  <2>2. i + 1 \in 1..Len(td) /\ 1 \in 1..Len(td) /\ 1 < i + 1 /\ td[i + 1] = x BY <1>1, <2>1
  <2> QED BY <2>2, <1>3, <1>a, RangeSeq DEF Shape
<1>5. ~Precedes(Head(td), Head(td))
  BY DEF Precedes, Enders
<1>6. ASSUME NEW x \in Range(td), x # Head(td) PROVE x \in Range(Tail(td))
  <2>1. PICK i \in 1..Len(td) : td[i] = x BY <1>a, RangeSeq
  <2>2. i # 1 BY <2>1, <1>6, <1>3
  <2>3. i - 1 \in 1..Len(Tail(td)) /\ Tail(td)[i - 1] = td[(i - 1) + 1] BY <1>1, <2>1, <2>2
  <2>4. (i - 1) + 1 = i BY <2>1
  <2> QED BY <2>3, <2>4, <2>1, <1>1, RangeSeq
<1>7. ASSUME Head(td) \in Before PROVE Tail(td) # <<>> /\ Follows(Head(td), Head(Tail(td)))
  <2>1. 1 < Len(td) /\ Follows(td[1], td[2]) BY <1>7, <1>3, <1>1 DEF Shape
  <2>2. Tail(td) # <<>>
    <3>1. Len(Tail(td)) # 0 BY <2>1, <1>1
    <3> QED BY <3>1, EmptySeq
  <2> QED BY <2>1, <2>2, <1>3, <1>1, RangeSeq
<1> QED BY <1>1, <1>2, <1>4, <1>5, <1>6, <1>7

\* A step is put in front of a list.
LEMMA FrontShape ==
  ASSUME NEW td, Shape(td), NEW x \in Steps, \A y \in Range(td) : Precedes(x, y),
         x \in Before => td # <<>> /\ Follows(x, Head(td))
  PROVE  /\ Shape(<<x>> \o td) /\ Range(<<x>> \o td) = Range(td) \cup {x}
         /\ <<x>> \o td # <<>> /\ Head(<<x>> \o td) = x
<1>a. td \in Seq(Steps) BY DEF Shape
<1>b. <<x>> \in Seq(Steps) /\ Len(<<x>>) = 1 /\ <<x>>[1] = x OBVIOUS
<1> DEFINE w == <<x>> \o td
<1>1. /\ w \in Seq(Steps) /\ Len(w) = 1 + Len(td) /\ Len(td) \in Nat
      /\ \A i \in 1..(1 + Len(td)) : w[i] = IF i <= 1 THEN x ELSE td[i - 1]
  <2>1. /\ w \in Seq(Steps) /\ Len(w) = Len(<<x>>) + Len(td)
        /\ \A i \in 1..(Len(<<x>>) + Len(td)) :
             w[i] = IF i <= Len(<<x>>) THEN <<x>>[i] ELSE td[i - Len(<<x>>)]
    BY <1>a, <1>b, ConcatProperties, Zenon
  <2>2. Len(td) \in Nat BY <1>a, LenProperties
  <2> QED BY <2>1, <2>2, <1>b
<1> HIDE DEF w
<1>2. \A i \in 1..Len(td) : Precedes(x, td[i]) BY <1>a, RangeSeq
<1>3. ASSUME NEW i \in 1..Len(w), NEW j \in 1..Len(w), i < j PROVE Precedes(w[i], w[j])
  <2>1. j - 1 \in 1..Len(td) /\ w[j] = td[j - 1] BY <1>1, <1>3
  <2>2. CASE i = 1 BY <2>1, <2>2, <1>1, <1>2
  <2>3. CASE i # 1
    <3>1. i - 1 \in 1..Len(td) /\ w[i] = td[i - 1] /\ i - 1 < j - 1 BY <1>1, <1>3, <2>3
    <3> QED BY <3>1, <2>1 DEF Shape
  <2> QED BY <2>2, <2>3
<1>4. ASSUME NEW i \in 1..Len(w), w[i] \in Before
      PROVE  i < Len(w) /\ Follows(w[i], w[i + 1])
  <2>1. CASE i = 1
    <3>1. w[1] = x /\ td # <<>> /\ Follows(x, Head(td)) BY <1>1, <1>4, <2>1
    <3>2. Len(td) \in Nat \ {0} /\ Head(td) = td[1] BY <3>1, <1>a, RangeSeq
    <3>3. w[2] = td[1] BY <3>2, <1>1
    <3> QED BY <2>1, <3>1, <3>2, <3>3, <1>1
  <2>2. CASE i # 1
    <3>1. i - 1 \in 1..Len(td) /\ w[i] = td[i - 1] BY <1>1, <2>2
    <3>2. i - 1 < Len(td) /\ Follows(td[i - 1], td[(i - 1) + 1]) BY <3>1, <1>4 DEF Shape
    <3>3. i + 1 \in 1..Len(w) /\ w[i + 1] = td[i] /\ (i - 1) + 1 = i BY <3>1, <3>2, <1>1, <2>2
    <3> QED BY <3>1, <3>2, <3>3, <1>1
  <2> QED BY <2>1, <2>2
<1>5. w # <<>> /\ Head(w) = x
  <2>1. w # <<>> BY <1>1
  <2> QED BY <2>1, <1>1, RangeSeq
<1>6. Range(w) = Range(td) \cup {x}
  <2>1. ASSUME NEW y \in Range(w) PROVE y \in Range(td) \cup {x}
    <3>1. PICK i \in 1..Len(w) : w[i] = y BY <1>1, RangeSeq
    <3>2. CASE i = 1 BY <3>1, <3>2, <1>1
    <3>3. CASE i # 1
      <4>1. i - 1 \in 1..Len(td) /\ y = td[i - 1] BY <3>1, <3>3, <1>1
      <4> QED BY <4>1, <1>a, RangeSeq
    <3> QED BY <3>2, <3>3
  <2>2. ASSUME NEW y \in Range(td) PROVE y \in Range(w)
    <3>1. PICK i \in 1..Len(td) : td[i] = y BY <1>a, RangeSeq
    <3>2. i + 1 \in 1..Len(w) /\ w[i + 1] = td[(i + 1) - 1] /\ (i + 1) - 1 = i BY <1>1
    <3> QED BY <3>1, <3>2, <1>1, RangeSeq
  <2>3. x \in Range(w) BY <1>1, <1>5, RangeSeq
  <2> QED BY <2>1, <2>2, <2>3
<1>7. Shape(w) BY <1>1, <1>3, <1>4 DEF Shape
<1> QED BY <1>5, <1>6, <1>7 DEF w

\* A list is its head and its tail.
LEMMA Cons ==
  ASSUME NEW a \in Steps, NEW s \in Seq(Steps), NEW t \in Seq(Steps),
         Len(t) = Len(s) + 1, t[1] = a, \A i \in 1..Len(s) : t[i + 1] = s[i]
  PROVE  t = <<a>> \o s
<1> DEFINE f == <<a>>  w == f \o s
<1>1. f \in Seq(Steps) /\ Len(f) = 1 /\ f[1] = a OBVIOUS
<1>2. Len(s) \in Nat BY LenProperties
<1> HIDE DEF f
<1>3. /\ w \in Seq(Steps) /\ Len(w) = 1 + Len(s)
      /\ \A i \in 1..(1 + Len(s)) : w[i] = IF i <= 1 THEN a ELSE s[i - 1]
  <2>1. /\ w \in Seq(Steps) /\ Len(w) = Len(f) + Len(s)
        /\ \A i \in 1..(Len(f) + Len(s)) :
             w[i] = IF i <= Len(f) THEN f[i] ELSE s[i - Len(f)]
    BY <1>1, ConcatProperties, Zenon
  <2> HIDE DEF w
  <2> QED BY <2>1, <1>1, <1>2
<1> HIDE DEF w
<1>4. ASSUME NEW i \in 1..Len(w) PROVE w[i] = t[i]
  <2>1. CASE i = 1 BY <2>1, <1>3, <1>2
  <2>2. CASE i # 1
    <3>1. i - 1 \in 1..Len(s) /\ (i - 1) + 1 = i BY <2>2, <1>3, <1>2
    <3> QED BY <3>1, <2>2, <1>3, <1>2
  <2> QED BY <2>1, <2>2
<1>5. w = t BY <1>3, <1>4, <1>2, SeqEqual
<1> QED BY <1>5 DEF w, f

\* A list that is appended to moves behind the first step.
LEMMA SplitFront ==
  ASSUME NEW a \in Steps, NEW s \in Seq(Steps), NEW e \in Seq(Steps)
  PROVE  (<<a>> \o s) \o e = <<a>> \o (s \o e) /\ s \o e \in Seq(Steps)
<1>1. <<a>> \in Seq(Steps) OBVIOUS
<1> QED BY <1>1, ConcatAssociative, ConcatProperties

\* The lists with which requests and jobs end.
LEMMA ShortLists ==
  /\ Shape(<<>>) /\ Range(<<>>) = {}
  /\ \A x \in Steps \ Before : Shape(<<x>>) /\ Range(<<x>>) = {x}
  /\ Shape(<<"return", "mark">>) /\ Range(<<"return", "mark">>) = {"return", "mark"}
<1>1. Shape(<<>>) /\ Range(<<>>) = {}
  BY EmptySeq DEF Shape, Range
<1>2. ASSUME NEW x \in Steps \ Before PROVE Shape(<<x>>) /\ Range(<<x>>) = {x}
  BY DEF Shape, Range
<1>3. Shape(<<"return", "mark">>)
  BY DEF Shape, Steps, Precedes, Follows, Before
<1>4. Range(<<"return", "mark">>) = {"return", "mark"}
  BY DEF Range
<1> QED BY <1>1, <1>2, <1>3, <1>4

\* Processing, and how the request or the job ends, is a well-formed list.
LEMMA ProcessList ==
  ASSUME NEW e, Shape(e), Range(e) \subseteq Enders
  PROVE  /\ Shape(ProcessSteps \o e) /\ ProcessSteps \o e # <<>>
         /\ Head(ProcessSteps \o e) = "get"
         /\ Range(ProcessSteps \o e) = {"get", "begin", "execute", "store"} \cup Range(e)
<1>a. e \in Seq(Steps) BY DEF Shape
<1>b. {"get", "begin", "execute", "store"} \subseteq Steps BY DEF Steps, RowSteps
<1>1. /\ Shape(<<"store">> \o e) /\ Range(<<"store">> \o e) = {"store"} \cup Range(e)
      /\ <<"store">> \o e # <<>> /\ Head(<<"store">> \o e) = "store"
  BY <1>b, FrontShape DEF Precedes, Before
<1> DEFINE u == <<"store">> \o e
<1>2. /\ Shape(<<"execute">> \o u) /\ Range(<<"execute">> \o u) = {"execute", "store"} \cup Range(e)
      /\ <<"execute">> \o u # <<>> /\ Head(<<"execute">> \o u) = "execute"
  <2>1. Shape(u) /\ Range(u) = {"store"} \cup Range(e) /\ u # <<>> /\ Head(u) = "store"
    BY <1>1
  <2> HIDE DEF u
  <2> QED BY <2>1, <1>b, FrontShape DEF Precedes, Follows
<1> DEFINE w == <<"execute">> \o u
<1>3. /\ Shape(<<"begin">> \o w) /\ Range(<<"begin">> \o w) = {"begin", "execute", "store"} \cup Range(e)
      /\ <<"begin">> \o w # <<>> /\ Head(<<"begin">> \o w) = "begin"
  <2>1. Shape(w) /\ Range(w) = {"execute", "store"} \cup Range(e) /\ w # <<>> /\ Head(w) = "execute"
    BY <1>2
  <2> HIDE DEF w
  <2> QED BY <2>1, <1>b, FrontShape DEF Precedes, Follows
<1> DEFINE v == <<"begin">> \o w
<1>4. /\ Shape(<<"get">> \o v) /\ Range(<<"get">> \o v) = {"get", "begin", "execute", "store"} \cup Range(e)
      /\ <<"get">> \o v # <<>> /\ Head(<<"get">> \o v) = "get"
  <2>1. Shape(v) /\ Range(v) = {"begin", "execute", "store"} \cup Range(e) /\ v # <<>> /\ Head(v) = "begin"
    BY <1>3
  <2> HIDE DEF v
  <2> QED BY <2>1, <1>b, FrontShape DEF Precedes, Follows
<1>5. ProcessSteps \o e = <<"get">> \o v
  <2>1. <<"store">> \in Seq(Steps) /\ <<"execute", "store">> \in Seq(Steps)
        /\ <<"begin", "execute", "store">> \in Seq(Steps) /\ ProcessSteps \in Seq(Steps)
    BY <1>b DEF ProcessSteps
  <2>2. ProcessSteps = <<"get">> \o <<"begin", "execute", "store">>
    BY <2>1, <1>b, Cons DEF ProcessSteps
  <2>3. <<"begin", "execute", "store">> = <<"begin">> \o <<"execute", "store">>
    BY <2>1, <1>b, Cons
  <2>4. <<"execute", "store">> = <<"execute">> \o <<"store">>
    BY <2>1, <1>b, Cons
  <2>5. <<"execute", "store">> \o e = w
    BY <2>1, <2>4, <1>a, <1>b, SplitFront
  <2>6. <<"begin", "execute", "store">> \o e = v
    BY <2>1, <2>3, <2>5, <1>a, <1>b, SplitFront
  <2> QED BY <2>1, <2>2, <2>6, <1>a, <1>b, SplitFront
<1> QED BY <1>4, <1>5

\* So is a retry.
LEMMA RetryList ==
  ASSUME NEW e, Shape(e), Range(e) \subseteq Enders
  PROVE  /\ Shape(RetrySteps \o e) /\ RetrySteps \o e # <<>>
         /\ Head(RetrySteps \o e) = "read"
         /\ Range(RetrySteps \o e)
              = {"read", "requeue", "get", "begin", "execute", "store"} \cup Range(e)
<1>a. e \in Seq(Steps) BY DEF Shape
<1>b. {"read", "requeue", "get", "begin", "execute", "store"} \subseteq Steps BY DEF Steps, RowSteps
<1> DEFINE u == ProcessSteps \o e
<1>1. /\ Shape(u) /\ u # <<>> /\ Head(u) = "get"
      /\ Range(u) = {"get", "begin", "execute", "store"} \cup Range(e)
  BY ProcessList
<1>2. /\ Shape(<<"requeue">> \o u)
      /\ Range(<<"requeue">> \o u) = {"requeue", "get", "begin", "execute", "store"} \cup Range(e)
      /\ <<"requeue">> \o u # <<>> /\ Head(<<"requeue">> \o u) = "requeue"
  <2> HIDE DEF u
  <2> QED BY <1>1, <1>b, FrontShape DEF Precedes, Follows
<1> DEFINE w == <<"requeue">> \o u
<1>3. /\ Shape(<<"read">> \o w)
      /\ Range(<<"read">> \o w)
           = {"read", "requeue", "get", "begin", "execute", "store"} \cup Range(e)
      /\ <<"read">> \o w # <<>> /\ Head(<<"read">> \o w) = "read"
  <2>1. /\ Shape(w) /\ w # <<>> /\ Head(w) = "requeue"
        /\ Range(w) = {"requeue", "get", "begin", "execute", "store"} \cup Range(e)
    BY <1>2
  <2> HIDE DEF w
  <2> QED BY <2>1, <1>b, FrontShape DEF Precedes, Follows
<1>4. RetrySteps \o e = <<"read">> \o w
  <2>1. <<"requeue">> \in Seq(Steps) /\ <<"read", "requeue">> \in Seq(Steps)
        /\ ProcessSteps \in Seq(Steps)
    BY <1>b DEF ProcessSteps
  <2>2. <<"read", "requeue">> = <<"read">> \o <<"requeue">>
    BY <2>1, <1>b, Cons
  <2>3. RetrySteps = <<"read">> \o (<<"requeue">> \o ProcessSteps)
        /\ <<"requeue">> \o ProcessSteps \in Seq(Steps)
    BY <2>1, <2>2, <1>b, SplitFront DEF RetrySteps
  <2>4. (<<"requeue">> \o ProcessSteps) \o e = w
    BY <2>1, <1>a, <1>b, SplitFront
  <2> QED BY <2>3, <2>4, <1>a, <1>b, SplitFront
<1> QED BY <1>3, <1>4

\* So is a creation, with or without processing and a key.
LEMMA CreateList ==
  ASSUME NEW a \in {<<>>, <<"enqueue">>}, NEW b \in {<<>>, <<"record">>}
  PROVE  LET w == (<<"find", "insert">> \o a) \o b
         IN  /\ Shape(w) /\ w # <<>> /\ Head(w) = "find"
             /\ Range(w) \subseteq {"find", "insert", "enqueue", "record"}
             /\ "record" \in Range(w) <=> b = <<"record">>
             /\ "insert" \in Range(w)
<1>a. {"find", "insert", "enqueue", "record"} \subseteq Steps BY DEF Steps
<1>b. Shape(b) /\ Range(b) \subseteq {"record"} /\ (b = <<"record">> <=> "record" \in Range(b))
  <2>1. CASE b = <<>> BY <2>1, ShortLists
  <2>2. CASE b = <<"record">> BY <2>2, ShortLists, <1>a DEF Before
  <2> QED BY <2>1, <2>2
<1>c. a \in Seq(Steps) /\ b \in Seq(Steps)
  <2>1. <<>> \in Seq(Steps) /\ <<"enqueue">> \in Seq(Steps) /\ <<"record">> \in Seq(Steps)
    BY <1>a, EmptySeq
  <2> QED BY <2>1, Zenon
<1> DEFINE u == a \o b
<1>1. /\ Shape(u) /\ Range(u) \subseteq {"enqueue", "record"}
      /\ "record" \in Range(u) <=> b = <<"record">>
  <2>1. CASE a = <<>>
    <3>1. u = b BY <2>1, <1>c, ConcatEmptySeq
    <3> HIDE DEF u
    <3> QED BY <3>1, <1>b
  <2>2. CASE a = <<"enqueue">>
    <3>1. Shape(<<"enqueue">> \o b) /\ Range(<<"enqueue">> \o b) = Range(b) \cup {"enqueue"}
      BY <1>a, <1>b, FrontShape DEF Precedes, Before
    <3> QED BY <3>1, <2>2, <1>b
  <2> QED BY <2>1, <2>2
<1> DEFINE v == <<"insert">> \o u
<1>2. /\ Shape(v) /\ Range(v) = Range(u) \cup {"insert"} /\ v # <<>> /\ Head(v) = "insert"
  <2> HIDE DEF u
  <2> QED BY <1>a, <1>1, FrontShape DEF Precedes, Before
<1> DEFINE w == <<"find">> \o v
<1>3. /\ Shape(w) /\ Range(w) = Range(v) \cup {"find"} /\ w # <<>> /\ Head(w) = "find"
  <2> HIDE DEF v
  <2>1. \A y \in Range(v) : Precedes("find", y) BY <1>1, <1>2 DEF Precedes
  <2> QED BY <2>1, <1>a, <1>2, FrontShape DEF Follows
<1>4. (<<"find", "insert">> \o a) \o b = w
  <2>1. <<"insert">> \in Seq(Steps) /\ <<"find", "insert">> \in Seq(Steps) BY <1>a
  <2>2. <<"find", "insert">> = <<"find">> \o <<"insert">> BY <2>1, <1>a, Cons
  <2>3. <<"find", "insert">> \o a = <<"find">> \o (<<"insert">> \o a) /\ <<"insert">> \o a \in Seq(Steps)
    BY <2>1, <2>2, <1>a, <1>c, SplitFront
  <2>4. (<<"find">> \o (<<"insert">> \o a)) \o b = <<"find">> \o ((<<"insert">> \o a) \o b)
    BY <2>3, <1>a, <1>c, SplitFront
  <2>5. (<<"insert">> \o a) \o b = v BY <1>a, <1>c, SplitFront
  <2> QED BY <2>3, <2>4, <2>5
<1>5. "record" \in Range(w) <=> b = <<"record">>
  <2> HIDE DEF u, v, w
  <2> QED BY <1>1, <1>2, <1>3
<1>6. Range(w) \subseteq {"find", "insert", "enqueue", "record"} /\ "insert" \in Range(w)
  <2> HIDE DEF u, v, w
  <2> QED BY <1>1, <1>2, <1>3
<1> QED BY <1>3, <1>4, <1>5, <1>6

\* A submission found invalid: the rest of the list from the store on.
LEMMA BuryList ==
  ASSUME NEW td, Shape(td), td # <<>>, Head(td) = "get"
  PROVE  LET w == <<"bury", "store">> \o SubSeq(td, 5, Len(td))
         IN  /\ Shape(w) /\ w # <<>> /\ Head(w) = "bury"
             /\ Range(w) = (Range(td) \ {"get", "begin", "execute"}) \cup {"bury"}
<1>a. {"bury", "store"} \subseteq Steps BY DEF Steps, RowSteps
<1> DEFINE t1 == Tail(td)  t2 == Tail(t1)  t3 == Tail(t2)  t4 == Tail(t3)
<1>1. /\ Shape(t1) /\ Len(t1) = Len(td) - 1 /\ t1 # <<>> /\ Head(t1) = "begin"
      /\ \A i \in 1..Len(t1) : t1[i] = td[i + 1]
      /\ Range(t1) = Range(td) \ {"get"}
  BY TailShape DEF Before, Follows
<1> HIDE DEF t1
<1>2. /\ Shape(t2) /\ Len(t2) = Len(t1) - 1 /\ t2 # <<>> /\ Head(t2) = "execute"
      /\ \A i \in 1..Len(t2) : t2[i] = t1[i + 1]
      /\ Range(t2) = Range(t1) \ {"begin"}
  BY <1>1, TailShape DEF Before, Follows
<1> HIDE DEF t2
<1>3. /\ Shape(t3) /\ Len(t3) = Len(t2) - 1 /\ t3 # <<>> /\ Head(t3) = "store"
      /\ \A i \in 1..Len(t3) : t3[i] = t2[i + 1]
      /\ Range(t3) = Range(t2) \ {"execute"}
  BY <1>2, TailShape DEF Before, Follows
<1> HIDE DEF t3
<1>4. /\ Shape(t4) /\ Len(t4) = Len(t3) - 1
      /\ \A i \in 1..Len(t4) : t4[i] = t3[i + 1]
      /\ Range(t4) = Range(t3) \ {"store"}
      /\ \A y \in Range(t4) : Precedes("store", y)
  BY <1>3, TailShape
<1> HIDE DEF t4
<1>5. td \in Seq(Steps) /\ t4 \in Seq(Steps) /\ t3 \in Seq(Steps) /\ Len(td) \in Nat /\ Len(t4) \in Nat
  BY <1>3, <1>4, LenProperties DEF Shape
<1>6. SubSeq(td, 5, Len(td)) = t4
  <2>1. \A i \in 5..Len(td) : td[i] \in Steps BY <1>5, ElementOfSeq
  <2>2. /\ SubSeq(td, 5, Len(td)) \in Seq(Steps)
        /\ Len(SubSeq(td, 5, Len(td))) = IF 5 <= Len(td) THEN Len(td) - 5 + 1 ELSE 0
        /\ \A i \in 1..(Len(td) - 5 + 1) : SubSeq(td, 5, Len(td))[i] = td[5 + i - 1]
    BY <2>1, <1>5, SubSeqProperties
  <2>3. Len(SubSeq(td, 5, Len(td))) = Len(t4) BY <2>2, <1>1, <1>2, <1>3, <1>4, <1>5, SMTT(20)
  <2>4. ASSUME NEW i \in 1..Len(t4) PROVE SubSeq(td, 5, Len(td))[i] = t4[i]
    <3>1. Len(t4) = Len(td) - 4 BY <1>1, <1>2, <1>3, <1>4, <1>5
    <3>2. t4[i] = t3[i + 1] BY <1>4
    <3>3. t3[i + 1] = t2[i + 2] /\ t2[i + 2] = t1[i + 3] /\ t1[i + 3] = td[i + 4]
      BY <3>1, <1>1, <1>2, <1>3, <1>4, <1>5
    <3>4. 5 + i - 1 = i + 4 /\ i \in 1..(Len(td) - 5 + 1) BY <3>1, <1>5
    <3> QED BY <3>2, <3>3, <3>4, <2>2
  <2> QED BY <2>2, <2>3, <2>4, <1>5, SeqEqual
<1>7. /\ Shape(<<"store">> \o t4) /\ Range(<<"store">> \o t4) = Range(t3)
      /\ <<"store">> \o t4 # <<>> /\ Head(<<"store">> \o t4) = "store"
  <2>1. "store" \in Range(t3) BY <1>3, <1>5, RangeSeq
  <2>2. /\ Shape(<<"store">> \o t4) /\ Range(<<"store">> \o t4) = Range(t4) \cup {"store"}
        /\ <<"store">> \o t4 # <<>> /\ Head(<<"store">> \o t4) = "store"
    BY <1>a, <1>4, FrontShape DEF Before
  <2>3. Range(t4) \cup {"store"} = Range(t3) BY <2>1, <1>4
  <2> QED BY <2>2, <2>3
<1> DEFINE v == <<"store">> \o t4
<1>8. /\ Shape(<<"bury">> \o v) /\ Range(<<"bury">> \o v) = Range(t3) \cup {"bury"}
      /\ <<"bury">> \o v # <<>> /\ Head(<<"bury">> \o v) = "bury"
  <2>1. Shape(v) /\ Range(v) = Range(t3) /\ v # <<>> /\ Head(v) = "store" BY <1>7
  <2>2. \A y \in Range(t3) : y = "store" \/ Precedes("store", y) BY <1>4
  <2>3. \A y \in Range(t3) : Precedes("bury", y) BY <2>2 DEF Precedes
  <2> HIDE DEF v
  <2> QED BY <2>1, <2>3, <1>a, FrontShape DEF Follows
<1>9. <<"bury", "store">> \o t4 = <<"bury">> \o v
  <2>1. <<"store">> \in Seq(Steps) /\ <<"bury", "store">> \in Seq(Steps) BY <1>a
  <2>2. <<"bury", "store">> = <<"bury">> \o <<"store">> BY <2>1, <1>a, Cons
  <2> QED BY <2>1, <2>2, <1>a, <1>5, SplitFront
<1>10. Range(t3) = Range(td) \ {"get", "begin", "execute"} BY <1>1, <1>2, <1>3
<1> QED BY <1>6, <1>8, <1>9, <1>10

-----------------------------------------------------------------------------
(* PROOFS: the state of a thread *)

\* A row keeps its other fields when its status changes.
LEMMA RowTypes ==
  /\ NoRow \in Rows
  /\ \A r \in Rows, x \in Statuses : [r EXCEPT !.status = x] \in Rows
       /\ [r EXCEPT !.status = x].status = x /\ [r EXCEPT !.status = x].key = r.key
       /\ [r EXCEPT !.status = x].attempt = r.attempt
  /\ \A r \in Rows : r.status \in Statuses /\ r.attempt \in Nat /\ r.key \in IdemKeys \cup {NoKey}
BY DEF Rows, NoRow, Statuses

\* A thread without work.
LEMMA IdleSane ==
  /\ Sane(Idle) /\ Idle.todo = <<>> /\ Idle.sub = NoSub /\ Idle.job = NoJob /\ Idle.key = NoKey
  /\ Idle.row = NoRow /\ Idle.claim = 0
<1>1. /\ Idle.todo = <<>> /\ Idle.sub = NoSub /\ Idle.job = NoJob /\ Idle.key = NoKey
      /\ Idle.row = NoRow /\ Idle.claim = 0
  BY DEF Idle
<1>2. Idle \in Procs
  <2>1. <<>> \in Seq(Steps) BY EmptySeq
  <2> QED BY <2>1, RowTypes DEF Idle, Procs
<1> QED BY <1>1, <1>2, ShortLists DEF Sane

\* The fields of a thread after an EXCEPT.
LEMMA ProcFields ==
  ASSUME NEW p \in Procs
  PROVE  /\ p.todo \in Seq(Steps) /\ p.sub \in Submissions \cup {NoSub} /\ p.row \in Rows
         /\ p.job \in Jobs \cup {NoJob} /\ p.claim \in Nat /\ p.key \in IdemKeys \cup {NoKey}
         /\ \A td \in Seq(Steps) :
              LET q == [p EXCEPT !.todo = td]
              IN  q \in Procs /\ q.todo = td /\ Kept(p, q) /\ q.row = p.row
         /\ \A s \in Submissions :
              LET q == [p EXCEPT !.sub = s]
              IN  /\ q \in Procs /\ q.todo = p.todo /\ q.sub = s /\ q.job = p.job /\ q.key = p.key
                  /\ q.claim = p.claim /\ q.row = p.row
         /\ \A r \in Rows :
              LET q == [p EXCEPT !.row = r]
              IN  q \in Procs /\ q.todo = p.todo /\ Kept(p, q) /\ q.row = r
         /\ \A x \in Statuses :
              LET q == [p EXCEPT !.row.status = x]
              IN  /\ q \in Procs /\ q.todo = p.todo /\ Kept(p, q) /\ q.row.status = x
                  /\ q.row.attempt = p.row.attempt /\ q.row.key = p.row.key
<1>1. /\ p.todo \in Seq(Steps) /\ p.sub \in Submissions \cup {NoSub} /\ p.row \in Rows
      /\ p.job \in Jobs \cup {NoJob} /\ p.claim \in Nat /\ p.key \in IdemKeys \cup {NoKey}
  BY DEF Procs
<1>2. ASSUME NEW td \in Seq(Steps)
      PROVE LET q == [p EXCEPT !.todo = td]
            IN  q \in Procs /\ q.todo = td /\ Kept(p, q) /\ q.row = p.row
  BY DEF Procs, Kept
<1>3. ASSUME NEW s \in Submissions
      PROVE LET q == [p EXCEPT !.sub = s]
            IN  /\ q \in Procs /\ q.todo = p.todo /\ q.sub = s /\ q.job = p.job /\ q.key = p.key
                /\ q.claim = p.claim /\ q.row = p.row
  BY DEF Procs
<1>4. ASSUME NEW r \in Rows
      PROVE LET q == [p EXCEPT !.row = r]
            IN  q \in Procs /\ q.todo = p.todo /\ Kept(p, q) /\ q.row = r
  BY DEF Procs, Kept
<1>5. ASSUME NEW x \in Statuses
      PROVE LET q == [p EXCEPT !.row.status = x]
            IN  /\ q \in Procs /\ q.todo = p.todo /\ Kept(p, q) /\ q.row.status = x
                /\ q.row.attempt = p.row.attempt /\ q.row.key = p.row.key
  <2> DEFINE r == [p.row EXCEPT !.status = x]
  <2>1. r \in Rows /\ r.status = x /\ r.attempt = p.row.attempt /\ r.key = p.row.key
    BY <1>1, RowTypes
  <2>2. [p EXCEPT !.row.status = x] = [p EXCEPT !.row = r]
    BY DEF Procs
  <2> HIDE DEF r
  <2> QED BY <2>1, <2>2, <1>4
<1> QED BY <1>1, <1>2, <1>3, <1>4, <1>5

\* A thread that goes on with other steps keeps the rest.
LEMMA WithFields ==
  ASSUME NEW p \in Procs, NEW td \in Seq(Steps)
  PROVE  /\ With(p, td) \in Procs /\ With(p, td).todo = td
         /\ td = <<>> => With(p, td) = Idle
         /\ td # <<>> => Kept(p, With(p, td)) /\ With(p, td).row = p.row
<1>1. CASE td = <<>>
  BY <1>1, IdleSane DEF With, Sane
<1>2. CASE td # <<>>
  BY <1>2, ProcFields DEF With
<1> QED BY <1>1, <1>2

\* The thread goes on with the next step, or ends.
LEMMA AdvancedSane ==
  ASSUME NEW p, Sane(p), p.todo # <<>>
  PROVE  LET q == Advanced(p)
         IN  /\ q \in Procs /\ q.todo = Tail(p.todo) /\ Shape(q.todo)
             /\ Range(q.todo) = Range(p.todo) \ {Head(p.todo)}
             /\ \A y \in Range(q.todo) : Precedes(Head(p.todo), y)
             /\ q.todo = <<>> => q = Idle
             /\ q.todo # <<>> => Kept(p, q) /\ q.row = p.row
             /\ Head(p.todo) \in Before => q.todo # <<>> /\ Follows(Head(p.todo), Head(q.todo))
             /\ Head(p.todo) # "insert" => Sane(q)
             /\ q.job # NoJob <=> Range(q.todo) \cap JobSteps # {}
<1> DEFINE q == Advanced(p)
<1>0. p \in Procs /\ Shape(p.todo) /\ p.todo \in Seq(Steps) BY ProcFields DEF Sane
<1>1. /\ Shape(Tail(p.todo)) /\ Tail(p.todo) \in Seq(Steps)
      /\ Range(Tail(p.todo)) = Range(p.todo) \ {Head(p.todo)}
      /\ \A y \in Range(Tail(p.todo)) : Precedes(Head(p.todo), y)
      /\ Head(p.todo) \in Before => Tail(p.todo) # <<>> /\ Follows(Head(p.todo), Head(Tail(p.todo)))
  BY <1>0, TailShape DEF Shape
<1>2. /\ q \in Procs /\ q.todo = Tail(p.todo)
      /\ q.todo = <<>> => q = Idle
      /\ q.todo # <<>> => Kept(p, q) /\ q.row = p.row
  BY <1>0, <1>1, WithFields DEF Advanced
<1> HIDE DEF q
<1>3. q.todo # <<>> => Head(q.todo) \in Range(q.todo) /\ Head(p.todo) \in Range(p.todo)
  BY <1>0, <1>1, <1>2, RangeSeq
<1>4. q.job # NoJob <=> Range(q.todo) \cap JobSteps # {}
  <2>1. CASE q.todo = <<>> BY <2>1, <1>2, IdleSane DEF Sane
  <2>2. CASE q.todo # <<>>
    <3>1. q.job = p.job BY <2>2, <1>2 DEF Kept
    <3>2. p.job # NoJob <=> Range(p.todo) \cap JobSteps # {} BY DEF Sane
    <3>3. CASE Head(p.todo) \notin JobSteps BY <3>1, <3>2, <3>3, <1>1, <1>2
    <3>4. CASE Head(p.todo) \in JobSteps
      <4>1. Precedes(Head(p.todo), Head(q.todo)) BY <2>2, <1>1, <1>2, <1>3
      <4>2. Head(q.todo) = "mark" BY <4>1, <3>4 DEF Precedes, JobSteps
      <4> QED BY <4>2, <3>4, <3>1, <3>2, <1>3, <2>2 DEF JobSteps
    <3> QED BY <3>3, <3>4
  <2> QED BY <2>1, <2>2
<1>5. ASSUME Head(p.todo) # "insert" PROVE Sane(q)
  <2>1. CASE q.todo = <<>> BY <2>1, <1>2, IdleSane
  <2>2. CASE q.todo # <<>>
    <3>1. Kept(p, q) BY <2>2, <1>2
    <3>2. q.job # NoJob => q.job[1] = q.sub BY <3>1 DEF Kept, Sane
    <3>3. Precedes(Head(p.todo), Head(q.todo)) BY <2>2, <1>1, <1>2, <1>3
    <3>4. Head(p.todo) = "find" => Head(q.todo) = "insert" BY <1>1, <1>2 DEF Before, Follows
    <3>5. Head(q.todo) \notin {"find", "insert", "fail"} => q.sub # NoSub
      <4>1. Head(p.todo) # "fail" BY <3>3 DEF Precedes
      <4> QED BY <4>1, <3>1, <3>4, <1>5 DEF Kept, Sane
    <3>6. ASSUME q.key # NoKey, Range(q.todo) \cap {"find", "insert"} # {}
          PROVE  "record" \in Range(q.todo)
      <4>1. Head(p.todo) = "find"
        BY <3>6, <1>1, <1>2 DEF Precedes, Enders
      <4>2. p.key # NoKey /\ "find" \in Range(p.todo) BY <3>6, <3>1, <4>1, <1>3, <2>2 DEF Kept
      <4>3. "record" \in Range(p.todo) BY <4>2 DEF Sane
      <4> QED BY <4>1, <4>3, <1>1, <1>2
    <3> QED BY <3>2, <3>5, <3>6, <2>2, <1>1, <1>2, <1>4 DEF Sane
  <2> QED BY <2>1, <2>2
<1> QED BY <1>1, <1>2, <1>4, <1>5 DEF q

\* What is left of a thread after an error.
LEMMA FailingSane ==
  ASSUME NEW p, Sane(p)
  PROVE  LET q == Failing(p)
         IN  /\ Sane(q) /\ (q = Idle \/ Kept(p, q))
             /\ Range(q.todo) \subseteq {"refuse", "fail"}
             /\ q # Idle => q.job = NoJob \/ "refuse" \in Range(q.todo)
             /\ p.job # NoJob => Kept(p, q) /\ Range(q.todo) = {"refuse"}
<1> DEFINE q == Failing(p)
<1>0. p \in Procs BY DEF Sane
<1>1. \A x \in {"refuse", "fail"} : Shape(<<x>>) /\ Range(<<x>>) = {x} /\ <<x>> # <<>> /\ Head(<<x>>) = x
       /\ <<x>> \in Seq(Steps)
  <2> SUFFICES ASSUME NEW x \in {"refuse", "fail"}
               PROVE  Shape(<<x>>) /\ Range(<<x>>) = {x} /\ <<x>> # <<>> /\ Head(<<x>>) = x
                        /\ <<x>> \in Seq(Steps)
    OBVIOUS
  <2>1. x \in Steps \ Before BY DEF Steps, Before
  <2>2. Shape(<<x>>) /\ Range(<<x>>) = {x} BY <2>1, ShortLists
  <2> QED BY <2>2 DEF Shape
<1>2. CASE p.job # NoJob
  <2>1. q = With(p, <<"refuse">>) BY <1>2 DEF Failing
  <2>2. /\ q \in Procs /\ q.todo = <<"refuse">> /\ Kept(p, q)
    BY <2>1, <1>0, <1>1, WithFields
  <2> HIDE DEF q
  <2>3. q.job # NoJob /\ q.job[1] = q.sub /\ q.sub # NoSub
    <3>1. q.job = p.job /\ q.sub = p.sub /\ p.job[1] = p.sub BY <1>2, <2>2 DEF Kept, Sane
    <3>2. p.job \in Jobs BY <1>0, <1>2, ProcFields
    <3>3. p.job[1] \in Submissions BY <3>2 DEF Jobs
    <3> QED BY <3>1, <3>3, <1>2, BoundsAssumption DEF Submissions, NoSub
  <2>4. Sane(q)
    <3>1. Range(q.todo) = {"refuse"} /\ Shape(q.todo) /\ q.todo # <<>> /\ Head(q.todo) = "refuse"
      BY <2>2, <1>1
    <3> QED BY <3>1, <2>2, <2>3 DEF Sane, JobSteps
  <2>5. Range(q.todo) = {"refuse"} BY <2>2, <1>1
  <2> QED BY <2>2, <2>4, <2>5 DEF q
<1>3. CASE p.job = NoJob /\ "record" \in Range(p.todo)
  <2>1. q = With(p, <<"fail">>) BY <1>3 DEF Failing
  <2>2. /\ q \in Procs /\ q.todo = <<"fail">> /\ Kept(p, q)
    BY <2>1, <1>0, <1>1, WithFields
  <2> HIDE DEF q
  <2>3. q.job = NoJob BY <2>2, <1>3 DEF Kept
  <2>4. Range(q.todo) = {"fail"} /\ Shape(q.todo) /\ q.todo # <<>> /\ Head(q.todo) = "fail"
    BY <2>2, <1>1
  <2>5. Sane(q) BY <2>2, <2>3, <2>4 DEF Sane, JobSteps
  <2> QED BY <2>2, <2>3, <2>4, <2>5, <1>3 DEF q
<1>4. CASE p.job = NoJob /\ "record" \notin Range(p.todo)
  <2>1. q = Idle BY <1>4 DEF Failing
  <2>2. Range(Idle.todo) = {} BY IdleSane, ShortLists
  <2> QED BY <2>1, <2>2, <1>4, IdleSane DEF q
<1> QED BY <1>2, <1>3, <1>4

\* One thread steps, and the others stay as they are.
LEMMA Becomes ==
  ASSUME Core, NEW t \in Threads, NEW q, Sane(q), Become(t, q)
  PROVE  Moves(t) /\ proc'[t] = q
BY DEF Core, Sane, Become, Moves

\* What the next step says about the thread and about the rest of its list.
LEMMA HeadFacts ==
  ASSUME NEW p, Sane(p), p.todo # <<>>
  PROVE  /\ p \in Procs /\ Shape(p.todo) /\ Head(p.todo) \in Range(p.todo)
         /\ \A y \in Range(p.todo) : y = Head(p.todo) \/ Precedes(Head(p.todo), y)
         /\ Head(p.todo) \notin {"find", "insert", "fail"} => p.sub \in Submissions
         /\ Head(p.todo) \in JobSteps => p.job \in Jobs
         /\ Head(p.todo) \in {"find", "insert", "enqueue", "record", "fail"} => p.job = NoJob
<1>1. p \in Procs /\ Shape(p.todo) /\ p.todo \in Seq(Steps) /\ Head(p.todo) \in Range(p.todo)
  BY RangeSeq DEF Sane, Shape
<1>2. \A y \in Range(p.todo) : y = Head(p.todo) \/ Precedes(Head(p.todo), y)
  BY <1>1, TailShape
<1>3. Head(p.todo) \notin {"find", "insert", "fail"} => p.sub \in Submissions
  BY <1>1, ProcFields DEF Sane
<1>4. Head(p.todo) \in JobSteps => p.job \in Jobs
  BY <1>1, ProcFields DEF Sane
<1>5. Head(p.todo) \in {"find", "insert", "enqueue", "record", "fail"} => p.job = NoJob
  <2> SUFFICES ASSUME Head(p.todo) \in {"find", "insert", "enqueue", "record", "fail"}
               PROVE  Range(p.todo) \cap JobSteps = {}
    BY DEF Sane
  <2> QED BY <1>2 DEF Precedes, JobSteps
<1> QED BY <1>1, <1>2, <1>3, <1>4, <1>5

\* Every non-empty set of natural numbers has a least element.
LEMMA LeastNatural ==
  ASSUME NEW S, S \subseteq Nat, S # {}
  PROVE  \E n \in S : \A m \in S : n <= m
<1>1. IsWellFoundedOn(OpToRel(<, Nat), Nat) BY NatLessThanWellFounded
<1>2. PICK n \in S : \A m \in S : ~(<<m, n>> \in OpToRel(<, Nat))
  BY <1>1, WFMin
<1>3. \A m \in S : ~(m < n) BY <1>2 DEF OpToRel
<1> QED BY <1>3

\* The smallest element of a set of submissions is one of them.
LEMMA LeastSubmission ==
  ASSUME NEW S, S \subseteq Submissions, S # {}
  PROVE  Min(S) \in S
<1>1. S \subseteq Nat BY BoundsAssumption DEF Submissions
<1>2. \E n \in S : \A m \in S : n <= m
  BY <1>1, LeastNatural
<1> QED BY <1>2 DEF Min

\* The submission that is found for a key has that key.
LEMMA KnownIn ==
  ASSUME NEW k, WithKey(k) # {}
  PROVE  Known(k) \in WithKey(k)
<1>1. WithKey(k) \subseteq Submissions BY DEF WithKey
<1> QED BY <1>1, LeastSubmission DEF Known

\* A creation looks up its key: it is about to insert and there is none, or it
\* goes on with the one it has found.
LEMMA DoFind ==
  ASSUME Core, NEW t \in Threads, Find(t)
  PROVE  LET p == proc[t]
             q == proc'[t]
         IN  /\ Moves(t) /\ q.job = NoJob /\ q.key = p.key /\ p.job = NoJob
             /\ Range(q.todo) \subseteq {"insert", "enqueue", "record"}
             /\ "insert" \in Range(p.todo)
             /\ \/ q.todo # <<>> /\ Head(q.todo) = "insert" /\ WithKey(p.key) = {} /\ q.sub = p.sub
                \/ q.sub \in WithKey(p.key) /\ "insert" \notin Range(q.todo)
<1> DEFINE p == proc[t]
<1>0. Sane(p) /\ p.todo # <<>> /\ Head(p.todo) = "find" BY DEF Core, Find, At
<1>1. /\ p \in Procs /\ Shape(p.todo) /\ p.job = NoJob
      /\ \A y \in Range(p.todo) : y = "find" \/ Precedes("find", y)
  BY <1>0, HeadFacts
<1> DEFINE a == Advanced(p)
<1>2. /\ Sane(a) /\ a.todo = Tail(p.todo) /\ Range(a.todo) = Range(p.todo) \ {"find"}
      /\ a.todo # <<>> /\ Head(a.todo) = "insert" /\ Kept(p, a)
  BY <1>0, AdvancedSane DEF Before, Follows
<1>3. Range(a.todo) \subseteq {"insert", "enqueue", "record"} /\ "insert" \in Range(a.todo)
  <2> HIDE DEF a
  <2>1. "insert" \in Range(a.todo) BY <1>2, HeadFacts
  <2> QED BY <2>1, <1>1, <1>2 DEF Precedes
<1>4. CASE Known(p.key) = NoSub /\ Become(t, Advanced(p))
  <2>1. Moves(t) /\ proc'[t] = a BY <1>2, <1>4, Becomes
  <2>2. WithKey(p.key) = {}
    <3> SUFFICES ASSUME WithKey(p.key) # {} PROVE FALSE OBVIOUS
    <3>1. WithKey(p.key) \subseteq Submissions BY DEF WithKey
    <3>2. Known(p.key) \in Submissions BY <3>1, KnownIn
    <3> QED BY <3>2, <1>4, BoundsAssumption DEF Submissions, NoSub
  <2> HIDE DEF a
  <2> QED BY <1>1, <1>2, <1>3, <2>1, <2>2 DEF Kept
<1>5. CASE Known(p.key) # NoSub /\ Become(t, [With(p, Tail(Tail(p.todo))) EXCEPT !.sub = Known(p.key)])
  <2>1. Known(p.key) \in WithKey(p.key) /\ Known(p.key) \in Submissions
    <3>1. WithKey(p.key) # {} BY <1>5 DEF Known
    <3>2. WithKey(p.key) \subseteq Submissions BY DEF WithKey
    <3> QED BY <3>1, <3>2, KnownIn
  <2>2. p.key # NoKey BY <2>1 DEF WithKey
  <2> DEFINE td == Tail(Tail(p.todo))
  <2>3. /\ Shape(td) /\ td \in Seq(Steps) /\ Range(td) = Range(a.todo) \ {"insert"}
    <3> HIDE DEF a
    <3>1. Shape(a.todo) BY <1>2 DEF Sane
    <3> QED BY <1>2, <3>1, TailShape DEF Shape
  <2>4. "record" \in Range(td)
    <3>1. "find" \in Range(p.todo) BY <1>0, HeadFacts
    <3>2. "record" \in Range(p.todo) BY <3>1, <2>2, <1>0 DEF Sane
    <3> HIDE DEF a, td
    <3> QED BY <3>2, <2>3, <1>2
  <2>5. td # <<>> BY <2>4, ShortLists
  <2> DEFINE w == With(p, td)
  <2>6. w \in Procs /\ w.todo = td /\ Kept(p, w) BY <1>1, <2>3, <2>5, WithFields
  <2> DEFINE q == [w EXCEPT !.sub = Known(p.key)]
  <2>7. /\ q \in Procs /\ q.todo = td /\ q.sub = Known(p.key) /\ q.job = NoJob /\ q.key = p.key
    <3> HIDE DEF w
    <3> QED BY <2>1, <2>6, <1>1, ProcFields DEF Kept
  <2>8. Range(td) \subseteq {"enqueue", "record"}
    <3> HIDE DEF a, td
    <3> QED BY <2>3, <1>3
  <2>9. Sane(q)
    <3> HIDE DEF td, w, q
    <3>1. Head(td) \in {"enqueue", "record"} BY <2>3, <2>5, <2>8, RangeSeq
    <3>2. q.sub # NoSub BY <2>7, <1>5
    <3> QED BY <3>1, <3>2, <2>3, <2>5, <2>7, <2>8 DEF Sane, JobSteps
  <2>10. Moves(t) /\ proc'[t] = q BY <2>9, <1>5, Becomes
  <2>11. "insert" \in Range(p.todo) BY <1>2, <1>3
  <2> HIDE DEF td, w, q
  <2> QED BY <2>1, <2>7, <2>8, <2>10, <2>11, <1>1
<1> QED BY <1>4, <1>5 DEF Find

\* The thread has done the next step of its list and keeps its row.
LEMMA DoAdvance ==
  ASSUME Core, NEW t \in Threads, proc[t].todo # <<>>, Head(proc[t].todo) # "insert",
         Become(t, Advanced(proc[t]))
  PROVE  LET p == proc[t]
             q == proc'[t]
         IN  /\ Moves(t) /\ Advances(p, q) /\ Continues(p, q)
             /\ q.todo = <<>> => q = Idle
             /\ q.todo # <<>> => q.row = p.row
             /\ q.todo = <<>> => p.job = NoJob \/ Head(p.todo) \in JobSteps
<1> DEFINE p == proc[t]  q == Advanced(p)
<1>0. Sane(p) /\ p.todo # <<>> BY DEF Core
<1>1. /\ q \in Procs /\ Sane(q) /\ Advances(p, q)
      /\ q.todo = <<>> => q = Idle
      /\ q.todo # <<>> => Kept(p, q) /\ q.row = p.row
  BY <1>0, AdvancedSane DEF Advances
<1>2. Moves(t) /\ proc'[t] = q BY <1>1, Becomes
<1> HIDE DEF q
<1>3. Continues(p, q)
  <2>1. CASE q = Idle
    BY <2>1, IdleSane, ShortLists DEF Continues, Works
  <2>2. CASE q.todo # <<>>
    BY <2>2, <1>1 DEF Continues, Works, Kept, Advances
  <2> QED BY <2>1, <2>2, <1>1
<1>4. q.todo = <<>> => p.job = NoJob \/ Head(p.todo) \in JobSteps
  <2> SUFFICES ASSUME q.todo = <<>>, p.job # NoJob PROVE Head(p.todo) \in JobSteps OBVIOUS
  <2>1. Range(q.todo) = {} BY ShortLists
  <2>2. Range(p.todo) \cap JobSteps # {} BY <1>0 DEF Sane
  <2> QED BY <2>1, <2>2, <1>1 DEF Advances
<1> QED BY <1>1, <1>2, <1>3, <1>4

\* The same, and the thread carries another row.
LEMMA DoRow ==
  ASSUME Core, NEW t \in Threads, proc[t].todo # <<>>, Head(proc[t].todo) \in Before \ {"find"},
         NEW r \in Rows, Become(t, [Advanced(proc[t]) EXCEPT !.row = r])
  PROVE  LET p == proc[t]
             q == proc'[t]
         IN  /\ Moves(t) /\ Advances(p, q) /\ Continues(p, q) /\ q.row = r
<1> DEFINE p == proc[t]  a == Advanced(p)  q == [a EXCEPT !.row = r]
<1>0. Sane(p) /\ p.todo # <<>> /\ Head(p.todo) # "insert" BY DEF Core, Before
<1>1. a \in Procs /\ Sane(a) /\ Advances(p, a) /\ a.todo # <<>> /\ Kept(p, a)
  BY <1>0, AdvancedSane DEF Advances
<1>2. q \in Procs /\ q.todo = a.todo /\ Kept(a, q) /\ q.row = r
  <2> HIDE DEF a
  <2> QED BY <1>1, ProcFields
<1> HIDE DEF a, q
<1>3. Sane(q)
  BY <1>1, <1>2 DEF Sane, Kept
<1>4. Advances(p, q) BY <1>1, <1>2 DEF Advances, Kept
<1>5. Continues(p, q)
  BY <1>1, <1>2 DEF Continues, Works, Kept, Advances
<1>6. Moves(t) /\ proc'[t] = q BY <1>3, Becomes DEF q, a
<1> QED BY <1>2, <1>4, <1>5, <1>6

\* The thread meets an error.
LEMMA DoFailing ==
  ASSUME Core, NEW t \in Threads, Become(t, Failing(proc[t]))
  PROVE  LET p == proc[t]
             q == proc'[t]
         IN  /\ Moves(t) /\ Continues(p, q) /\ (q = Idle \/ Kept(p, q))
             /\ q.todo # <<>> => Head(q.todo) \in {"refuse", "fail"}
             /\ Range(q.todo) \subseteq {"refuse", "fail"}
             /\ q.job = p.job
<1> DEFINE p == proc[t]  q == Failing(p)
<1>0. Sane(p) BY DEF Core
<1>1. /\ Sane(q) /\ (q = Idle \/ Kept(p, q))
      /\ Range(q.todo) \subseteq {"refuse", "fail"}
      /\ p.job # NoJob => Kept(p, q)
  BY <1>0, FailingSane
<1> HIDE DEF q
<1>2. q.job = p.job BY <1>1, IdleSane DEF Kept
<1>3. Continues(p, q)
  BY <1>1, <1>2, IdleSane, ShortLists DEF Continues, Works, Kept, RowSteps
<1>4. q.todo # <<>> => Head(q.todo) \in {"refuse", "fail"}
  BY <1>1, HeadFacts
<1>5. Moves(t) /\ proc'[t] = q BY <1>1, Becomes DEF q
<1> QED BY <1>1, <1>2, <1>3, <1>4, <1>5

\* The thread ends.
LEMMA DoIdle ==
  ASSUME Core, NEW t \in Threads, Become(t, Idle)
  PROVE  /\ Moves(t) /\ proc'[t] = Idle /\ Continues(proc[t], proc'[t])
         /\ Range(proc'[t].todo) = {} /\ ~Works(Idle) /\ ~Sends(Idle)
<1>1. Moves(t) /\ proc'[t] = Idle BY IdleSane, Becomes
<1>2. Range(Idle.todo) = {} BY IdleSane, ShortLists
<1> QED BY <1>1, <1>2, IdleSane DEF Continues, Works, Sends

\* A creation finds a row that is free.
LEMMA DoInsert ==
  ASSUME Core, RoomLeft, NEW t \in Threads, Insert(t)
  PROVE  LET p == proc[t]
             q == proc'[t]
         IN  /\ Moves(t) /\ Continues(p, q) /\ p.job = NoJob /\ q.job = NoJob
             /\ p.todo # <<>> /\ Head(p.todo) = "insert" /\ "insert" \in Range(p.todo)
             /\ Range(q.todo) \subseteq {"enqueue", "record"}
             /\ q.todo # <<>> => Head(q.todo) \in {"enqueue", "record"}
             /\ \E s \in Submissions :
                  /\ ~Exists(s) /\ (q = Idle \/ q.sub = s)
                  /\ sub' = [sub EXCEPT ![s] = [status |-> "queued", attempt |-> 0, key |-> p.key]]
<1> DEFINE p == proc[t]  a == Advanced(p)  s == Min({i \in Submissions : ~Exists(i)})
<1>0. Sane(p) /\ p.todo # <<>> /\ Head(p.todo) = "insert" BY DEF Core, Insert, At
<1>1. /\ p \in Procs /\ Shape(p.todo) /\ p.job = NoJob /\ "insert" \in Range(p.todo)
      /\ \A y \in Range(p.todo) : y = "insert" \/ Precedes("insert", y)
  BY <1>0, HeadFacts, ZenonT(30)
<1>2. s \in Submissions /\ ~Exists(s)
  <2>1. {i \in Submissions : ~Exists(i)} # {}
    <3> SUFFICES ASSUME Existing = Submissions PROVE FALSE BY DEF Existing
    <3>1. IsFiniteSet(Inserting) /\ t \in Inserting
      BY <1>1, ThreadsAssumption, FS_Subset DEF Inserting
    <3>2. Cardinality(Inserting) \in Nat /\ Cardinality(Inserting) # 0
      BY <3>1, FS_CardinalityType, FS_EmptySet
    <3>3. Cardinality(Submissions) = MaxSubmissions
      BY FS_Interval, BoundsAssumption DEF Submissions
    <3> QED BY <3>2, <3>3, BoundsAssumption DEF RoomLeft
  <2>2. s \in {i \in Submissions : ~Exists(i)} BY <2>1, LeastSubmission
  <2> QED BY <2>2
<1> HIDE DEF s
<1>3. /\ a \in Procs /\ a.todo = Tail(p.todo) /\ Shape(a.todo)
      /\ Range(a.todo) = Range(p.todo) \ {"insert"}
      /\ \A y \in Range(a.todo) : Precedes("insert", y)
      /\ a.todo = <<>> => a = Idle
      /\ a.todo # <<>> => Kept(p, a)
  <2> HIDE DEF p
  <2> QED BY <1>0, AdvancedSane, SMTT(20)
<1>4. Range(a.todo) \subseteq {"enqueue", "record"} BY <1>3 DEF Precedes
<1> DEFINE q == [a EXCEPT !.sub = s]
<1>5. CASE Len(p.todo) = 1
  <2>1. Become(t, Idle) BY <1>5 DEF Insert
  <2>2. /\ Moves(t) /\ proc'[t] = Idle /\ Continues(p, proc'[t]) /\ Range(proc'[t].todo) = {}
    BY <2>1, DoIdle
  <2> QED BY <2>2, <1>0, <1>1, <1>2, IdleSane DEF Insert, s
<1>6. CASE Len(p.todo) # 1
  <2>1. a.todo # <<>>
    <3>1. Len(Tail(p.todo)) = Len(p.todo) - 1 BY <1>0, <1>1, TailShape
    <3>2. Len(p.todo) \in Nat BY <1>1, LenProperties DEF Shape
    <3>3. Len(a.todo) # 0 BY <3>1, <3>2, <1>3, <1>6
    <3> QED BY <3>3, EmptySeq
  <2>2. /\ q \in Procs /\ q.todo = a.todo /\ q.sub = s /\ q.job = NoJob /\ q.key = p.key
    <3>1. a.job = NoJob /\ a.key = p.key BY <2>1, <1>1, <1>3 DEF Kept
    <3> HIDE DEF a
    <3> QED BY <3>1, <1>2, <1>3, ProcFields
  <2>3. Become(t, q) BY <1>6 DEF Insert, s
  <2> HIDE DEF a, q
  <2>4. q.sub # NoSub BY <2>2, <1>2, BoundsAssumption DEF Submissions, NoSub
  <2>5. Head(q.todo) \in {"enqueue", "record"}
    <3>1. Head(a.todo) \in Range(a.todo) BY <2>1, <1>3, RangeSeq DEF Shape
    <3> QED BY <3>1, <2>2, <1>4
  <2>6. Sane(q) BY <2>1, <2>2, <2>4, <2>5, <1>3, <1>4 DEF Sane, JobSteps
  <2>7. Continues(p, q) BY <2>2, <1>1, <1>4 DEF Continues, Works, RowSteps
  <2>8. Moves(t) /\ proc'[t] = q BY <2>3, <2>6, Becomes
  <2> QED BY <2>2, <2>5, <2>7, <2>8, <1>0, <1>1, <1>2, <1>4 DEF Insert, s
<1> QED BY <1>5, <1>6

\* The row of a delivery that is to begin, or was found invalid.
LEMMA GetRow ==
  ASSUME NEW r \in Rows
  PROVE  LET w == [r EXCEPT !.status = "processing", !.attempt = @ + 1]
             v == [w EXCEPT !.status = "dead_letter"]
         IN  /\ w \in Rows /\ w.status = "processing" /\ w.attempt = r.attempt + 1 /\ w.key = r.key
             /\ v \in Rows /\ v.status = "dead_letter" /\ v.attempt = r.attempt + 1 /\ v.key = r.key
<1> DEFINE w == [r EXCEPT !.status = "processing", !.attempt = @ + 1]
<1> DEFINE u == [r EXCEPT !.status = "processing"]  z == [u EXCEPT !.attempt = r.attempt + 1]
<1>1. w \in Rows /\ w.status = "processing" /\ w.attempt = r.attempt + 1 /\ w.key = r.key
  <2>1. "processing" \in Statuses BY DEF Statuses
  <2>2. u \in Rows /\ u.status = "processing" /\ u.attempt = r.attempt /\ u.key = r.key
    BY <2>1, RowTypes
  <2>3. w = z BY <2>2
  <2> HIDE DEF u, w
  <2>4. z \in Rows /\ z.status = u.status /\ z.attempt = r.attempt + 1 /\ z.key = u.key
    BY <2>2 DEF Rows
  <2> QED BY <2>2, <2>3, <2>4
<1> HIDE DEF w
<1>2. "dead_letter" \in Statuses BY DEF Statuses
<1> QED BY <1>1, <1>2, RowTypes DEF w

\* The preflight finds the submission invalid or lets it pass.
LEMMA DoGet ==
  ASSUME Core, NEW t \in Threads, Get(t)
  PROVE  LET p == proc[t]
             q == proc'[t]
         IN  /\ Moves(t) /\ Continues(p, q) /\ Kept(p, q) /\ p.sub \in Submissions
             /\ p.todo # <<>> /\ Head(p.todo) = "get" /\ q.todo # <<>>
             /\ q.row.attempt = sub[p.sub].attempt + 1 /\ q.row.key = sub[p.sub].key
             /\ \/ /\ Head(q.todo) = "begin" /\ q.row.status = "processing"
                   /\ Range(q.todo) = Range(p.todo) \ {"get"}
                \/ /\ Head(q.todo) = "bury" /\ q.row.status = "dead_letter"
                   /\ Range(q.todo) = (Range(p.todo) \ {"get", "begin", "execute"}) \cup {"bury"}
<1> DEFINE p == proc[t]
           row == [sub[p.sub] EXCEPT !.status = "processing", !.attempt = @ + 1]
           buried == [row EXCEPT !.status = "dead_letter"]
           td == <<"bury", "store">> \o SubSeq(p.todo, 5, Len(p.todo))
<1>0. Sane(p) /\ p.todo # <<>> /\ Head(p.todo) = "get" BY DEF Core, Get, At
<1>1. p \in Procs /\ Shape(p.todo) /\ "get" \in Range(p.todo) /\ p.sub \in Submissions
  BY <1>0, HeadFacts
<1>2. /\ row \in Rows /\ row.status = "processing" /\ row.attempt = sub[p.sub].attempt + 1
      /\ row.key = sub[p.sub].key
      /\ buried \in Rows /\ buried.status = "dead_letter"
      /\ buried.attempt = sub[p.sub].attempt + 1 /\ buried.key = sub[p.sub].key
  <2>1. sub[p.sub] \in Rows BY <1>1 DEF Core, Tables
  <2> QED BY <2>1, GetRow
<1>3. CASE Become(t, [Advanced(p) EXCEPT !.row = row])
  <2> HIDE DEF row
  <2>1. Moves(t) /\ Advances(p, proc'[t]) /\ Continues(p, proc'[t]) /\ proc'[t].row = row
    BY <1>0, <1>2, <1>3, DoRow DEF Before
  <2> QED BY <2>1, <1>0, <1>1, <1>2 DEF Advances, Before, Follows
<1>4. CASE Become(t, [With(p, td) EXCEPT !.row = buried])
  <2>1. /\ Shape(td) /\ td # <<>> /\ Head(td) = "bury"
        /\ Range(td) = (Range(p.todo) \ {"get", "begin", "execute"}) \cup {"bury"}
    BY <1>0, <1>1, BuryList
  <2> DEFINE w == With(p, td)  q == [w EXCEPT !.row = buried]
  <2> HIDE DEF td, buried
  <2>2. w \in Procs /\ w.todo = td /\ Kept(p, w) BY <2>1, <1>1, WithFields DEF Shape
  <2> HIDE DEF w
  <2>3. q \in Procs /\ q.todo = td /\ Kept(w, q) /\ q.row = buried BY <2>2, <1>2, ProcFields
  <2> HIDE DEF q
  <2>4. Kept(p, q) BY <2>2, <2>3 DEF Kept
  <2>5. Sane(q)
    <3>1. q.job = p.job /\ q.sub = p.sub /\ p.sub # NoSub
      BY <2>4, <1>1, BoundsAssumption DEF Kept, Submissions, NoSub
    <3>2. Range(td) \cap JobSteps = Range(p.todo) \cap JobSteps BY <2>1 DEF JobSteps
    <3>3. Range(td) \cap {"find", "insert"} = {}
      <4>1. \A y \in Range(p.todo) : y = "get" \/ Precedes("get", y) BY <1>0, HeadFacts
      <4> QED BY <4>1, <2>1 DEF Precedes, Enders
    <3> QED BY <3>1, <3>2, <3>3, <2>1, <2>3, <1>0 DEF Sane
  <2>6. Continues(p, q)
    <3>1. Works(p) BY <1>1 DEF Works, RowSteps
    <3> QED BY <3>1, <2>1, <2>3, <2>4 DEF Continues, Kept
  <2>7. Moves(t) /\ proc'[t] = q BY <2>5, <1>4, Becomes DEF q, w
  <2> QED BY <2>1, <2>3, <2>4, <2>6, <2>7, <1>0, <1>1, <1>2
<1> QED BY <1>3, <1>4 DEF Get

\* The adapter has answered.
LEMMA DoExecute ==
  ASSUME Core, NEW t \in Threads, Execute(t)
  PROVE  LET p == proc[t]
             q == proc'[t]
         IN  /\ Moves(t) /\ Continues(p, q) /\ Kept(p, q) /\ p.sub \in Submissions
             /\ p.todo # <<>> /\ Head(p.todo) = "execute" /\ "execute" \in Range(p.todo)
             /\ q.todo # <<>> /\ Range(q.todo) \subseteq {"bury", "store"} \cup Enders
             /\ q.row.attempt = p.row.attempt /\ q.row.key = p.row.key /\ q.row.status # "none"
             /\ \/ Head(q.todo) = "store" /\ q.row.status # "dead_letter"
                \/ Head(q.todo) = "bury"
<1> DEFINE p == proc[t]
<1>0. Sane(p) /\ p.todo # <<>> /\ Head(p.todo) = "execute" BY DEF Core, Execute, At
<1>1. p \in Procs /\ Shape(p.todo) /\ "execute" \in Range(p.todo) /\ p.sub \in Submissions
  BY <1>0, HeadFacts
<1>2. PICK outcome \in Outcomes : Become(t, Answered(p, outcome)) BY DEF Execute
<1> DEFINE status == StatusAfter(outcome, p.row.attempt)
           rest == IF status = "dead_letter" THEN <<"bury">> \o Tail(p.todo) ELSE Tail(p.todo)
           w == With(p, rest)
           q == [w EXCEPT !.row.status = status]
<1>3. status \in {"succeeded", "failed", "dead_letter"} BY DEF StatusAfter
<1>4. Become(t, q) BY <1>2 DEF Answered
<1> HIDE DEF status
<1>5. /\ Shape(Tail(p.todo)) /\ Tail(p.todo) # <<>> /\ Head(Tail(p.todo)) = "store"
      /\ Range(Tail(p.todo)) = Range(p.todo) \ {"execute"}
      /\ \A y \in Range(Tail(p.todo)) : Precedes("execute", y)
  BY <1>0, <1>1, TailShape, SMTT(20) DEF Before, Follows
<1>6. /\ Shape(<<"bury">> \o Tail(p.todo)) /\ <<"bury">> \o Tail(p.todo) # <<>>
      /\ Head(<<"bury">> \o Tail(p.todo)) = "bury"
      /\ Range(<<"bury">> \o Tail(p.todo)) = Range(Tail(p.todo)) \cup {"bury"}
  <2>1. \A y \in Range(Tail(p.todo)) : Precedes("bury", y) BY <1>5 DEF Precedes
  <2>2. "bury" \in Steps BY DEF Steps, RowSteps
  <2> QED BY <1>5, <2>1, <2>2, FrontShape DEF Follows
<1>7. /\ Shape(rest) /\ rest # <<>>
      /\ status = "dead_letter" => Head(rest) = "bury"
      /\ status # "dead_letter" => Head(rest) = "store"
      /\ Range(rest) \in {Range(Tail(p.todo)), Range(Tail(p.todo)) \cup {"bury"}}
  BY <1>5, <1>6
<1> HIDE DEF rest
<1>8. Range(rest) \subseteq {"bury", "store"} \cup Enders
  BY <1>5, <1>7 DEF Precedes
<1>9. w \in Procs /\ w.todo = rest /\ Kept(p, w) /\ w.row = p.row BY <1>1, <1>7, WithFields DEF Shape
<1> HIDE DEF w
<1>10. /\ q \in Procs /\ q.todo = rest /\ Kept(w, q) /\ q.row.status = status
       /\ q.row.attempt = p.row.attempt /\ q.row.key = p.row.key
  <2>1. status \in Statuses BY <1>3 DEF Statuses
  <2> QED BY <2>1, <1>9, ProcFields
<1> HIDE DEF q
<1>11. Kept(p, q) BY <1>9, <1>10 DEF Kept
<1>12. Sane(q)
  <2>1. q.job = p.job /\ q.sub = p.sub /\ p.sub # NoSub
    BY <1>11, <1>1, BoundsAssumption DEF Kept, Submissions, NoSub
  <2>2. Range(rest) \cap JobSteps = Range(p.todo) \cap JobSteps BY <1>5, <1>7 DEF JobSteps
  <2>3. Range(rest) \cap {"find", "insert"} = {} BY <1>8 DEF Enders
  <2> QED BY <2>1, <2>2, <2>3, <1>7, <1>10, <1>0 DEF Sane
<1>13. Continues(p, q)
  <2>1. Works(p) BY <1>1 DEF Works, RowSteps
  <2> QED BY <2>1, <1>8, <1>10, <1>11 DEF Continues, Kept, Enders
<1>14. Moves(t) /\ proc'[t] = q BY <1>4, <1>12, Becomes DEF q
<1> QED BY <1>0, <1>1, <1>3, <1>7, <1>8, <1>10, <1>11, <1>13, <1>14

\* The state of a thread that takes up a creation.
LEMMA TakesUpKey ==
  ASSUME NEW p \in Procs, NEW td \in Seq(Steps), NEW k \in IdemKeys \cup {NoKey}
  PROVE  LET q == [p EXCEPT !.key = k, !.todo = td]
         IN  q \in Procs /\ q.todo = td /\ q.key = k /\ q.sub = p.sub /\ q.job = p.job
BY DEF Procs

\* A creation begins.
LEMMA DoCreate ==
  ASSUME Core, NEW t \in Threads, NEW k \in IdemKeys \cup {NoKey}, NEW now \in BOOLEAN,
         Create(t, k, now)
  PROVE  LET q == proc'[t]
         IN  /\ Moves(t) /\ proc[t] = Idle /\ q.key = k /\ q.sub = NoSub /\ q.job = NoJob
             /\ ~Works(q) /\ ~Sends(q) /\ "insert" \in Range(q.todo)
             /\ q.todo # <<>> /\ Head(q.todo) = "find"
<1> DEFINE a == IF now THEN <<"enqueue">> ELSE <<>>
           b == IF k # NoKey THEN <<"record">> ELSE <<>>
           td == <<"find", "insert">> \o a \o b
           q == [Idle EXCEPT !.key = k, !.todo = td]
<1>1. a \in {<<>>, <<"enqueue">>} /\ b \in {<<>>, <<"record">>} OBVIOUS
<1>2. b = <<"record">> <=> k # NoKey
  <2>1. <<"record">> # <<>> OBVIOUS
  <2> QED BY <2>1
<1> HIDE DEF a, b
<1>3. /\ Shape(td) /\ td # <<>> /\ Head(td) = "find"
      /\ Range(td) \subseteq {"find", "insert", "enqueue", "record"}
      /\ "record" \in Range(td) <=> b = <<"record">>
      /\ "insert" \in Range(td)
  BY <1>1, CreateList
<1> HIDE DEF td
<1>4. /\ q \in Procs /\ q.todo = td /\ q.key = k /\ q.sub = NoSub /\ q.job = NoJob
  <2>1. Idle \in Procs /\ td \in Seq(Steps) BY <1>3, IdleSane DEF Sane, Shape
  <2>2. q \in Procs /\ q.todo = td /\ q.key = k /\ q.sub = Idle.sub /\ q.job = Idle.job
    BY <2>1, TakesUpKey, Zenon
  <2> QED BY <2>2, IdleSane
<1>5. Become(t, q) /\ proc[t] = Idle BY DEF Create, td, a, b
<1> HIDE DEF q
<1>6. Range(q.todo) \cap JobSteps = {} /\ Range(q.todo) \cap RowSteps = {} /\ ~Sends(q)
  BY <1>3, <1>4 DEF JobSteps, RowSteps, Sends
<1>7. Sane(q) BY <1>2, <1>3, <1>4, <1>6 DEF Sane
<1>8. Moves(t) /\ proc'[t] = q BY <1>5, <1>7, Becomes
<1> QED BY <1>3, <1>4, <1>5, <1>6, <1>8 DEF Works

\* The lists of steps of requests and of jobs.
LEMMA StartLists ==
  ASSUME NEW kind \in Kinds, NEW e \in {<<>>, <<"return", "mark">>}
  PROVE  LET td == StepsOf(kind) \o e
         IN  /\ Shape(td) /\ td # <<>> /\ Head(td) \in {"get", "read"}
             /\ "execute" \in Range(td) /\ "insert" \notin Range(td) /\ "find" \notin Range(td)
             /\ Range(td) \cap JobSteps # {} <=> e # <<>>
             /\ e = <<>> => td = StepsOf(kind)
<1>1. Shape(e) /\ Range(e) \subseteq {"return", "mark"} /\ (Range(e) \cap JobSteps # {} <=> e # <<>>)
  <2>1. CASE e = <<>> BY <2>1, ShortLists
  <2>2. CASE e = <<"return", "mark">>
    <3>1. <<"return", "mark">> # <<>> OBVIOUS
    <3> QED BY <3>1, <2>2, ShortLists DEF JobSteps
  <2> QED BY <2>1, <2>2
<1>2. Range(e) \subseteq Enders BY <1>1 DEF Enders
<1>3. CASE kind = "process"
  <2> DEFINE td == ProcessSteps \o e
  <2>1. /\ Shape(td) /\ td # <<>> /\ Head(td) = "get"
        /\ Range(td) = {"get", "begin", "execute", "store"} \cup Range(e)
    BY <1>1, <1>2, ProcessList
  <2>2. e = <<>> => td = ProcessSteps
    <3>1. ProcessSteps \in Seq(Steps) BY DEF ProcessSteps, Steps, RowSteps
    <3> QED BY <3>1, ConcatEmptySeq
  <2>3. StepsOf(kind) = ProcessSteps BY <1>3 DEF StepsOf
  <2> HIDE DEF td
  <2>4. Range(td) \cap JobSteps # {} <=> e # <<>> BY <2>1, <1>1 DEF JobSteps
  <2>5. "execute" \in Range(td) /\ "insert" \notin Range(td) /\ "find" \notin Range(td)
    BY <2>1, <1>1
  <2> QED BY <2>1, <2>2, <2>3, <2>4, <2>5 DEF td
<1>4. CASE kind = "retry"
  <2> DEFINE td == RetrySteps \o e
  <2>1. /\ Shape(td) /\ td # <<>> /\ Head(td) = "read"
        /\ Range(td) = {"read", "requeue", "get", "begin", "execute", "store"} \cup Range(e)
    BY <1>1, <1>2, RetryList
  <2>2. e = <<>> => td = RetrySteps
    <3>1. ProcessSteps \in Seq(Steps) /\ <<"read", "requeue">> \in Seq(Steps)
      BY DEF ProcessSteps, Steps, RowSteps
    <3>2. RetrySteps \in Seq(Steps) BY <3>1, ConcatProperties DEF RetrySteps
    <3> QED BY <3>2, ConcatEmptySeq
  <2>3. StepsOf(kind) = RetrySteps BY <1>4 DEF StepsOf
  <2> HIDE DEF td
  <2>4. Range(td) \cap JobSteps # {} <=> e # <<>> BY <2>1, <1>1 DEF JobSteps
  <2>5. "execute" \in Range(td) /\ "insert" \notin Range(td) /\ "find" \notin Range(td)
    BY <2>1, <1>1
  <2> QED BY <2>1, <2>2, <2>3, <2>4, <2>5 DEF td
<1> QED BY <1>3, <1>4 DEF Kinds

\* A thread that takes up submission s: it works on it and will send it.
Starts(t, s) ==
  LET q == proc'[t]
  IN  /\ Moves(t) /\ proc[t] = Idle /\ q.key = NoKey /\ q.sub = s
      /\ Works(q) /\ Sends(q) /\ "insert" \notin Range(q.todo)
      /\ q.todo # <<>> /\ Head(q.todo) \in {"get", "read"}

\* A request of an operator is done by the handler.
LEMMA DoRequest ==
  ASSUME Core, NEW t \in Threads, NEW s \in Submissions, NEW kind \in Kinds, proc[t] = Idle,
         Become(t, [Idle EXCEPT !.todo = StepsOf(kind), !.sub = s])
  PROVE  Starts(t, s) /\ proc'[t].job = NoJob
           /\ (kind = "retry" => Head(proc'[t].todo) = "read")
<1> DEFINE td == StepsOf(kind)  q == [Idle EXCEPT !.todo = td, !.sub = s]
<1>1. /\ Shape(td) /\ td # <<>> /\ Head(td) \in {"get", "read"}
      /\ "execute" \in Range(td) /\ "insert" \notin Range(td) /\ "find" \notin Range(td)
      /\ Range(td) \cap JobSteps = {}
  BY StartLists
<1>2. kind = "retry" => Head(td) = "read"
  <2> SUFFICES ASSUME kind = "retry" PROVE Head(td) = "read" OBVIOUS
  <2>1. td = RetrySteps BY DEF StepsOf
  <2>2. ProcessSteps \in Seq(Steps) /\ <<"read", "requeue">> \in Seq(Steps)
    BY DEF ProcessSteps, Steps, RowSteps
  <2>3. RetrySteps \in Seq(Steps) BY <2>2, ConcatProperties DEF RetrySteps
  <2>4. RetrySteps \o <<>> = RetrySteps BY <2>3, ConcatEmptySeq
  <2>5. Head(RetrySteps \o <<>>) = "read" BY ShortLists, RetryList DEF Enders
  <2> QED BY <2>1, <2>4, <2>5
<1> HIDE DEF td
<1>3. /\ q \in Procs /\ q.todo = td /\ q.key = NoKey /\ q.sub = s /\ q.job = NoJob
  <2>1. Idle \in Procs /\ td \in Seq(Steps) BY <1>1, IdleSane DEF Sane, Shape
  <2>2. PICK p \in Procs : p = Idle BY <2>1
  <2>3. [p EXCEPT !.todo = td, !.sub = s] = q BY <2>2
  <2> HIDE DEF q
  <2>4. q \in Procs /\ q.todo = td /\ q.key = p.key /\ q.sub = s /\ q.job = p.job
    BY <2>1, <2>3 DEF Procs
  <2> QED BY <2>2, <2>4, IdleSane
<1>4. Become(t, q) BY DEF td
<1> HIDE DEF q
<1>5. s # NoSub BY BoundsAssumption DEF Submissions, NoSub
<1>6. Sane(q) BY <1>1, <1>3, <1>5 DEF Sane
<1>7. Moves(t) /\ proc'[t] = q BY <1>4, <1>6, Becomes
<1>8. Works(q) /\ Sends(q) BY <1>1, <1>3 DEF Works, Sends, RowSteps
<1> QED BY <1>1, <1>2, <1>3, <1>7, <1>8 DEF Starts

\* A worker claims a job.
LEMMA DoClaim ==
  ASSUME Core, NEW t \in Threads, NEW j \in Jobs, Claim(t, j)
  PROVE  Starts(t, j[1]) /\ proc'[t].job = j /\ j[1] \in Submissions
<1> DEFINE e == <<"return", "mark">>  td == StepsOf(j[2]) \o e
           q == [Idle EXCEPT !.todo = td, !.sub = j[1], !.job = j, !.claim = tries[j] + 1]
<1>0. j[1] \in Submissions /\ j[2] \in Kinds /\ j # NoJob /\ tries[j] + 1 \in Nat
  <2>1. j[1] \in Submissions /\ j[2] \in Kinds BY DEF Jobs
  <2>2. tries[j] + 1 \in Nat BY SMTT(20) DEF Core, Tables
  <2>3. j # NoJob BY SMTT(20) DEF Jobs, NoJob
  <2> QED BY <2>1, <2>2, <2>3
<1>1. /\ Shape(td) /\ td # <<>> /\ Head(td) \in {"get", "read"}
      /\ "execute" \in Range(td) /\ "insert" \notin Range(td) /\ "find" \notin Range(td)
      /\ Range(td) \cap JobSteps # {}
  <2>1. e # <<>> OBVIOUS
  <2> HIDE DEF e
  <2> QED BY <2>1, <1>0, StartLists DEF e
<1>2. Become(t, q) /\ proc[t] = Idle BY DEF Claim
<1> HIDE DEF td
<1>3. /\ q \in Procs /\ q.todo = td /\ q.key = NoKey /\ q.sub = j[1] /\ q.job = j
  <2>1. Idle \in Procs /\ td \in Seq(Steps) BY <1>1, IdleSane DEF Sane, Shape
  <2>2. PICK p \in Procs : p = Idle BY <2>1
  <2>3. [p EXCEPT !.todo = td, !.sub = j[1], !.job = j, !.claim = tries[j] + 1] = q BY <2>2
  <2> HIDE DEF q
  <2>4. q \in Procs /\ q.todo = td /\ q.key = p.key /\ q.sub = j[1] /\ q.job = j
    BY <2>1, <2>3, <1>0 DEF Procs
  <2> QED BY <2>2, <2>4, IdleSane
<1> HIDE DEF q
<1>5. j[1] # NoSub BY <1>0, BoundsAssumption DEF Submissions, NoSub
<1>6. Sane(q) BY <1>0, <1>1, <1>3, <1>5 DEF Sane
<1>7. Moves(t) /\ proc'[t] = q BY <1>2, <1>6, Becomes
<1>8. Works(q) /\ Sends(q) BY <1>0, <1>1, <1>3 DEF Works, Sends
<1> QED BY <1>0, <1>1, <1>2, <1>3, <1>7, <1>8 DEF Starts

\* The request processes the submission it has created itself.
LEMMA DoEnqueueFails ==
  ASSUME Core, NEW t \in Threads, EnqueueFails(t)
  PROVE  LET p == proc[t]
             q == proc'[t]
         IN  /\ Moves(t) /\ Kept(p, q) /\ p.job = NoJob /\ p.sub \in Submissions
             /\ Works(q) /\ ~Sends(p) /\ "insert" \notin Range(q.todo)
             /\ q.todo # <<>> /\ Head(q.todo) = "get"
<1> DEFINE p == proc[t]  e == Tail(p.todo)  td == ProcessSteps \o e  q == With(p, td)
<1>0. Sane(p) /\ p.todo # <<>> /\ Head(p.todo) = "enqueue" BY DEF Core, EnqueueFails, At
<1>1. /\ p \in Procs /\ Shape(p.todo) /\ p.job = NoJob /\ p.sub \in Submissions
      /\ \A y \in Range(p.todo) : y = "enqueue" \/ Precedes("enqueue", y)
  BY <1>0, HeadFacts
<1>2. Shape(e) /\ Range(e) \subseteq {"record"}
  <2>1. Shape(e) /\ \A y \in Range(e) : Precedes("enqueue", y) BY <1>0, <1>1, TailShape
  <2> QED BY <2>1 DEF Precedes
<1> HIDE DEF e
<1>3. /\ Shape(td) /\ td # <<>> /\ Head(td) = "get"
      /\ Range(td) = {"get", "begin", "execute", "store"} \cup Range(e)
  <2>1. Range(e) \subseteq Enders BY <1>2 DEF Enders
  <2> QED BY <2>1, <1>2, ProcessList
<1>4. Become(t, q) BY DEF EnqueueFails, e
<1> HIDE DEF td
<1>5. q \in Procs /\ q.todo = td /\ Kept(p, q) BY <1>1, <1>3, WithFields DEF Shape
<1> HIDE DEF q
<1>6. Sane(q)
  <2>1. q.job = NoJob /\ q.sub = p.sub /\ p.sub # NoSub
    BY <1>1, <1>5, BoundsAssumption DEF Kept, Submissions, NoSub
  <2>2. Range(td) \cap JobSteps = {} /\ Range(td) \cap {"find", "insert"} = {}
    BY <1>2, <1>3 DEF JobSteps
  <2> QED BY <2>1, <2>2, <1>3, <1>5 DEF Sane
<1>7. Moves(t) /\ proc'[t] = q BY <1>4, <1>6, Becomes
<1>8. Works(q) /\ ~Sends(p) /\ "insert" \notin Range(q.todo)
  BY <1>1, <1>2, <1>3, <1>5 DEF Works, Sends, RowSteps, Precedes
<1> QED BY <1>1, <1>3, <1>5, <1>7, <1>8

-----------------------------------------------------------------------------
(* PROOFS: what exists, keys and workers *)

\* The quiet steps keep the invariant.
LEMMA QuietBase ==
  ASSUME Base, Quiet
  PROVE  Base'
<1> USE DEF Base
<1>0. /\ proc' \in [Threads -> Procs] /\ \A u \in Threads : Sane(proc'[u])
      /\ \A u \in Threads : proc'[u] = proc[u] \/ Goes(u)
  <2>1. CASE proc' = proc BY <2>1 DEF Core
  <2>2. CASE \E t \in Threads : Goes(t)
    <3>1. PICK t \in Threads : Goes(t) BY <2>2
    <3> QED BY <3>1 DEF Goes, Moves, Core
  <2> QED BY <2>1, <2>2 DEF Quiet
<1>1. Core' BY <1>0 DEF Core, Quiet
<1>2. RoomLeft'
  <2>1. Existing' = Existing BY DEF Existing, Quiet, SameRows
  <2>2. IsFiniteSet(Inserting) BY ThreadsAssumption, FS_Subset DEF Inserting
  <2>3. Inserting' \subseteq Inserting
    <3> SUFFICES ASSUME NEW u \in Threads, "insert" \in Range(proc'[u].todo)
                 PROVE  "insert" \in Range(proc[u].todo)
      BY DEF Inserting
    <3> QED BY <1>0 DEF Goes
  <2>4. Cardinality(Inserting') \in Nat /\ Cardinality(Inserting) \in Nat
        /\ Cardinality(Inserting') <= Cardinality(Inserting)
    BY <2>2, <2>3, FS_Subset, FS_CardinalityType
  <2>5. IsFiniteSet(Existing)
    <3>1. IsFiniteSet(Submissions) BY FS_Interval, BoundsAssumption DEF Submissions
    <3> QED BY <3>1, FS_Subset DEF Existing
  <2>6. Cardinality(Existing) \in Nat BY <2>5, FS_CardinalityType
  <2>7. Cardinality(Existing) + Cardinality(Inserting) <= MaxSubmissions BY DEF RoomLeft
  <2>8. Cardinality(Existing') + Cardinality(Inserting') <= MaxSubmissions
    BY <2>1, <2>4, <2>6, <2>7, BoundsAssumption
  <2> QED BY <2>8 DEF RoomLeft
<1>3. Placed'
  <2>1. ASSUME NEW u \in Threads, proc'[u].sub # NoSub PROVE Exists(proc[u].sub)'
    <3>1. Exists(proc'[u].sub) BY <1>0, <2>1 DEF Goes, Placed
    <3>2. proc'[u].sub \in Submissions BY <1>0, <2>1, ProcFields DEF Sane
    <3> QED BY <3>1, <3>2 DEF Quiet, SameRows, Exists
  <2>2. ASSUME NEW u \in Threads, Carries(proc'[u])
        PROVE  proc'[u].row.status # "none" /\ proc'[u].row.key = sub'[proc'[u].sub].key
    <3>1. proc'[u].row.status # "none" /\ proc'[u].row.key = sub[proc'[u].sub].key
      BY <1>0, <2>2 DEF Goes, Placed
    <3>2. proc'[u].sub \in Submissions BY <1>0, <2>2, HeadFacts DEF Carries
    <3>3. proc'[u].sub # NoSub BY <3>2, BoundsAssumption DEF Submissions, NoSub
    <3>4. Exists(proc'[u].sub) BY <1>0, <3>3 DEF Goes, Placed
    <3> QED BY <3>1, <3>2, <3>4 DEF Quiet, SameRows
  <2>3. ASSUME NEW j \in Jobs, phase'[j] # "absent" PROVE Exists(j[1])'
    <3>1. j[1] \in Submissions BY DEF Jobs
    <3> QED BY <3>1, <2>3 DEF Quiet, SameRows
  <2>4. ASSUME NEW s \in Submissions, dead'[s] # "none" \/ executed'[s] # 0 PROVE Exists(s)'
    BY <2>4 DEF Quiet, SameRows
  <2> QED BY <2>1, <2>2, <2>3, <2>4 DEF Placed, Carries
<1>4. KeysOwned'
  <2> SUFFICES ASSUME NEW k \in IdemKeys, k \notin overlaps'
               PROVE  /\ \A t, u \in Threads : proc'[t].key = k /\ proc'[u].key = k => t = u
                      /\ \A t \in Threads : At(t, "insert")' /\ proc'[t].key = k => WithKey(k)' = {}
                      /\ \A r, s \in WithKey(k)' : r = s
    BY DEF KeysOwned
  <2>1. k \notin overlaps BY DEF Quiet
  <2>2. k # NoKey BY NoKeyAssumption
  <2>3. \A t \in Threads : proc'[t].key = k => proc[t].key = k BY <1>0, <2>2 DEF Goes
  <2>4. WithKey(k)' = WithKey(k) BY DEF WithKey, Quiet, SameRows
  <2>5. \A t \in Threads : At(t, "insert")' /\ proc'[t].key = k => WithKey(k) = {}
    <3> SUFFICES ASSUME NEW t \in Threads, At(t, "insert")', proc'[t].key = k
                 PROVE  WithKey(k) = {}
      OBVIOUS
    <3>1. CASE proc'[t] = proc[t] BY <3>1, <2>1 DEF KeysOwned, At
    <3>2. CASE Goes(t) BY <3>2 DEF Goes, At
    <3> QED BY <3>1, <3>2, <1>0
  <2> QED BY <2>1, <2>3, <2>4, <2>5 DEF KeysOwned
<1>5. Alone'
  <2> SUFFICES ASSUME NEW s \in Submissions, s \notin overlaps', NEW t \in Threads, NEW u \in Threads,
                      WorksOn(t, s)', WorksOn(u, s)', t # u
               PROVE  FALSE
    BY DEF Alone
  <2>1. /\ proc'[t].sub = s /\ Works(proc'[t]) /\ proc'[u].sub = s /\ Works(proc'[u])
        /\ s \notin overlaps
    BY DEF WorksOn, Works, Quiet
  <2>2. ASSUME NEW v \in Threads, proc'[v] = proc[v], v \in {t, u} PROVE WorksOn(v, s)
    BY <2>1, <2>2 DEF WorksOn, Works
  <2>3. CASE proc' = proc BY <2>1, <2>2, <2>3 DEF Alone
  <2>4. ASSUME NEW v \in Threads, Goes(v) PROVE FALSE
    <3>1. \A w \in Threads \ {v} : proc'[w] = proc[w] BY <2>4 DEF Goes, Moves
    <3>2. CASE v \notin {t, u} BY <3>1, <3>2, <2>1, <2>2 DEF Alone
    <3>3. CASE v \in {t, u}
      <4>1. PICK w \in {t, u} : w # v OBVIOUS
      <4>2. WorksOn(w, s) BY <4>1, <3>1, <2>2
      <4>3. ~WorksOn(v, s) BY <4>1, <4>2, <3>3, <2>1 DEF Alone
      <4> QED BY <4>1, <4>2, <4>3, <3>3, <2>1, <2>4 DEF Goes, Works, WorksOn
    <3> QED BY <3>2, <3>3
  <2> QED BY <2>3, <2>4 DEF Quiet
<1> QED BY <1>1, <1>2, <1>3, <1>4, <1>5

\* The numbers of submissions and of creations.
LEMMA Counts ==
  ASSUME Core
  PROVE  /\ IsFiniteSet(Existing) /\ Cardinality(Existing) \in Nat
         /\ IsFiniteSet(Inserting) /\ Cardinality(Inserting) \in Nat
<1>1. IsFiniteSet(Submissions) BY FS_Interval, BoundsAssumption DEF Submissions
<1>2. IsFiniteSet(Existing) BY <1>1, FS_Subset DEF Existing
<1>3. IsFiniteSet(Inserting) BY ThreadsAssumption, FS_Subset DEF Inserting
<1> QED BY <1>2, <1>3, FS_CardinalityType

\* The insert of a creation keeps the invariant.
LEMMA InsertBase ==
  ASSUME Base, NEW t \in Threads, Insert(t)
  PROVE  Base'
<1> DEFINE p == proc[t]  q == proc'[t]
<1>1. /\ Moves(t) /\ Continues(p, q) /\ q.job = NoJob
      /\ p.todo # <<>> /\ Head(p.todo) = "insert" /\ "insert" \in Range(p.todo)
      /\ Range(q.todo) \subseteq {"enqueue", "record"}
      /\ q.todo # <<>> => Head(q.todo) \in {"enqueue", "record"}
  BY DoInsert DEF Base
<1>2. PICK s \in Submissions :
        /\ ~Exists(s) /\ (q = Idle \/ q.sub = s)
        /\ sub' = [sub EXCEPT ![s] = [status |-> "queued", attempt |-> 0, key |-> p.key]]
  BY DoInsert DEF Base
<1>3. UNCHANGED <<queue, idem, dead, executed, ghosts>> BY DEF Insert
<1>c. Core BY DEF Base
<1>4. p.key \in IdemKeys \cup {NoKey} /\ Sane(p) BY ProcFields DEF Base, Core, Sane
<1>5. /\ sub' \in [Submissions -> Rows] /\ sub'[s].status = "queued" /\ sub'[s].key = p.key
      /\ \A r \in Submissions \ {s} : sub'[r] = sub[r]
  BY <1>2, <1>4, <1>c DEF Core, Tables, Rows, Statuses
<1>6. /\ proc' \in [Threads -> Procs] /\ Sane(q)
      /\ \A u \in Threads \ {t} : proc'[u] = proc[u]
  BY <1>1 DEF Moves
<1>7. \A r \in Submissions : Exists(r)' <=> Exists(r) \/ r = s BY <1>5 DEF Exists
<1> HIDE DEF q, p
<1>8. Core'
  BY <1>c, <1>3, <1>5, <1>6 DEF Core, Tables, queue, ghosts, q
<1>9. RoomLeft'
  <2>1. Existing' = Existing \cup {s} /\ s \notin Existing BY <1>2, <1>7 DEF Existing
  <2>2. Inserting' = Inserting \ {t} /\ t \in Inserting
    <3>1. "insert" \notin Range(q.todo) BY <1>1
    <3> QED BY <3>1, <1>1, <1>6 DEF Inserting, q, p
  <2>3. Cardinality(Existing') = Cardinality(Existing) + 1 BY <2>1, <1>c, Counts, FS_AddElement
  <2>4. Cardinality(Inserting') = Cardinality(Inserting) - 1 BY <2>2, <1>c, Counts, FS_RemoveElement
  <2>5. Cardinality(Existing) \in Nat /\ Cardinality(Inserting) \in Nat BY <1>c, Counts
  <2>6. Cardinality(Existing') + Cardinality(Inserting') <= MaxSubmissions
    BY <2>3, <2>4, <2>5, BoundsAssumption DEF Base, RoomLeft
  <2> QED BY <2>6 DEF RoomLeft
<1>10. Placed'
  <2>0. Placed /\ s # NoSub BY BoundsAssumption DEF Base, Submissions, NoSub
  <2>1. ASSUME NEW u \in Threads, proc'[u].sub # NoSub PROVE Exists(proc[u].sub)'
    <3>1. proc'[u].sub \in Submissions BY <2>1, <1>8, ProcFields DEF Core
    <3>2. Exists(proc'[u].sub) \/ proc'[u].sub = s
      <4>1. CASE u = t BY <4>1, <2>1, <1>2, IdleSane DEF q
      <4>2. CASE u # t BY <4>2, <2>0, <2>1, <1>6 DEF Placed
      <4> QED BY <4>1, <4>2
    <3> QED BY <3>1, <3>2, <1>7 DEF Exists
  <2>2. ASSUME NEW u \in Threads, Carries(proc'[u])
        PROVE  proc'[u].row.status # "none" /\ proc'[u].row.key = sub'[proc'[u].sub].key
    <3>1. u # t BY <2>2, <1>1 DEF Carries, q
    <3>2. proc'[u] = proc[u] BY <3>1, <1>6
    <3>3. proc[u].sub \in Submissions BY <3>2, <2>2, <1>c, HeadFacts DEF Carries, Core
    <3>4. proc[u].sub # NoSub BY <3>3, BoundsAssumption DEF Submissions, NoSub
    <3>5. proc[u].sub # s BY <3>4, <2>0, <1>2 DEF Placed
    <3> QED BY <3>2, <3>3, <3>5, <2>0, <2>2, <1>5 DEF Placed
  <2>3. ASSUME NEW j \in Jobs, phase'[j] # "absent" PROVE Exists(j[1])'
    <3>1. j[1] \in Submissions BY DEF Jobs
    <3> QED BY <3>1, <2>0, <2>3, <1>3, <1>7 DEF Placed, queue
  <2>4. ASSUME NEW r \in Submissions, dead'[r] # "none" \/ executed'[r] # 0 PROVE Exists(r)'
    BY <2>0, <2>4, <1>3, <1>7 DEF Placed
  <2> QED BY <2>1, <2>2, <2>3, <2>4 DEF Placed, Carries
<1>11. KeysOwned'
  <2> SUFFICES ASSUME NEW k \in IdemKeys, k \notin overlaps'
               PROVE  /\ \A v, u \in Threads : proc'[v].key = k /\ proc'[u].key = k => v = u
                      /\ \A u \in Threads : At(u, "insert")' /\ proc'[u].key = k => WithKey(k)' = {}
                      /\ \A r, w \in WithKey(k)' : r = w
    BY DEF KeysOwned
  <2>1. /\ k \notin overlaps /\ k # NoKey BY <1>3, NoKeyAssumption DEF ghosts
  <2>2. /\ \A v, u \in Threads : proc[v].key = k /\ proc[u].key = k => v = u
        /\ \A u \in Threads : At(u, "insert") /\ proc[u].key = k => WithKey(k) = {}
        /\ \A r, w \in WithKey(k) : r = w
    BY <2>1 DEF Base, KeysOwned
  <2>3. \A u \in Threads : proc'[u].key = k => proc[u].key = k
    BY <1>1, <1>6, <2>1 DEF Continues, q, p
  <2>4. ~At(t, "insert")' BY <1>1 DEF At, q
  <2>5. \A u \in Threads \ {t} : At(u, "insert")' <=> At(u, "insert") BY <1>6 DEF At
  <2>6. CASE p.key = k
    <3>1. At(t, "insert") BY <1>1 DEF At, p
    <3>2. WithKey(k) = {} BY <3>1, <2>2, <2>6 DEF p
    <3>3. WithKey(k)' \subseteq {s} BY <3>2, <1>5, <1>7 DEF WithKey
    <3>4. \A u \in Threads : proc'[u].key = k => u = t BY <2>2, <2>3, <2>6 DEF p
    <3> QED BY <3>3, <3>4, <2>2, <2>3, <2>4
  <2>7. CASE p.key # k
    <3>1. WithKey(k)' = WithKey(k) BY <2>7, <1>2, <1>5, <1>7 DEF WithKey
    <3> QED BY <3>1, <2>2, <2>3, <2>4, <2>5
  <2> QED BY <2>6, <2>7
<1>12. Alone'
  <2> SUFFICES ASSUME NEW r \in Submissions, r \notin overlaps', NEW v \in Threads, NEW u \in Threads,
                      WorksOn(v, r)', WorksOn(u, r)'
               PROVE  v = u
    BY DEF Alone
  <2>1. ASSUME NEW w \in Threads, WorksOn(w, r)' PROVE WorksOn(w, r)
    <3>1. ~WorksOn(t, r)' BY <1>1 DEF WorksOn, RowSteps, q
    <3> QED BY <3>1, <2>1, <1>6 DEF WorksOn
  <2> QED BY <2>1, <1>3 DEF Alone, Base, ghosts
<1> QED BY <1>8, <1>9, <1>10, <1>11, <1>12 DEF Base

\* The beginning of a creation keeps the invariant.
LEMMA CreateBase ==
  ASSUME Base, NEW t \in Threads, NEW k \in IdemKeys \cup {NoKey}, NEW now \in BOOLEAN,
         Create(t, k, now)
  PROVE  Base'
<1> DEFINE q == proc'[t]
<1>c. Core BY DEF Base
<1>1. /\ Moves(t) /\ proc[t] = Idle /\ q.key = k /\ q.sub = NoSub /\ q.job = NoJob
      /\ ~Works(q) /\ "insert" \in Range(q.todo)
      /\ q.todo # <<>> /\ Head(q.todo) = "find"
  BY <1>c, DoCreate
<1>2. /\ UNCHANGED <<queue, rows, again, unsaved, faults>> /\ Room
      /\ overlaps' = IF k # NoKey /\ \E u \in Threads : proc[u].key = k
                     THEN overlaps \cup {k} ELSE overlaps
  BY DEF Create
<1>3. /\ proc' \in [Threads -> Procs] /\ Sane(q)
      /\ \A u \in Threads \ {t} : proc'[u] = proc[u]
  BY <1>1 DEF Moves
<1> HIDE DEF q
<1>4. /\ \A r \in Submissions : sub'[r] = sub[r] /\ (Exists(r)' <=> Exists(r))
      /\ \A j : WithKey(j)' = WithKey(j)
  BY <1>2 DEF Exists, rows, WithKey
<1>5. Core' BY <1>c, <1>2, <1>3 DEF Core, Tables, queue, rows, q
<1>6. RoomLeft'
  <2>1. Existing' = Existing BY <1>4 DEF Existing
  <2>2. Inserting' = Inserting \cup {t} /\ t \notin Inserting
    <3>1. "insert" \notin Range(proc[t].todo) BY <1>1, IdleSane, ShortLists
    <3> QED BY <3>1, <1>1, <1>3 DEF Inserting, q
  <2>3. Cardinality(Inserting') = Cardinality(Inserting) + 1 BY <2>2, <1>c, Counts, FS_AddElement
  <2>4. Cardinality(Existing) \in Nat /\ Cardinality(Inserting) \in Nat BY <1>c, Counts
  <2>5. Cardinality(Existing) + Cardinality(Inserting) < MaxSubmissions
    BY <1>2 DEF Room, Existing, Inserting
  <2>6. Cardinality(Existing') + Cardinality(Inserting') <= MaxSubmissions
    BY <2>1, <2>3, <2>4, <2>5, BoundsAssumption
  <2> QED BY <2>6 DEF RoomLeft
<1>7. Placed'
  <2>0. Placed BY DEF Base
  <2>1. ASSUME NEW u \in Threads, proc'[u].sub # NoSub PROVE Exists(proc[u].sub)'
    <3>1. u # t /\ proc'[u] = proc[u] BY <2>1, <1>1, <1>3 DEF q
    <3> QED BY <3>1, <2>0, <2>1, <1>2 DEF Placed, Exists, rows
  <2>2. ASSUME NEW u \in Threads, Carries(proc'[u])
        PROVE  proc'[u].row.status # "none" /\ proc'[u].row.key = sub'[proc'[u].sub].key
    <3>1. u # t /\ proc'[u] = proc[u] BY <2>2, <1>1, <1>3 DEF q, Carries
    <3> QED BY <3>1, <2>0, <2>2, <1>2 DEF Placed, rows
  <2>3. ASSUME NEW j \in Jobs, phase'[j] # "absent" PROVE Exists(j[1])'
    BY <2>0, <2>3, <1>2 DEF Placed, queue, rows, Exists
  <2>4. ASSUME NEW r \in Submissions, dead'[r] # "none" \/ executed'[r] # 0 PROVE Exists(r)'
    BY <2>0, <2>4, <1>2, <1>4 DEF Placed, rows
  <2> QED BY <2>1, <2>2, <2>3, <2>4 DEF Placed, Carries
<1>8. KeysOwned'
  <2> SUFFICES ASSUME NEW i \in IdemKeys, i \notin overlaps'
               PROVE  /\ \A v, u \in Threads : proc'[v].key = i /\ proc'[u].key = i => v = u
                      /\ \A u \in Threads : At(u, "insert")' /\ proc'[u].key = i => WithKey(i)' = {}
                      /\ \A r, w \in WithKey(i)' : r = w
    BY DEF KeysOwned
  <2>1. i \notin overlaps /\ i # NoKey BY <1>2, NoKeyAssumption
  <2>2. /\ \A v, u \in Threads : proc[v].key = i /\ proc[u].key = i => v = u
        /\ \A u \in Threads : At(u, "insert") /\ proc[u].key = i => WithKey(i) = {}
        /\ \A r, w \in WithKey(i) : r = w
    BY <2>1 DEF Base, KeysOwned
  <2>3. ~At(t, "insert")' BY <1>1 DEF At, q
  <2>4. \A u \in Threads \ {t} : At(u, "insert")' <=> At(u, "insert") BY <1>3 DEF At
  <2>5. \A v, u \in Threads : proc'[v].key = i /\ proc'[u].key = i => v = u
    <3>1. CASE i = k
      <4>1. \A u \in Threads : proc[u].key # k BY <3>1, <2>1, <1>2
      <4>2. \A u \in Threads : proc'[u].key = i => u = t BY <4>1, <3>1, <1>3
      <4> QED BY <4>2
    <3>2. CASE i # k
      <4>1. \A u \in Threads : proc'[u].key = i => proc[u].key = i BY <3>2, <1>1, <1>3 DEF q
      <4> QED BY <4>1, <2>2
    <3> QED BY <3>1, <3>2
  <2> QED BY <2>2, <2>3, <2>4, <2>5, <1>3, <1>4
<1>9. Alone'
  <2> SUFFICES ASSUME NEW r \in Submissions, r \notin overlaps', NEW v \in Threads, NEW u \in Threads,
                      WorksOn(v, r)', WorksOn(u, r)'
               PROVE  v = u
    BY DEF Alone
  <2>1. ASSUME NEW w \in Threads, WorksOn(w, r)' PROVE WorksOn(w, r)
    <3>1. ~WorksOn(t, r)' BY <1>1 DEF WorksOn, Works, q
    <3> QED BY <3>1, <2>1, <1>3 DEF WorksOn
  <2>2. r \notin overlaps BY <1>2
  <2> QED BY <2>1, <2>2 DEF Alone, Base
<1> QED BY <1>5, <1>6, <1>7, <1>8, <1>9 DEF Base

\* A thread that goes on with what it has.
LEMMA KeepsGoing ==
  ASSUME Base, NEW t \in Threads, Moves(t), Continues(proc[t], proc'[t]),
         proc'[t] = Idle \/ Kept(proc[t], proc'[t]),
         LET q == proc'[t]
         IN  /\ q.todo # <<>> => Head(q.todo) # "insert"
             /\ Carries(q) => q.row.status # "none" /\ q.row.key = sub[q.sub].key
  PROVE  Goes(t)
<1>1. proc'[t].sub # NoSub => Exists(proc'[t].sub)
  BY IdleSane DEF Base, Placed, Kept
<1> QED BY <1>1 DEF Goes, Continues

\* The next step was done and nothing is read from the row.
LEMMA AdvanceGoes ==
  ASSUME Base, NEW t \in Threads, proc[t].todo # <<>>,
         Head(proc[t].todo) \in {"enqueue", "begin", "bury", "store", "return"},
         Become(t, Advanced(proc[t]))
  PROVE  Goes(t)
<1> DEFINE p == proc[t]  q == proc'[t]
<1>1. /\ Moves(t) /\ Advances(p, q) /\ Continues(p, q)
      /\ q.todo = <<>> => q = Idle
      /\ q.todo # <<>> => q.row = p.row
  BY DoAdvance DEF Base
<1> HIDE DEF q
<1>2. q.todo # <<>> => Precedes(Head(p.todo), Head(q.todo)) /\ Kept(p, q)
  <2>1. Sane(q) BY <1>1 DEF Moves, q
  <2> QED BY <2>1, <1>1, HeadFacts DEF Advances
<1>3. q.todo # <<>> => Head(q.todo) # "insert" BY <1>2 DEF Precedes, Enders
<1>4. Carries(q) => q.row.status # "none" /\ q.row.key = sub[q.sub].key
  <2> SUFFICES ASSUME Carries(q) PROVE q.row.status # "none" /\ q.row.key = sub[q.sub].key
    OBVIOUS
  <2>1. Carries(p) BY <1>2 DEF Carries, Precedes, Enders
  <2>2. p.row.status # "none" /\ p.row.key = sub[p.sub].key BY <2>1 DEF Base, Placed
  <2> QED BY <2>2, <1>1, <1>2 DEF Kept, Carries
<1>5. q = Idle \/ Kept(p, q) BY <1>1, <1>2
<1> QED BY <1>1, <1>3, <1>4, <1>5, KeepsGoing DEF q

\* An error, or the end.
LEMMA FailingGoes ==
  ASSUME Base, NEW t \in Threads, Become(t, Failing(proc[t])) \/ Become(t, Idle)
  PROVE  Goes(t)
<1> DEFINE p == proc[t]  q == proc'[t]
<1>1. CASE Become(t, Failing(p))
  <2>1. /\ Moves(t) /\ Continues(p, q) /\ (q = Idle \/ Kept(p, q))
        /\ q.todo # <<>> => Head(q.todo) \in {"refuse", "fail"}
    BY <1>1, DoFailing DEF Base
  <2> QED BY <2>1, KeepsGoing DEF Carries
<1>2. CASE Become(t, Idle)
  <2>1. Moves(t) /\ Continues(p, q) /\ q = Idle BY <1>2, DoIdle DEF Base
  <2> QED BY <2>1, KeepsGoing, IdleSane DEF Carries
<1> QED BY <1>1, <1>2

\* A step that changes neither the submissions nor the queue.
LEMMA QuietThread ==
  ASSUME Base, NEW t \in Threads, Goes(t), Tables', overlaps \subseteq overlaps',
         UNCHANGED <<sub, phase, dead, executed>>
  PROVE  Quiet
<1>1. SameRows BY DEF SameRows, Exists
<1> QED BY <1>1 DEF Quiet, Base, Placed

\* A step that saves the row it carries.
LEMMA QuietSave ==
  ASSUME Base, NEW t \in Threads, Goes(t), Carries(proc[t]), NEW r \in Rows,
         r.status # "none", r.key = proc[t].row.key, sub' = [sub EXCEPT ![proc[t].sub] = r],
         UNCHANGED <<queue, idem, dead, executed, ghosts>>
  PROVE  Quiet
<1> DEFINE s == proc[t].sub
<1>1. s \in Submissions BY HeadFacts DEF Base, Core, Carries
<1>2. Exists(s) /\ r.key = sub[s].key
  BY <1>1, BoundsAssumption DEF Base, Placed, Submissions, NoSub
<1>3. SameRows
  BY <1>1, <1>2 DEF SameRows, Exists, Base, Core, Tables
<1>4. Tables' BY <1>1 DEF Base, Core, Tables, queue, ghosts
<1> QED BY <1>3, <1>4 DEF Quiet, Base, Placed, queue, ghosts

\* What a request to the queue does to the jobs.
LEMMA Enqueued ==
  ASSUME Tables, NEW j \in Jobs, EnqueueUnique(j)
  PROVE  /\ phase' \in [Jobs -> {"absent", "open", "succeeded", "dead_letter"}]
         /\ tries' \in [Jobs -> Nat] /\ handled' \subseteq Jobs
         /\ \A i \in Jobs \ {j} : phase'[i] = phase[i]
         /\ phase[j] # "absent" => phase'[j] = phase[j]
         /\ phase[j] = "absent" => phase'[j] = "open"
BY DEF Tables, EnqueueUnique, Queue!Accepted, Queue!Accept, queue

\* What the mark of a job, or its requeueing, does to the jobs.
LEMMA Settled ==
  ASSUME Tables, NEW j \in Jobs,
         Queue!Succeed(j) \/ Queue!GiveUp(j) \/ Queue!Again(j) \/ Queue!Return(j) \/ Queue!Try({j})
  PROVE  /\ phase' \in [Jobs -> {"absent", "open", "succeeded", "dead_letter"}]
         /\ tries' \in [Jobs -> Nat] /\ handled' \subseteq Jobs
         /\ \A i \in Jobs \ {j} : phase'[i] = phase[i]
         /\ phase[j] # "absent" /\ phase'[j] # "absent"
         /\ Queue!Return(j) \/ Queue!Try({j}) => phase' = phase
         /\ Queue!Succeed(j) \/ Queue!GiveUp(j) => phase'[j] # "open"
BY DEF Tables, Queue!Succeed, Queue!GiveUp, Queue!Again, Queue!Return, Queue!Try, Queue!Settle,
       Queue!Accepted

\* The steps of a creation, and errors, are quiet.
LEMMA QuietRequest ==
  ASSUME Base, NEW t \in Threads,
         Find(t) \/ Enqueue(t) \/ Record(t) \/ EnqueueFails(t)
  PROVE  Quiet
<1> DEFINE p == proc[t]  q == proc'[t]
<1>c. Core /\ Tables /\ Sane(p) BY DEF Base, Core
<1>1. CASE Find(t)
  <2>1. /\ Moves(t) /\ q.job = NoJob /\ q.key = p.key
        /\ Range(q.todo) \subseteq {"insert", "enqueue", "record"}
        /\ "insert" \in Range(p.todo)
        /\ \/ q.todo # <<>> /\ Head(q.todo) = "insert" /\ WithKey(p.key) = {} /\ q.sub = p.sub
           \/ q.sub \in WithKey(p.key) /\ "insert" \notin Range(q.todo)
    BY <1>c, <1>1, DoFind
  <2> HIDE DEF q
  <2>2. q.todo # <<>> => Head(q.todo) \in Range(q.todo) BY <2>1, HeadFacts DEF Moves, q
  <2>3. (q.todo # <<>> /\ Head(q.todo) = "insert") => WithKey(q.key) = {} BY <2>1, <2>2
  <2>4. ~Carries(q) /\ ~Works(q) BY <2>1, <2>2 DEF Carries, Works, RowSteps
  <2>5. q.sub # NoSub => Exists(q.sub) BY <2>1 DEF WithKey, Base, Placed
  <2>6. Goes(t) BY <2>1, <2>3, <2>4, <2>5 DEF Goes, q
  <2>7. UNCHANGED <<queue, rows, ghosts>> BY <1>1 DEF Find
  <2>8. Tables' BY <1>c, <2>7 DEF Tables, queue, rows, ghosts
  <2> QED BY <2>6, <2>7, <2>8, QuietThread DEF queue, rows, ghosts
<1>2. CASE Enqueue(t)
  <2>1. /\ p.todo # <<>> /\ Head(p.todo) = "enqueue" /\ Become(t, Advanced(p))
        /\ EnqueueUnique(<<p.sub, "process">>) /\ UNCHANGED <<rows, ghosts>>
    BY <1>2 DEF Enqueue, At
  <2>2. Goes(t) BY <2>1, AdvanceGoes
  <2> DEFINE j == <<p.sub, "process">>
  <2>3. p.sub \in Submissions BY <1>c, <2>1, HeadFacts
  <2>4. j \in Jobs /\ j[1] = p.sub BY <2>3 DEF Jobs, Kinds
  <2>5. Exists(p.sub) BY <2>3, BoundsAssumption DEF Base, Placed, Submissions, NoSub
  <2> HIDE DEF j
  <2>6. /\ phase' \in [Jobs -> {"absent", "open", "succeeded", "dead_letter"}]
        /\ tries' \in [Jobs -> Nat] /\ handled' \subseteq Jobs
        /\ \A i \in Jobs \ {j} : phase'[i] = phase[i]
    BY <1>c, <2>1, <2>4, Enqueued DEF j
  <2>7. Tables' BY <1>c, <2>1, <2>6 DEF Tables, rows, ghosts
  <2>8. \A i \in Jobs : phase'[i] # "absent" => Exists(i[1])
    BY <2>4, <2>5, <2>6 DEF Base, Placed
  <2>9. SameRows BY <2>1 DEF SameRows, Exists, rows
  <2> QED BY <2>1, <2>2, <2>7, <2>8, <2>9 DEF Quiet, Base, Placed, rows, ghosts
<1>3. CASE Record(t)
  <2>1. Goes(t) BY <1>3, FailingGoes DEF Record
  <2>2. UNCHANGED <<queue, sub, dead, executed, ghosts>> BY <1>3 DEF Record
  <2>3. idem' \in [IdemKeys -> [status : {"none", "failed", "succeeded"}, sub : Submissions \cup {NoSub}]]
    <3>1. p.sub \in Submissions \cup {NoSub} BY <1>c, ProcFields DEF Sane
    <3> QED BY <3>1, <1>3, <1>c DEF Record, Tables
  <2>4. Tables' BY <1>c, <2>2, <2>3 DEF Tables, queue, ghosts
  <2> QED BY <2>1, <2>2, <2>4, QuietThread DEF queue, ghosts
<1>4. CASE EnqueueFails(t)
  <2>1. /\ Moves(t) /\ Kept(p, q) /\ p.sub \in Submissions
        /\ Works(q) /\ "insert" \notin Range(q.todo)
        /\ q.todo # <<>> /\ Head(q.todo) = "get"
    BY <1>4, <1>c, DoEnqueueFails
  <2>2. /\ UNCHANGED <<queue, rows, again, unsaved, ops>> /\ NowOverlapping(t, p.sub)
        /\ faults' = faults + 1
    BY <1>4 DEF EnqueueFails, Fault
  <2>3. p.sub \in overlaps' \/ \A u \in Threads \ {t} : ~WorksOn(u, p.sub)
    BY <2>2 DEF NowOverlapping
  <2>4. overlaps \subseteq overlaps' BY <2>2 DEF NowOverlapping
  <2>5. p.sub # NoSub => Exists(p.sub) BY DEF Base, Placed
  <2>6. Goes(t) BY <2>1, <2>3, <2>5 DEF Goes, Kept, Carries
  <2>7. Tables' BY <1>c, <2>2 DEF Tables, queue, rows
  <2> QED BY <2>2, <2>4, <2>6, <2>7, QuietThread DEF queue, rows
<1> QED BY <1>1, <1>2, <1>3, <1>4

\* A retry reads the row.
LEMMA DoRead ==
  ASSUME Core, NEW t \in Threads, Read(t)
  PROVE  LET p == proc[t]
             q == proc'[t]
         IN  /\ Moves(t) /\ Continues(p, q) /\ Kept(p, q) /\ p.sub \in Submissions
             /\ p.todo # <<>> /\ Head(p.todo) = "read" /\ q.todo # <<>> /\ Head(q.todo) = "requeue"
             /\ Range(q.todo) = Range(p.todo) \ {"read"}
             /\ q.row = sub[p.sub]
<1> DEFINE p == proc[t]  q == proc'[t]
<1>0. Sane(p) /\ p.todo # <<>> /\ Head(p.todo) = "read" BY DEF Core, Read, At
<1>1. p.sub \in Submissions BY <1>0, HeadFacts
<1>2. sub[p.sub] \in Rows BY <1>1 DEF Core, Tables
<1>3. Moves(t) /\ Advances(p, q) /\ Continues(p, q) /\ q.row = sub[p.sub]
  BY <1>0, <1>2, DoRow DEF Read, Before
<1> QED BY <1>0, <1>1, <1>3 DEF Advances, Before, Follows

\* A retry queues the row it has read.
LEMMA DoRequeue ==
  ASSUME Core, NEW t \in Threads, Requeue(t)
  PROVE  LET p == proc[t]
             q == proc'[t]
         IN  /\ Moves(t) /\ Continues(p, q) /\ Kept(p, q) /\ p.sub \in Submissions
             /\ p.todo # <<>> /\ Head(p.todo) = "requeue" /\ q.todo # <<>> /\ Head(q.todo) = "get"
             /\ Range(q.todo) = Range(p.todo) \ {"requeue"}
             /\ \E r \in Rows : /\ r.status = "queued" /\ r.attempt = p.row.attempt /\ r.key = p.row.key
                                /\ sub' = [sub EXCEPT ![p.sub] = r]
<1> DEFINE p == proc[t]  q == proc'[t]
<1>0. Sane(p) /\ p.todo # <<>> /\ Head(p.todo) = "requeue" BY DEF Core, Requeue, At
<1>1. p.sub \in Submissions BY <1>0, HeadFacts
<1>2. NoRow \in Rows BY RowTypes
<1>3. Moves(t) /\ Advances(p, q) /\ Continues(p, q)
  BY <1>0, <1>2, DoRow DEF Requeue, Before
<1> DEFINE r == [p.row EXCEPT !.status = "queued"]
<1>4. r \in Rows /\ r.status = "queued" /\ r.attempt = p.row.attempt /\ r.key = p.row.key
  <2>1. "queued" \in Statuses /\ p.row \in Rows BY <1>0, ProcFields DEF Sane, Statuses
  <2> QED BY <2>1, RowTypes
<1>5. sub' = [sub EXCEPT ![p.sub] = r] BY DEF Requeue
<1> HIDE DEF r
<1> QED BY <1>0, <1>1, <1>3, <1>4, <1>5 DEF Advances, Before, Follows

\* The steps of a delivery are quiet.
LEMMA QuietDelivery ==
  ASSUME Base, NEW t \in Threads,
         Read(t) \/ Requeue(t) \/ Get(t) \/ Begin(t) \/ Execute(t) \/ Bury(t) \/ Store(t)
  PROVE  Quiet
<1> DEFINE p == proc[t]  q == proc'[t]
<1>c. Core /\ Tables /\ Sane(p) /\ Placed BY DEF Base, Core
<1>e. p.sub \in Submissions => Exists(p.sub)
  BY <1>c, BoundsAssumption DEF Placed, Submissions, NoSub
<1>1. CASE Read(t)
  <2>1. /\ Moves(t) /\ Continues(p, q) /\ Kept(p, q) /\ p.sub \in Submissions
        /\ q.todo # <<>> /\ Head(q.todo) = "requeue" /\ q.row = sub[p.sub]
    BY <1>c, <1>1, DoRead
  <2>2. Goes(t) BY <2>1, <1>e, KeepsGoing DEF Kept, Exists
  <2>3. UNCHANGED <<queue, rows, ghosts>> BY <1>1 DEF Read
  <2>4. Tables' BY <1>c, <2>3 DEF Tables, queue, rows, ghosts
  <2> QED BY <2>2, <2>3, <2>4, QuietThread DEF queue, rows, ghosts
<1>2. CASE Requeue(t)
  <2>1. /\ Moves(t) /\ Continues(p, q) /\ Kept(p, q)
        /\ p.todo # <<>> /\ Head(p.todo) = "requeue" /\ q.todo # <<>> /\ Head(q.todo) = "get"
    BY <1>c, <1>2, DoRequeue
  <2>2. PICK r \in Rows : /\ r.status = "queued" /\ r.key = p.row.key
                          /\ sub' = [sub EXCEPT ![p.sub] = r]
    BY <1>c, <1>2, DoRequeue
  <2>3. Goes(t) BY <2>1, KeepsGoing DEF Carries
  <2>4. UNCHANGED <<queue, idem, dead, executed, ghosts>> BY <1>2 DEF Requeue
  <2>5. Carries(p) BY <2>1 DEF Carries
  <2> QED BY <2>2, <2>3, <2>4, <2>5, QuietSave
<1>3. CASE Get(t)
  <2>1. /\ Moves(t) /\ Continues(p, q) /\ Kept(p, q) /\ p.sub \in Submissions
        /\ q.todo # <<>> /\ Head(q.todo) \in {"begin", "bury"}
        /\ q.row.status # "none" /\ q.row.key = sub[p.sub].key
    BY <1>c, <1>3, DoGet
  <2>2. Goes(t) BY <2>1, KeepsGoing DEF Kept
  <2>3. UNCHANGED <<queue, rows, ghosts>> BY <1>3 DEF Get
  <2>4. Tables' BY <1>c, <2>3 DEF Tables, queue, rows, ghosts
  <2> QED BY <2>2, <2>3, <2>4, QuietThread DEF queue, rows, ghosts
<1>4. CASE Begin(t) \/ Store(t)
  <2>1. /\ p.todo # <<>> /\ Head(p.todo) \in {"begin", "store"} /\ Become(t, Advanced(p))
        /\ sub' = [sub EXCEPT ![p.sub] = p.row]
        /\ UNCHANGED <<queue, idem, dead, executed, ghosts>>
    BY <1>4 DEF Begin, Store, At
  <2>2. Goes(t) BY <2>1, AdvanceGoes
  <2>3. Carries(p) BY <2>1 DEF Carries
  <2>4. p.row \in Rows /\ p.row.status # "none" BY <1>c, <2>3, ProcFields DEF Sane, Placed
  <2> QED BY <2>1, <2>2, <2>3, <2>4, QuietSave
<1>5. CASE Execute(t)
  <2>1. /\ Moves(t) /\ Continues(p, q) /\ Kept(p, q) /\ p.sub \in Submissions
        /\ p.todo # <<>> /\ Head(p.todo) = "execute"
        /\ q.todo # <<>> /\ Head(q.todo) \in {"store", "bury"}
        /\ q.row.key = p.row.key /\ q.row.status # "none"
    BY <1>c, <1>5, DoExecute
  <2>2. p.row.key = sub[p.sub].key BY <1>c, <2>1 DEF Placed, Carries
  <2>3. Goes(t) BY <2>1, <2>2, KeepsGoing DEF Kept
  <2>4. UNCHANGED <<queue, idem, sub, dead, ghosts>>
        /\ executed' = [executed EXCEPT ![p.sub] = @ + 1]
    BY <1>5 DEF Execute
  <2>5. Tables' BY <1>c, <2>1, <2>4 DEF Tables, queue, ghosts
  <2>6. SameRows BY <2>4 DEF SameRows, Exists
  <2>7. \A s \in Submissions : dead'[s] # "none" \/ executed'[s] # 0 => Exists(s)
    BY <1>c, <1>e, <2>1, <2>4 DEF Placed, Tables
  <2> QED BY <1>c, <2>3, <2>4, <2>5, <2>6, <2>7 DEF Quiet, Placed, queue, ghosts
<1>6. CASE Bury(t)
  <2>1. /\ p.todo # <<>> /\ Head(p.todo) = "bury" /\ Become(t, Advanced(p))
        /\ dead' = [dead EXCEPT ![p.sub] = "open"]
        /\ UNCHANGED <<queue, idem, sub, executed, ghosts>>
    BY <1>6 DEF Bury, At
  <2>2. Goes(t) BY <2>1, AdvanceGoes
  <2>3. p.sub \in Submissions BY <1>c, <2>1, HeadFacts
  <2>4. Tables' BY <1>c, <2>1, <2>3 DEF Tables, queue, ghosts
  <2>5. SameRows BY <2>1 DEF SameRows, Exists
  <2>6. \A s \in Submissions : dead'[s] # "none" \/ executed'[s] # 0 => Exists(s)
    BY <1>c, <1>e, <2>1, <2>3 DEF Placed, Tables
  <2> QED BY <1>c, <2>1, <2>2, <2>4, <2>5, <2>6 DEF Quiet, Placed, queue, ghosts
<1> QED BY <1>1, <1>2, <1>3, <1>4, <1>5, <1>6

\* What becomes of a thread whose save fails.
LEMMA SaveFailsWays ==
  ASSUME NEW t \in Threads, SaveFails(t)
  PROVE  LET p == proc[t]
         IN  \/ p.todo # <<>> /\ Head(p.todo) \in {"bury", "store"} /\ Become(t, Advanced(p))
             \/ /\ p.todo # <<>> /\ Head(p.todo) \in {"record", "fail"} /\ Become(t, Idle)
             \/ Become(t, Failing(p))
<1> DEFINE p == proc[t]
           ignored == At(t, "bury") \/ (At(t, "store") /\ p.row.status # "succeeded")
<1>1. Become(t, CASE ignored -> Advanced(p)
                  [] At(t, "record") \/ At(t, "fail") -> Idle
                  [] OTHER -> Failing(p))
  BY DEF SaveFails
<1>2. CASE ignored
  <2>1. ~At(t, "record") /\ ~At(t, "fail") /\ p.todo # <<>> /\ Head(p.todo) \in {"bury", "store"}
    BY <1>2 DEF At
  <2> HIDE DEF ignored
  <2> QED BY <2>1, <1>1, <1>2
<1>3. CASE At(t, "record") \/ At(t, "fail")
  <2>1. ~ignored BY <1>3 DEF At
  <2> HIDE DEF ignored
  <2> QED BY <2>1, <1>1, <1>3 DEF At
<1>4. CASE ~ignored /\ ~(At(t, "record") \/ At(t, "fail"))
  <2> HIDE DEF ignored
  <2> QED BY <1>1, <1>4
<1> QED BY <1>2, <1>3, <1>4

\* The end of a job, and faults, are quiet.
LEMMA QuietEnd ==
  ASSUME Base, NEW t \in Threads,
         Return(t) \/ Mark(t) \/ PreflightFails(t) \/ SaveFails(t) \/ MarkFails(t) \/ Crash(t)
  PROVE  Quiet
<1> DEFINE p == proc[t]  q == proc'[t]
<1>c. Core /\ Tables /\ Sane(p) /\ Placed BY DEF Base, Core
<1>1. CASE Return(t) \/ Mark(t)
  <2>1. p.todo # <<>> /\ Head(p.todo) \in JobSteps
    BY <1>1 DEF Return, Mark, At, JobSteps
  <2>2. p.job \in Jobs BY <1>c, <2>1, HeadFacts
  <2>3. /\ UNCHANGED <<rows, ghosts>>
        /\ \/ Queue!Succeed(p.job) \/ Queue!GiveUp(p.job) \/ Queue!Again(p.job)
           \/ Queue!Return(p.job)
    BY <1>1 DEF Return, Mark
  <2>4. Goes(t)
    <3>1. CASE Return(t) BY <3>1, AdvanceGoes DEF Return, At
    <3>2. CASE Mark(t) BY <3>2, FailingGoes DEF Mark
    <3> QED BY <3>1, <3>2, <1>1
  <2>5. /\ phase' \in [Jobs -> {"absent", "open", "succeeded", "dead_letter"}]
        /\ tries' \in [Jobs -> Nat] /\ handled' \subseteq Jobs
        /\ \A i \in Jobs \ {p.job} : phase'[i] = phase[i]
        /\ phase[p.job] # "absent"
    BY <1>c, <2>2, <2>3, Settled
  <2>6. Tables' BY <1>c, <2>3, <2>5 DEF Tables, rows, ghosts
  <2>7. SameRows BY <2>3 DEF SameRows, Exists, rows
  <2>8. \A j \in Jobs : phase'[j] # "absent" => Exists(j[1])
    BY <1>c, <2>2, <2>5 DEF Placed
  <2> QED BY <1>c, <2>3, <2>4, <2>6, <2>7, <2>8 DEF Quiet, Placed, rows, ghosts
<1>2. CASE PreflightFails(t) \/ SaveFails(t) \/ MarkFails(t) \/ Crash(t)
  <2>1. /\ UNCHANGED <<queue, rows, again, overlaps, ops>> /\ faults' = faults + 1
    BY <1>2 DEF PreflightFails, SaveFails, MarkFails, Crash, Fault
  <2>2. Goes(t)
    <3>1. CASE PreflightFails(t) \/ MarkFails(t) \/ Crash(t)
      BY <3>1, FailingGoes DEF PreflightFails, MarkFails, Crash
    <3>2. CASE SaveFails(t)
      <4>1. CASE p.todo # <<>> /\ Head(p.todo) \in {"bury", "store"} /\ Become(t, Advanced(p))
        BY <4>1, AdvanceGoes
      <4>2. CASE Become(t, Failing(p)) \/ Become(t, Idle)
        BY <4>2, FailingGoes
      <4> QED BY <4>1, <4>2, <3>2, SaveFailsWays
    <3> QED BY <3>1, <3>2, <1>2
  <2>3. Tables' BY <1>c, <2>1 DEF Tables, queue, rows
  <2> QED BY <2>1, <2>2, <2>3, QuietThread DEF queue, rows
<1> QED BY <1>1, <1>2

\* A thread that takes up an existing submission.
LEMMA StartGoes ==
  ASSUME Base, NEW t \in Threads, NEW s \in Submissions, Starts(t, s), Exists(s),
         NowOverlapping(t, s)
  PROVE  Goes(t) /\ overlaps \subseteq overlaps'
<1>1. s \in overlaps' \/ \A u \in Threads \ {t} : ~WorksOn(u, s) BY DEF NowOverlapping
<1>2. overlaps \subseteq overlaps' BY DEF NowOverlapping
<1> QED BY <1>1, <1>2 DEF Goes, Starts, Carries

\* The requests of operators and the claims of workers are quiet.
LEMMA QuietStart ==
  ASSUME Base, NEW t \in Threads,
         \/ \E j \in Jobs : Claim(t, j)
         \/ \E s \in Submissions, kind \in Posted : PostFails(t, s, kind)
         \/ \E s \in Submissions : ReplayDeadLetter(t, s)
  PROVE  Quiet
<1>c. Core /\ Tables /\ Placed BY DEF Base, Core
<1>1. ASSUME NEW j \in Jobs, Claim(t, j) PROVE Quiet
  <2>1. Starts(t, j[1]) /\ j[1] \in Submissions BY <1>c, <1>1, DoClaim
  <2>2. /\ phase[j] = "open" /\ NowOverlapping(t, j[1]) /\ Queue!Try({j})
        /\ UNCHANGED <<rows, again, unsaved, ops>>
    BY <1>1 DEF Claim
  <2>3. Exists(j[1]) BY <1>c, <2>2 DEF Placed
  <2>4. Goes(t) /\ overlaps \subseteq overlaps' BY <2>1, <2>2, <2>3, StartGoes
  <2>5. /\ phase' = phase /\ tries' \in [Jobs -> Nat] /\ handled' \subseteq Jobs
    BY <1>c, <2>2, Settled
  <2>6. faults' \in Nat
    <3>1. faults' = faults \/ faults' = faults + 1 BY <1>1 DEF Claim, Fault
    <3> QED BY <3>1, <1>c DEF Tables
  <2>7. Tables' BY <1>c, <2>2, <2>5, <2>6 DEF Tables, rows
  <2> QED BY <2>2, <2>4, <2>5, <2>7, QuietThread DEF rows
<1>2. ASSUME NEW s \in Submissions, NEW kind \in Posted, PostFails(t, s, kind) PROVE Quiet
  <2>1. /\ Exists(s) /\ proc[t] = Idle /\ NowOverlapping(t, s) /\ faults' = faults + 1
        /\ Become(t, [Idle EXCEPT !.todo = StepsOf(kind), !.sub = s])
        /\ again' = [again EXCEPT ![s] = @ + 1] /\ UNCHANGED <<queue, rows, unsaved>>
    BY <1>2 DEF PostFails, Fault
  <2>2. kind \in Kinds BY PostedAssumption DEF Kinds
  <2>3. Starts(t, s) BY <1>c, <2>1, <2>2, DoRequest
  <2>4. Goes(t) /\ overlaps \subseteq overlaps' BY <2>1, <2>3, StartGoes
  <2>5. Tables' BY <1>c, <2>1 DEF Tables, queue, rows
  <2> QED BY <2>1, <2>4, <2>5, QuietThread DEF queue, rows
<1>3. ASSUME NEW s \in Submissions, ReplayDeadLetter(t, s) PROVE Quiet
  <2>1. /\ dead[s] # "none" /\ proc[t] = Idle /\ NowOverlapping(t, s)
        /\ faults' \in {faults, faults + 1}
        /\ dead' \in {dead, [dead EXCEPT ![s] = "replayed"]}
        /\ Become(t, [Idle EXCEPT !.todo = RetrySteps, !.sub = s])
        /\ again' = [again EXCEPT ![s] = @ + 1] /\ UNCHANGED <<queue, idem, sub, executed, unsaved>>
    BY <1>3 DEF ReplayDeadLetter, Fault
  <2>2. StepsOf("retry") = RetrySteps /\ "retry" \in Kinds BY DEF StepsOf, Kinds
  <2>3. Starts(t, s) BY <1>c, <2>1, <2>2, DoRequest
  <2>4. Exists(s) BY <1>c, <2>1 DEF Placed
  <2>5. Goes(t) /\ overlaps \subseteq overlaps' BY <2>1, <2>3, <2>4, StartGoes
  <2>6. Tables' BY <1>c, <2>1 DEF Tables, queue
  <2>7. SameRows BY <2>1 DEF SameRows, Exists
  <2>8. \A r \in Submissions : dead'[r] # "none" \/ executed'[r] # 0 => Exists(r)
    BY <1>c, <2>1, <2>4 DEF Placed, Tables
  <2> QED BY <1>c, <2>1, <2>5, <2>6, <2>7, <2>8 DEF Quiet, Placed, queue
<1> QED BY <1>1, <1>2, <1>3

\* The requests that only reach the queue are quiet.
LEMMA QuietQueue ==
  ASSUME Base,
         \/ \E s \in Submissions, kind \in Posted : Post(s, kind)
         \/ \E j \in Jobs : RequeueJob(j)
  PROVE  Quiet
<1>c. Core /\ Tables /\ Placed BY DEF Base, Core
<1>1. ASSUME NEW s \in Submissions, NEW kind \in Posted, Post(s, kind) PROVE Quiet
  <2> DEFINE j == <<s, kind>>
  <2>1. /\ Exists(s) /\ EnqueueUnique(j)
        /\ again' \in {again, [again EXCEPT ![s] = @ + 1]}
        /\ UNCHANGED <<rows, proc, overlaps, unsaved, ops, faults>>
    BY <1>1 DEF Post
  <2>2. j \in Jobs /\ j[1] = s BY PostedAssumption DEF Jobs, Kinds
  <2> HIDE DEF j
  <2>3. /\ phase' \in [Jobs -> {"absent", "open", "succeeded", "dead_letter"}]
        /\ tries' \in [Jobs -> Nat] /\ handled' \subseteq Jobs
        /\ \A i \in Jobs \ {j} : phase'[i] = phase[i]
    BY <1>c, <2>1, <2>2, Enqueued
  <2>4. Tables' BY <1>c, <2>1, <2>3 DEF Tables, rows
  <2>5. \A i \in Jobs : phase'[i] # "absent" => Exists(i[1])
    BY <1>c, <2>1, <2>2, <2>3 DEF Placed
  <2>6. SameRows BY <2>1 DEF SameRows, Exists, rows
  <2> QED BY <1>c, <2>1, <2>4, <2>5, <2>6 DEF Quiet, Placed, rows
<1>2. ASSUME NEW j \in Jobs, RequeueJob(j) PROVE Quiet
  <2>1. /\ Queue!Again(j) /\ again' = [again EXCEPT ![j[1]] = @ + 1]
        /\ UNCHANGED <<rows, proc, overlaps, unsaved, faults>>
    BY <1>2 DEF RequeueJob
  <2>2. j[1] \in Submissions BY DEF Jobs
  <2>3. /\ phase' \in [Jobs -> {"absent", "open", "succeeded", "dead_letter"}]
        /\ tries' \in [Jobs -> Nat] /\ handled' \subseteq Jobs
        /\ \A i \in Jobs \ {j} : phase'[i] = phase[i]
        /\ phase[j] # "absent"
    BY <1>c, <2>1, Settled
  <2>4. Tables' BY <1>c, <2>1, <2>2, <2>3 DEF Tables, rows
  <2>5. \A i \in Jobs : phase'[i] # "absent" => Exists(i[1]) BY <1>c, <2>3 DEF Placed
  <2>6. SameRows BY <2>1 DEF SameRows, Exists, rows
  <2> QED BY <1>c, <2>1, <2>4, <2>5, <2>6 DEF Quiet, Placed, rows
<1> QED BY <1>1, <1>2

\* The steps of the system, in the groups the proofs treat.
LEMMA NextGroups ==
  ASSUME Next
  PROVE  \/ \E t \in Threads : Insert(t)
         \/ \E t \in Threads, k \in IdemKeys \cup {NoKey}, now \in BOOLEAN : Create(t, k, now)
         \/ \E t \in Threads : Find(t) \/ Enqueue(t) \/ Record(t) \/ EnqueueFails(t)
         \/ \E t \in Threads :
              Read(t) \/ Requeue(t) \/ Get(t) \/ Begin(t) \/ Execute(t) \/ Bury(t) \/ Store(t)
         \/ \E t \in Threads :
              Return(t) \/ Mark(t) \/ PreflightFails(t) \/ SaveFails(t) \/ MarkFails(t) \/ Crash(t)
         \/ \E t \in Threads :
              \/ \E j \in Jobs : Claim(t, j)
              \/ \E s \in Submissions, kind \in Posted : PostFails(t, s, kind)
              \/ \E s \in Submissions : ReplayDeadLetter(t, s)
         \/ \E s \in Submissions, kind \in Posted : Post(s, kind)
         \/ \E j \in Jobs : RequeueJob(j)
BY Zenon DEF Next, Step

\* The invariant holds at first.
LEMMA BaseInit ==
  ASSUME Init
  PROVE  Base
<1>1. /\ phase = [j \in Jobs |-> "absent"] /\ tries = [j \in Jobs |-> 0] /\ handled = {}
  BY DEF Init, Queue!Init
<1>2. /\ idem = [k \in IdemKeys |-> [status |-> "none", sub |-> NoSub]]
      /\ sub = [s \in Submissions |-> NoRow]
      /\ dead = [s \in Submissions |-> "none"]
      /\ proc = [t \in Threads |-> Idle]
      /\ executed = [s \in Submissions |-> 0] /\ again = [s \in Submissions |-> 0] /\ faults = 0
  BY DEF Init
<1>3. sub \in [Submissions -> Rows] /\ \A s \in Submissions : ~Exists(s)
  BY <1>2, RowTypes DEF Exists, NoRow
<1>4. /\ phase \in [Jobs -> {"absent", "open", "succeeded", "dead_letter"}]
      /\ tries \in [Jobs -> Nat] /\ handled \subseteq Jobs
  BY <1>1
<1>5. idem \in [IdemKeys -> [status : {"none", "failed", "succeeded"}, sub : Submissions \cup {NoSub}]]
  BY <1>2
<1>6. Tables BY <1>2, <1>3, <1>4, <1>5 DEF Tables
<1>7. Core BY <1>2, <1>6, IdleSane DEF Core, Sane
<1>8. \A t \in Threads : proc[t] = Idle BY <1>2
<1>9. RoomLeft
  <2>1. Existing = {} BY <1>3 DEF Existing
  <2>2. Inserting = {} BY <1>8, IdleSane, ShortLists DEF Inserting
  <2> QED BY <2>1, <2>2, FS_EmptySet, BoundsAssumption DEF RoomLeft
<1>10. Placed
  <2>1. \A j \in Jobs : phase[j] = "absent" BY <1>1
  <2> QED BY <2>1, <1>2, <1>8, IdleSane DEF Placed, Carries
<1>11. KeysOwned
  <2>1. \A k \in IdemKeys : WithKey(k) = {} /\ k # NoKey BY <1>3, NoKeyAssumption DEF WithKey
  <2> QED BY <2>1, <1>8, IdleSane DEF KeysOwned
<1>12. Alone BY <1>8, IdleSane, ShortLists DEF Alone, WorksOn
<1> QED BY <1>7, <1>9, <1>10, <1>11, <1>12 DEF Base

\* Every step keeps the invariant.
LEMMA BaseNext ==
  ASSUME Base, [Next]_vars
  PROVE  Base'
<1>1. CASE Next
  <2>1. CASE \E t \in Threads : Insert(t) BY <2>1, InsertBase
  <2>2. CASE \E t \in Threads, k \in IdemKeys \cup {NoKey}, now \in BOOLEAN : Create(t, k, now)
    BY <2>2, CreateBase
  <2>3. CASE \E t \in Threads : Find(t) \/ Enqueue(t) \/ Record(t) \/ EnqueueFails(t)
    BY <2>3, QuietRequest, QuietBase
  <2>4. CASE \E t \in Threads :
               Read(t) \/ Requeue(t) \/ Get(t) \/ Begin(t) \/ Execute(t) \/ Bury(t) \/ Store(t)
    BY <2>4, QuietDelivery, QuietBase
  <2>5. CASE \E t \in Threads :
               Return(t) \/ Mark(t) \/ PreflightFails(t) \/ SaveFails(t) \/ MarkFails(t) \/ Crash(t)
    BY <2>5, QuietEnd, QuietBase
  <2>6. CASE \E t \in Threads :
               \/ \E j \in Jobs : Claim(t, j)
               \/ \E s \in Submissions, kind \in Posted : PostFails(t, s, kind)
               \/ \E s \in Submissions : ReplayDeadLetter(t, s)
    BY <2>6, QuietStart, QuietBase
  <2>7. CASE \/ \E s \in Submissions, kind \in Posted : Post(s, kind)
             \/ \E j \in Jobs : RequeueJob(j)
    BY <2>7, QuietQueue, QuietBase
  <2> QED BY <1>1, <2>1, <2>2, <2>3, <2>4, <2>5, <2>6, <2>7, NextGroups
<1>2. CASE UNCHANGED vars
  <2>1. UNCHANGED <<phase, tries, handled, idem, sub, dead, executed, again, faults, proc, overlaps>>
    BY <1>2 DEF vars, queue, rows, ghosts
  <2>2. Tables' BY <2>1 DEF Base, Core, Tables
  <2>3. SameRows BY <2>1 DEF SameRows, Exists
  <2> QED BY <2>1, <2>2, <2>3, QuietBase DEF Quiet, Base, Placed
<1> QED BY <1>1, <1>2

\* Every submission a thread, a job, a dead letter or a call names exists, a key
\* belongs to one creation at a time and a submission has one worker, unless
\* they are marked as overlapping: the invariant on which the others rest.
THEOREM BaseInvariance == Spec => []Base
<1>1. Init => Base BY BaseInit
<1>2. Base /\ [Next]_vars => Base' BY BaseNext
<1> QED BY <1>1, <1>2, PTL DEF Spec

\* The types hold, and what a thread or a job names exists: the inserts,
\* crashes and errors of creations leave no thread or job behind that processes
\* a submission which was never saved.
THEOREM TypeCorrect == Spec => []TypeOK
<1>1. ASSUME Base PROVE TypeOK
  <2>1. ASSUME NEW t \in Threads
        PROVE  /\ proc[t].row \in Rows /\ Range(proc[t].todo) \subseteq Steps
               /\ proc[t].job # NoJob => proc[t].job[1] = proc[t].sub
    <3>1. Sane(proc[t]) BY <1>1 DEF Base, Core
    <3>2. proc[t].row \in Rows /\ proc[t].todo \in Seq(Steps) BY <3>1, ProcFields DEF Sane
    <3>3. Range(proc[t].todo) \subseteq Steps BY <3>2, RangeSeq
    <3> QED BY <3>1, <3>2, <3>3 DEF Sane
  <2> QED BY <1>1, <2>1 DEF Base, Core, Tables, Placed, TypeOK
<1> QED BY <1>1, BaseInvariance, PTL

\* A client that repeats a creation with its key, after a crash or an error at
\* any step, does not create a second submission (idempotency.Execute around
\* CreateDelivery), as long as no two requests with the key run at once.
THEOREM OnePerKey == Spec => []OneSubmissionPerKey
<1>1. ASSUME Base PROVE OneSubmissionPerKey
  <2> SUFFICES ASSUME NEW k \in IdemKeys, k \notin overlaps PROVE Cardinality(WithKey(k)) <= 1
    BY DEF OneSubmissionPerKey
  <2>1. \A r, s \in WithKey(k) : r = s BY <1>1 DEF Base, KeysOwned
  <2>2. CASE WithKey(k) = {} BY <2>2, FS_EmptySet
  <2>3. CASE WithKey(k) # {}
    <3>1. PICK s : WithKey(k) = {s} BY <2>1, <2>3
    <3>2. Cardinality({s}) = 1 BY FS_Singleton
    <3> QED BY <3>1, <3>2
  <2> QED BY <2>2, <2>3
<1> QED BY <1>1, BaseInvariance, PTL

-----------------------------------------------------------------------------
(* PROOFS: attempts and calls of the adapter *)

\* A thread at a step of a delivery works on it, and no other thread does.
LEMMA SoleWorker ==
  ASSUME Base, NEW t \in Threads, NEW u \in Threads, t # u, proc[t].todo # <<>>,
         Head(proc[t].todo) \in RowSteps, proc[u].sub = proc[t].sub, proc[t].sub \notin overlaps
  PROVE  ~Works(proc[u]) /\ ~Carries(proc[u]) /\ ~At(u, "read")
<1>1. Sane(proc[t]) /\ Sane(proc[u]) BY DEF Base, Core
<1>2. proc[t].sub \in Submissions /\ Works(proc[t])
  BY <1>1, HeadFacts DEF RowSteps, Works
<1>3. ~Works(proc[u]) BY <1>2 DEF Base, Alone, WorksOn, Works
<1>4. proc[u].todo # <<>> => Head(proc[u].todo) \notin RowSteps
  BY <1>1, <1>3, HeadFacts DEF Works
<1> QED BY <1>3, <1>4 DEF Carries, RowSteps, At

\* A step that leaves the submissions and the calls alone.
LEMMA CountsKept ==
  ASSUME CallsCounted, UNCHANGED <<sub, executed>>, overlaps \subseteq overlaps',
         \A u \in Threads : proc'[u] = proc[u] \/ Counted(proc[u])'
  PROVE  CallsCounted'
<1>1. AttemptsCoverSends' BY DEF CallsCounted, AttemptsCoverSends
<1>2. ASSUME NEW u \in Threads PROVE Counted(proc[u])'
  <2>1. CASE proc'[u] = proc[u] BY <2>1 DEF CallsCounted, Counted
  <2>2. CASE Counted(proc[u])' BY <2>2
  <2> QED BY <2>1, <2>2
<1> QED BY <1>1, <1>2 DEF CallsCounted

\* A step of the only worker of a submission: the others have nothing to count.
LEMMA CountsSaved ==
  ASSUME Base, CallsCounted, NEW t \in Threads, Moves(t), Carries(proc[t]),
         overlaps' = overlaps,
         LET s == proc[t].sub
         IN  /\ Carries(proc'[t]) => proc'[t].sub = s
             /\ \A r \in Submissions \ {s} : sub'[r] = sub[r] /\ executed'[r] = executed[r]
             /\ s \notin overlaps => executed'[s] <= sub'[s].attempt /\ Counted(proc[t])'
  PROVE  CallsCounted'
<1> DEFINE s == proc[t].sub
<1>1. proc[t].todo # <<>> /\ Head(proc[t].todo) \in RowSteps BY DEF Carries, RowSteps
<1>2. s \in Submissions BY HeadFacts DEF Base, Core, Carries
<1>3. AttemptsCoverSends' BY <1>2 DEF CallsCounted, AttemptsCoverSends
<1>4. ASSUME NEW u \in Threads PROVE Counted(proc[u])'
  <2>1. CASE u = t
    <3>1. CASE s \notin overlaps BY <2>1, <3>1
    <3>2. CASE s \in overlaps
      BY <3>2, <2>1 DEF Counted, Carries
    <3> QED BY <3>1, <3>2
  <2>2. CASE u # t
    <3>0. proc'[u] = proc[u] BY <2>2 DEF Moves
    <3>1. CASE proc[u].sub = s
      <4>1. s \notin overlaps => ~Carries(proc[u]) BY <1>1, <2>2, <3>1, SoleWorker
      <4> QED BY <4>1, <3>0, <3>1 DEF Counted, Carries
    <3>2. CASE proc[u].sub # s
      <4>1. Counted(proc[u]) BY DEF CallsCounted
      <4>2. Carries(proc[u]) => proc[u].sub \in Submissions BY HeadFacts DEF Base, Core, Carries
      <4> QED BY <4>1, <4>2, <3>0, <3>2 DEF Counted, Carries
    <3> QED BY <3>1, <3>2
  <2> QED BY <2>1, <2>2
<1> QED BY <1>3, <1>4 DEF CallsCounted

\* A step that leaves a thread without a row to save, or with the end of a list.
LEMMA CountsMoved ==
  ASSUME Base, CallsCounted, NEW t \in Threads, Moves(t), ~Carries(proc'[t]),
         UNCHANGED <<sub, executed>>, overlaps \subseteq overlaps'
  PROVE  CallsCounted'
<1>1. Counted(proc[t])' BY DEF Counted, Carries
<1>2. \A u \in Threads : proc'[u] = proc[u] \/ Counted(proc[u])' BY <1>1 DEF Moves
<1> QED BY <1>2, CountsKept

\* The insert of a creation keeps the counts.
LEMMA CountsInsert ==
  ASSUME Base, CallsCounted, NEW t \in Threads, Insert(t)
  PROVE  CallsCounted'
<1> DEFINE p == proc[t]  q == proc'[t]
<1>1. Moves(t) /\ (q.todo # <<>> => Head(q.todo) \in {"enqueue", "record"})
  BY DoInsert DEF Base
<1>2. PICK s \in Submissions :
        /\ ~Exists(s)
        /\ sub' = [sub EXCEPT ![s] = [status |-> "queued", attempt |-> 0, key |-> p.key]]
  BY DoInsert DEF Base
<1>3. executed' = executed /\ overlaps' = overlaps BY DEF Insert, ghosts
<1>4. executed[s] = 0 BY <1>2 DEF Base, Placed
<1>5. sub'[s].attempt = 0 /\ \A r \in Submissions \ {s} : sub'[r] = sub[r]
  BY <1>2 DEF Base, Core, Tables
<1>6. AttemptsCoverSends'
  BY <1>3, <1>4, <1>5 DEF CallsCounted, AttemptsCoverSends
<1>7. ASSUME NEW u \in Threads PROVE Counted(proc[u])'
  <2>1. CASE u = t
    <3>1. ~Carries(q) BY <1>1 DEF Carries
    <3> QED BY <3>1, <2>1 DEF Counted, Carries
  <2>2. CASE u # t
    <3>1. proc'[u] = proc[u] BY <2>2, <1>1 DEF Moves
    <3>2. Counted(proc[u]) BY DEF CallsCounted
    <3>3. Carries(proc[u]) => proc[u].sub \in Submissions /\ proc[u].sub # s
      <4> SUFFICES ASSUME Carries(proc[u])
                   PROVE  proc[u].sub \in Submissions /\ proc[u].sub # s
        OBVIOUS
      <4>1. proc[u].sub \in Submissions BY HeadFacts DEF Base, Core, Carries
      <4>2. proc[u].sub # NoSub BY <4>1, BoundsAssumption DEF Submissions, NoSub
      <4> QED BY <4>1, <4>2, <1>2 DEF Base, Placed
    <3> QED BY <3>1, <3>2, <3>3, <1>3, <1>5 DEF Counted, Carries
  <2> QED BY <2>1, <2>2
<1> QED BY <1>6, <1>7 DEF CallsCounted

\* After the dead letter, or without it, the row still counts the calls.
LEMMA BuryCounted ==
  ASSUME Base, CallsCounted, NEW t \in Threads, proc[t].todo # <<>>,
         Head(proc[t].todo) \in {"bury", "store"}, Become(t, Advanced(proc[t])),
         UNCHANGED <<sub, executed, overlaps>>
  PROVE  Moves(t) /\ Counted(proc[t])'
<1> DEFINE p == proc[t]  q == proc'[t]
<1>1. /\ Moves(t) /\ Advances(p, q) /\ (q.todo # <<>> => q.row = p.row)
  BY DoAdvance DEF Base
<1>2. q.todo # <<>> => Precedes(Head(p.todo), Head(q.todo)) /\ Kept(p, q)
  <2>1. Sane(q) BY <1>1 DEF Moves
  <2> QED BY <2>1, <1>1, HeadFacts DEF Advances
<1>3. Counted(p) BY DEF CallsCounted
<1>4. CASE ~Carries(q) BY <1>1, <1>4 DEF Counted, Carries
<1>5. CASE Carries(q)
  <2>1. q.todo # <<>> /\ Kept(p, q) /\ q.row = p.row /\ Head(p.todo) = "bury" /\ Head(q.todo) = "store"
    BY <1>1, <1>2, <1>5 DEF Carries, Precedes, Enders
  <2> QED BY <2>1, <1>1, <1>3 DEF Counted, Kept
<1> QED BY <1>4, <1>5

\* The steps of a delivery keep the counts.
LEMMA CountsDelivery ==
  ASSUME Base, CallsCounted, NEW t \in Threads,
         Read(t) \/ Requeue(t) \/ Get(t) \/ Begin(t) \/ Execute(t) \/ Bury(t) \/ Store(t)
  PROVE  CallsCounted'
<1> DEFINE p == proc[t]  q == proc'[t]  s == p.sub
<1>c. Core /\ Tables /\ Sane(p) BY DEF Base, Core
<1>t. /\ Counted(p)
      /\ (s \in Submissions /\ s \notin overlaps) => executed[s] <= sub[s].attempt
      /\ s \in Submissions => executed[s] \in Nat /\ sub[s] \in Rows /\ sub[s].attempt \in Nat
  <2>1. s \in Submissions => executed[s] \in Nat /\ sub[s] \in Rows BY <1>c DEF Tables
  <2> QED BY <2>1, RowTypes DEF CallsCounted, AttemptsCoverSends
<1>r. p.row \in Rows /\ p.row.attempt \in Nat
  <2>1. p.row \in Rows BY <1>c, ProcFields DEF Sane
  <2> QED BY <2>1, RowTypes
<1>1. CASE Read(t)
  <2>1. /\ Moves(t) /\ Kept(p, q) /\ s \in Submissions
        /\ q.todo # <<>> /\ Head(q.todo) = "requeue" /\ q.row = sub[s]
    BY <1>c, <1>1, DoRead
  <2>2. UNCHANGED <<sub, executed, overlaps>> BY <1>1 DEF Read, rows, ghosts
  <2>3. Counted(proc[t])' BY <2>1, <2>2, <1>t DEF Counted, Kept
  <2>4. \A u \in Threads : proc'[u] = proc[u] \/ Counted(proc[u])' BY <2>1, <2>3 DEF Moves
  <2> QED BY <2>2, <2>4, CountsKept
<1>2. CASE Requeue(t)
  <2>1. /\ Moves(t) /\ p.todo # <<>> /\ Head(p.todo) = "requeue" /\ s \in Submissions
        /\ q.todo # <<>> /\ Head(q.todo) = "get"
    BY <1>c, <1>2, DoRequeue
  <2>2. PICK r \in Rows : r.attempt = p.row.attempt /\ sub' = [sub EXCEPT ![s] = r]
    BY <1>c, <1>2, DoRequeue
  <2>3. UNCHANGED <<executed, overlaps>> BY <1>2 DEF Requeue, ghosts
  <2>4. sub'[s] = r /\ \A i \in Submissions \ {s} : sub'[i] = sub[i] BY <2>1, <2>2, <1>c DEF Tables
  <2>5. s \notin overlaps => executed[s] <= p.row.attempt BY <2>1, <1>t DEF Counted
  <2>6. ~Carries(q) /\ Carries(p) BY <2>1 DEF Carries
  <2>7. Counted(proc[t])' BY <2>6 DEF Counted, Carries
  <2> QED BY <2>1, <2>2, <2>3, <2>4, <2>5, <2>6, <2>7, CountsSaved
<1>3. CASE Get(t)
  <2>1. /\ Moves(t) /\ Kept(p, q) /\ s \in Submissions
        /\ q.todo # <<>> /\ Head(q.todo) \in {"begin", "bury"}
        /\ q.row.attempt = sub[s].attempt + 1
    BY <1>c, <1>3, DoGet
  <2>2. UNCHANGED <<sub, executed, overlaps>> BY <1>3 DEF Get, rows, ghosts
  <2>3. Counted(proc[t])'
    <3>1. s \notin overlaps => executed[s] + 1 <= q.row.attempt BY <2>1, <1>t
    <3> QED BY <3>1, <2>1, <2>2, <1>t DEF Counted, Kept
  <2>4. \A u \in Threads : proc'[u] = proc[u] \/ Counted(proc[u])' BY <2>1, <2>3 DEF Moves
  <2> QED BY <2>2, <2>4, CountsKept
<1>4. CASE Begin(t) \/ Store(t)
  <2>1. /\ p.todo # <<>> /\ Head(p.todo) \in {"begin", "store"} /\ Become(t, Advanced(p))
        /\ sub' = [sub EXCEPT ![s] = p.row] /\ UNCHANGED <<executed, overlaps>>
    BY <1>4 DEF Begin, Store, At, ghosts
  <2>2. /\ Moves(t) /\ Advances(p, q)
        /\ q.todo = <<>> => q = Idle
        /\ q.todo # <<>> => q.row = p.row
    BY <1>c, <2>1, DoAdvance
  <2>3. s \in Submissions BY <1>c, <2>1, HeadFacts
  <2>4. sub'[s] = p.row /\ \A i \in Submissions \ {s} : sub'[i] = sub[i]
    BY <2>1, <2>3, <1>c DEF Tables
  <2>5. Carries(p) BY <2>1 DEF Carries
  <2>6. s \notin overlaps => executed[s] <= p.row.attempt
    BY <2>1, <2>3, <1>t, <1>r DEF Counted
  <2>7. q.todo # <<>> => Precedes(Head(p.todo), Head(q.todo)) /\ Kept(p, q)
    <3>1. Sane(q) BY <2>2 DEF Moves
    <3> QED BY <3>1, <2>2, HeadFacts DEF Advances
  <2>8. Carries(q) => q.sub = s /\ Head(p.todo) = "begin" /\ Head(q.todo) = "execute" /\ q.row = p.row
    <3> SUFFICES ASSUME Carries(q)
                 PROVE  q.sub = s /\ Head(p.todo) = "begin" /\ Head(q.todo) = "execute" /\ q.row = p.row
      OBVIOUS
    <3>1. q.todo # <<>> /\ Kept(p, q) /\ Precedes(Head(p.todo), Head(q.todo)) BY <2>7 DEF Carries
    <3>2. Head(p.todo) = "begin" BY <3>1, <2>1 DEF Carries, Precedes, Enders
    <3>3. Head(q.todo) = "execute" BY <3>2, <2>2 DEF Advances, Before, Follows
    <3> QED BY <3>1, <3>2, <3>3, <2>2 DEF Kept
  <2>9. s \notin overlaps => Counted(proc[t])'
    <3> SUFFICES ASSUME s \notin overlaps, Carries(q) PROVE Counted(proc[t])'
      BY DEF Counted, Carries
    <3>1. executed[s] + 1 <= p.row.attempt BY <2>1, <2>8, <1>t DEF Counted
    <3> QED BY <3>1, <2>1, <2>4, <2>8 DEF Counted
  <2> QED BY <2>1, <2>2, <2>4, <2>5, <2>6, <2>8, <2>9, CountsSaved
<1>5. CASE Execute(t)
  <2>1. /\ Moves(t) /\ Kept(p, q) /\ s \in Submissions
        /\ p.todo # <<>> /\ Head(p.todo) = "execute"
        /\ q.todo # <<>> /\ Head(q.todo) \in {"store", "bury"}
        /\ q.row.attempt = p.row.attempt
    BY <1>c, <1>5, DoExecute
  <2>2. UNCHANGED <<sub, overlaps>> /\ executed' = [executed EXCEPT ![s] = @ + 1]
    BY <1>5 DEF Execute, ghosts
  <2>3. executed'[s] = executed[s] + 1 /\ \A i \in Submissions \ {s} : executed'[i] = executed[i]
    BY <2>1, <2>2, <1>c DEF Tables
  <2>4. s \notin overlaps => executed[s] + 1 <= p.row.attempt /\ executed[s] + 1 <= sub[s].attempt
    BY <2>1, <1>t DEF Counted
  <2>5. s \notin overlaps => Counted(proc[t])'
    BY <2>1, <2>2, <2>3, <2>4 DEF Counted, Kept
  <2>6. Carries(p) BY <2>1 DEF Carries
  <2> QED BY <2>1, <2>2, <2>3, <2>4, <2>5, <2>6, CountsSaved DEF Kept
<1>6. CASE Bury(t)
  <2>1. /\ p.todo # <<>> /\ Head(p.todo) = "bury" /\ Become(t, Advanced(p))
        /\ UNCHANGED <<sub, executed, overlaps>>
    BY <1>6 DEF Bury, At, ghosts
  <2>2. Moves(t) /\ Counted(proc[t])' BY <2>1, BuryCounted
  <2>3. \A u \in Threads : proc'[u] = proc[u] \/ Counted(proc[u])' BY <2>2 DEF Moves
  <2> QED BY <2>1, <2>3, CountsKept
<1> QED BY <1>1, <1>2, <1>3, <1>4, <1>5, <1>6

\* The steps that leave the thread without a row to save.
LEMMA Uncarried ==
  ASSUME Base, NEW t \in Threads,
         \/ \E k \in IdemKeys \cup {NoKey}, now \in BOOLEAN : Create(t, k, now)
         \/ Find(t) \/ Enqueue(t) \/ Record(t) \/ EnqueueFails(t)
         \/ Return(t) \/ Mark(t) \/ PreflightFails(t) \/ MarkFails(t) \/ Crash(t)
         \/ \E j \in Jobs : Claim(t, j)
         \/ \E s \in Submissions, kind \in Posted : PostFails(t, s, kind)
         \/ \E s \in Submissions : ReplayDeadLetter(t, s)
  PROVE  Moves(t) /\ ~Carries(proc'[t]) /\ UNCHANGED <<sub, executed>> /\ overlaps \subseteq overlaps'
<1> DEFINE p == proc[t]  q == proc'[t]
<1>c. Core /\ Sane(p) BY DEF Base, Core
<1>1. CASE \E k \in IdemKeys \cup {NoKey}, now \in BOOLEAN : Create(t, k, now)
  <2>1. PICK k \in IdemKeys \cup {NoKey}, now \in BOOLEAN : Create(t, k, now) BY <1>1
  <2>2. Moves(t) /\ q.todo # <<>> /\ Head(q.todo) = "find" BY <1>c, <2>1, DoCreate
  <2> QED BY <2>1, <2>2 DEF Create, Carries, rows
<1>2. CASE Find(t)
  <2>1. Moves(t) /\ Range(q.todo) \subseteq {"insert", "enqueue", "record"} BY <1>c, <1>2, DoFind
  <2>2. q.todo # <<>> => Head(q.todo) \in Range(q.todo) BY <2>1, HeadFacts DEF Moves
  <2> QED BY <2>1, <2>2, <1>2 DEF Find, Carries, rows, ghosts
<1>3. CASE Enqueue(t) \/ Return(t)
  <2>1. /\ p.todo # <<>> /\ Head(p.todo) \in {"enqueue", "return"} /\ Become(t, Advanced(p))
        /\ UNCHANGED <<rows, ghosts>>
    BY <1>3 DEF Enqueue, Return, At
  <2>2. Moves(t) /\ Advances(p, q) BY <1>c, <2>1, DoAdvance
  <2>3. q.todo # <<>> => Precedes(Head(p.todo), Head(q.todo))
    BY <2>2, HeadFacts DEF Moves, Advances
  <2> QED BY <2>1, <2>2, <2>3 DEF Carries, Precedes, rows, ghosts
<1>4. CASE Record(t) \/ Mark(t) \/ MarkFails(t) \/ Crash(t)
  <2>1. Moves(t) /\ q = Idle BY <1>c, <1>4, DoIdle DEF Record, Mark, MarkFails, Crash
  <2> QED BY <2>1, <1>4, IdleSane DEF Carries, Record, Mark, MarkFails, Crash, rows, ghosts
<1>5. CASE EnqueueFails(t)
  <2>1. Moves(t) /\ q.todo # <<>> /\ Head(q.todo) = "get" BY <1>c, <1>5, DoEnqueueFails
  <2> QED BY <2>1, <1>5 DEF Carries, EnqueueFails, NowOverlapping, rows
<1>6. CASE PreflightFails(t)
  <2>1. Moves(t) /\ (q.todo # <<>> => Head(q.todo) \in {"refuse", "fail"})
    BY <1>c, <1>6, DoFailing DEF PreflightFails
  <2> QED BY <2>1, <1>6 DEF Carries, PreflightFails, rows
<1>7. ASSUME NEW s, Starts(t, s), NowOverlapping(t, s), UNCHANGED <<sub, executed>>
      PROVE  Moves(t) /\ ~Carries(proc'[t]) /\ UNCHANGED <<sub, executed>>
               /\ overlaps \subseteq overlaps'
  BY <1>7 DEF Starts, Carries, NowOverlapping
<1>8. CASE \E j \in Jobs : Claim(t, j)
  <2>1. PICK j \in Jobs : Claim(t, j) BY <1>8
  <2>2. Starts(t, j[1]) BY <1>c, <2>1, DoClaim
  <2> QED BY <2>1, <2>2, <1>7 DEF Claim, rows
<1>9. CASE \E s \in Submissions, kind \in Posted : PostFails(t, s, kind)
  <2>1. PICK s \in Submissions, kind \in Posted : PostFails(t, s, kind) BY <1>9
  <2>2. kind \in Kinds BY PostedAssumption DEF Kinds
  <2>3. Starts(t, s) BY <1>c, <2>1, <2>2, DoRequest DEF PostFails
  <2> QED BY <2>1, <2>3, <1>7 DEF PostFails, rows
<1>10. CASE \E s \in Submissions : ReplayDeadLetter(t, s)
  <2>1. PICK s \in Submissions : ReplayDeadLetter(t, s) BY <1>10
  <2>2. StepsOf("retry") = RetrySteps /\ "retry" \in Kinds BY DEF StepsOf, Kinds
  <2>3. Starts(t, s) BY <1>c, <2>1, <2>2, DoRequest DEF ReplayDeadLetter
  <2> QED BY <2>1, <2>3, <1>7 DEF ReplayDeadLetter
<1> QED BY <1>1, <1>2, <1>3, <1>4, <1>5, <1>6, <1>8, <1>9, <1>10

\* Every step keeps the counts.
LEMMA CountsNext ==
  ASSUME Base, CallsCounted, [Next]_vars
  PROVE  CallsCounted'
<1>u. ASSUME NEW t \in Threads,
             Moves(t) /\ ~Carries(proc'[t]) /\ UNCHANGED <<sub, executed>> /\ overlaps \subseteq overlaps'
      PROVE  CallsCounted'
  BY <1>u, CountsMoved
<1>p. ASSUME UNCHANGED <<sub, executed, proc, overlaps>> PROVE CallsCounted'
  BY <1>p, CountsKept
<1>1. CASE Next
  <2>1. CASE \E t \in Threads : Insert(t) BY <2>1, CountsInsert
  <2>2. CASE \E t \in Threads, k \in IdemKeys \cup {NoKey}, now \in BOOLEAN : Create(t, k, now)
    BY <2>2, <1>u, Uncarried
  <2>3. CASE \E t \in Threads : Find(t) \/ Enqueue(t) \/ Record(t) \/ EnqueueFails(t)
    BY <2>3, <1>u, Uncarried
  <2>4. CASE \E t \in Threads :
               Read(t) \/ Requeue(t) \/ Get(t) \/ Begin(t) \/ Execute(t) \/ Bury(t) \/ Store(t)
    BY <2>4, CountsDelivery
  <2>5. CASE \E t \in Threads :
               Return(t) \/ Mark(t) \/ PreflightFails(t) \/ SaveFails(t) \/ MarkFails(t) \/ Crash(t)
    <3>1. PICK t \in Threads :
            Return(t) \/ Mark(t) \/ PreflightFails(t) \/ SaveFails(t) \/ MarkFails(t) \/ Crash(t)
      BY <2>5
    <3>2. CASE SaveFails(t)
      <4>1. UNCHANGED <<sub, executed, overlaps>> BY <3>2 DEF SaveFails, rows
      <4>2. Moves(t) /\ Counted(proc[t])'
        <5>1. CASE /\ proc[t].todo # <<>> /\ Head(proc[t].todo) \in {"bury", "store"}
                   /\ Become(t, Advanced(proc[t]))
          BY <5>1, <4>1, BuryCounted
        <5>2. CASE Become(t, Idle)
          <6>1. Moves(t) /\ ~Carries(proc'[t]) BY <5>2, DoIdle, IdleSane DEF Base, Carries
          <6> QED BY <6>1 DEF Counted, Carries
        <5>3. CASE Become(t, Failing(proc[t]))
          <6>1. Moves(t) /\ ~Carries(proc'[t]) BY <5>3, DoFailing DEF Base, Carries
          <6> QED BY <6>1 DEF Counted, Carries
        <5> QED BY <3>2, <5>1, <5>2, <5>3, SaveFailsWays
      <4>3. \A u \in Threads : proc'[u] = proc[u] \/ Counted(proc[u])' BY <4>2 DEF Moves
      <4> QED BY <4>1, <4>3, CountsKept
    <3>3. CASE Return(t) \/ Mark(t) \/ PreflightFails(t) \/ MarkFails(t) \/ Crash(t)
      BY <3>3, <1>u, Uncarried
    <3> QED BY <3>1, <3>2, <3>3
  <2>6. CASE \E t \in Threads :
               \/ \E j \in Jobs : Claim(t, j)
               \/ \E s \in Submissions, kind \in Posted : PostFails(t, s, kind)
               \/ \E s \in Submissions : ReplayDeadLetter(t, s)
    BY <2>6, <1>u, Uncarried
  <2>7. CASE \/ \E s \in Submissions, kind \in Posted : Post(s, kind)
             \/ \E j \in Jobs : RequeueJob(j)
    BY <2>7, <1>p DEF Post, RequeueJob, rows
  <2> QED BY <1>1, <2>1, <2>2, <2>3, <2>4, <2>5, <2>6, <2>7, NextGroups
<1>2. CASE UNCHANGED vars BY <1>2, <1>p DEF vars, rows, ghosts
<1> QED BY <1>1, <1>2

\* The attempt count of a submission covers every call of its adapter
\* (ProcessSubmission saves the count before the call), over crashes, errors and
\* retries at any step, unless two threads process it at once.
THEOREM AttemptsCovered == Spec => []AttemptsCoverSends
<1>1. Init => CallsCounted
  <2> SUFFICES ASSUME Init PROVE CallsCounted OBVIOUS
  <2>1. \A s \in Submissions : executed[s] = 0 /\ sub[s] = NoRow BY DEF Init
  <2>2. NoRow.attempt = 0 BY DEF NoRow
  <2>3. \A t \in Threads : proc[t] = Idle BY DEF Init
  <2>4. ~Carries(Idle) BY IdleSane DEF Carries
  <2>5. \A t \in Threads : Counted(proc[t]) BY <2>3, <2>4 DEF Counted, Carries
  <2> QED BY <2>1, <2>2, <2>5 DEF CallsCounted, AttemptsCoverSends
<1>2. Base /\ CallsCounted /\ [Next]_vars => CallsCounted' BY CountsNext
<1>3. CallsCounted => AttemptsCoverSends BY DEF CallsCounted
<1> QED BY <1>1, <1>2, <1>3, BaseInvariance, PTL DEF Spec

-----------------------------------------------------------------------------
(* PROOFS: dead letters *)

\* The thread at a read or requeue of s may be the replay of a dead letter.
Rereads(p, s) == p.sub = s /\ p.todo # <<>> /\ Head(p.todo) \in {"read", "requeue"}
\* The thread must not save p's row as a dead letter that is not open.
Buries(p, s, open) ==
  (p.sub = s /\ p.todo # <<>> /\ p.row.status = "dead_letter") =>
    Head(p.todo) # "begin" /\ (Head(p.todo) = "store" => open)

\* A step of t keeps a submission listed.
LEMMA ListedStep ==
  ASSUME NEW t \in Threads, Moves(t), NEW s \in Submissions, Listed(s),
         \/ sub'[s].status # "dead_letter" \/ dead'[s] = "open" \/ Rereads(proc'[t], s)
         \/ /\ sub[s].status = "dead_letter" /\ dead'[s] = dead[s] /\ ~Rereads(proc[t], s),
         dead[s] = "open" => dead'[s] = "open" \/ \A u \in Threads \ {t} :
                                                    proc[u].sub = s => ~At(u, "store"),
         Buries(proc'[t], s, dead'[s] = "open")
  PROVE  Listed(s)'
<1>m. \A u \in Threads \ {t} : proc'[u] = proc[u] BY DEF Moves
<1>1. ASSUME sub'[s].status = "dead_letter", dead'[s] # "open"
      PROVE  \E v \in Threads : proc'[v].sub = s /\ (At(v, "read")' \/ At(v, "requeue")')
  <2>1. CASE Rereads(proc'[t], s) BY <2>1 DEF Rereads, At
  <2>2. CASE /\ sub[s].status = "dead_letter" /\ dead'[s] = dead[s] /\ ~Rereads(proc[t], s)
    <3>1. PICK v \in Threads : proc[v].sub = s /\ (At(v, "read") \/ At(v, "requeue"))
      BY <1>1, <2>2 DEF Listed
    <3>2. v # t BY <3>1, <2>2 DEF Rereads, At
    <3> QED BY <3>1, <3>2, <1>m DEF At
  <2> QED BY <1>1, <2>1, <2>2
<1>2. ASSUME NEW u \in Threads, proc'[u].sub = s, proc'[u].row.status = "dead_letter"
      PROVE  ~At(u, "begin")' /\ (At(u, "store")' => dead'[s] = "open")
  <2>1. CASE u = t BY <1>2, <2>1 DEF Buries, At
  <2>2. CASE u # t BY <1>2, <2>2, <1>m DEF Listed, At
  <2> QED BY <2>1, <2>2
<1> QED BY <1>1, <1>2 DEF Listed

\* The steps of threads on other submissions, and of threads at other steps.
LEMMA ListedAside ==
  ASSUME NEW t \in Threads, Moves(t), NEW s \in Submissions, Listed(s),
         sub'[s] = sub[s], dead'[s] = dead[s], ~Carries(proc'[t]), ~Rereads(proc[t], s)
  PROVE  Listed(s)'
<1>1. Buries(proc'[t], s, dead'[s] = "open") BY DEF Buries, Carries
<1> QED BY <1>1, ListedStep

\* The steps of a delivery keep every submission listed.
LEMMA ListedDelivery ==
  ASSUME Base, NEW t \in Threads, NEW s \in Submissions, s \notin overlaps, Listed(s),
         Read(t) \/ Requeue(t) \/ Get(t) \/ Begin(t) \/ Execute(t) \/ Bury(t) \/ Store(t)
  PROVE  Listed(s)'
<1> DEFINE p == proc[t]  q == proc'[t]
<1>c. Core /\ Tables /\ Sane(p) BY DEF Base, Core
<1>b. Buries(p, s, dead[s] = "open") BY DEF Listed, Buries, At
<1>1. CASE Read(t)
  <2>1. /\ Moves(t) /\ Kept(p, q) /\ p.todo # <<>> /\ Head(p.todo) = "read"
        /\ q.todo # <<>> /\ Head(q.todo) = "requeue"
    BY <1>c, <1>1, DoRead
  <2>2. UNCHANGED <<sub, dead>> BY <1>1 DEF Read, rows
  <2>3. Buries(q, s, dead'[s] = "open") BY <2>1 DEF Buries
  <2>4. Rereads(p, s) => Rereads(q, s) BY <2>1 DEF Rereads, Kept
  <2> QED BY <2>1, <2>2, <2>3, <2>4, ListedStep
<1>2. CASE Requeue(t)
  <2>1. /\ Moves(t) /\ Kept(p, q) /\ p.sub \in Submissions
        /\ q.todo # <<>> /\ Head(q.todo) = "get"
    BY <1>c, <1>2, DoRequeue
  <2>2. PICK r \in Rows : r.status = "queued" /\ sub' = [sub EXCEPT ![p.sub] = r]
    BY <1>c, <1>2, DoRequeue
  <2>3. dead' = dead BY <1>2 DEF Requeue
  <2>4. Buries(q, s, dead'[s] = "open") BY <2>1 DEF Buries
  <2>5. CASE p.sub = s
    <3>1. sub'[s] = r BY <2>1, <2>2, <2>5, <1>c DEF Tables
    <3> QED BY <3>1, <2>1, <2>2, <2>3, <2>4, ListedStep
  <2>6. CASE p.sub # s
    <3>1. sub'[s] = sub[s] BY <2>1, <2>2, <2>6, <1>c DEF Tables
    <3>2. ~Rereads(p, s) BY <2>6 DEF Rereads
    <3> QED BY <3>1, <3>2, <2>1, <2>3, <2>4, ListedStep
  <2> QED BY <2>5, <2>6
<1>3. CASE Get(t)
  <2>1. /\ Moves(t) /\ p.todo # <<>> /\ Head(p.todo) = "get"
        /\ q.todo # <<>>
        /\ \/ Head(q.todo) = "begin" /\ q.row.status = "processing"
           \/ Head(q.todo) = "bury"
    BY <1>c, <1>3, DoGet
  <2>2. UNCHANGED <<sub, dead>> BY <1>3 DEF Get, rows
  <2>3. Buries(q, s, dead'[s] = "open") BY <2>1 DEF Buries
  <2>4. ~Rereads(p, s) BY <2>1 DEF Rereads
  <2> QED BY <2>1, <2>2, <2>3, <2>4, ListedStep
<1>4. CASE Execute(t)
  <2>1. /\ Moves(t) /\ p.todo # <<>> /\ Head(p.todo) = "execute" /\ q.todo # <<>>
        /\ \/ Head(q.todo) = "store" /\ q.row.status # "dead_letter"
           \/ Head(q.todo) = "bury"
    BY <1>c, <1>4, DoExecute
  <2>2. UNCHANGED <<sub, dead>> BY <1>4 DEF Execute
  <2>3. Buries(q, s, dead'[s] = "open") BY <2>1 DEF Buries
  <2>4. ~Rereads(p, s) BY <2>1 DEF Rereads
  <2> QED BY <2>1, <2>2, <2>3, <2>4, ListedStep
<1>5. CASE Begin(t) \/ Bury(t) \/ Store(t)
  <2>1. /\ p.todo # <<>> /\ Head(p.todo) \in {"begin", "bury", "store"} /\ Become(t, Advanced(p))
    BY <1>5 DEF Begin, Bury, Store, At
  <2>2. p.sub \in Submissions BY <1>c, <2>1, HeadFacts
  <2>3. Moves(t) /\ Advances(p, q) /\ (q.todo # <<>> => q.row = p.row) BY <1>c, <2>1, DoAdvance
  <2>4. ~Rereads(p, s) BY <2>1 DEF Rereads
  <2>5. q.todo # <<>> => Precedes(Head(p.todo), Head(q.todo)) /\ Kept(p, q)
    BY <2>3, HeadFacts DEF Moves, Advances
  <2>6. CASE Begin(t) \/ Store(t)
    <3>1. sub' = [sub EXCEPT ![p.sub] = p.row] /\ dead' = dead /\ Head(p.todo) \in {"begin", "store"}
      BY <2>6 DEF Begin, Store, At
    <3>2. Buries(q, s, dead'[s] = "open")
      <4>1. ASSUME q.todo # <<>> PROVE Head(q.todo) \notin {"begin", "store"}
        <5>1. Head(p.todo) = "begin" => Head(q.todo) = "execute"
          BY <2>3 DEF Advances, Before, Follows
        <5>2. Head(p.todo) = "store" => Head(q.todo) \in Enders BY <2>5, <4>1 DEF Precedes
        <5> QED BY <5>1, <5>2, <3>1 DEF Enders
      <4> QED BY <4>1 DEF Buries
    <3>3. CASE p.sub # s
      <4>1. sub'[s] = sub[s] BY <2>2, <3>1, <3>3, <1>c DEF Tables
      <4> QED BY <4>1, <2>3, <2>4, <3>1, <3>2, ListedStep
    <3>4. CASE p.sub = s
      <4>1. sub'[s] = p.row BY <2>2, <3>1, <3>4, <1>c DEF Tables
      <4>2. sub'[s].status # "dead_letter" \/ dead'[s] = "open"
        BY <4>1, <3>1, <3>4, <1>b, <2>1 DEF Buries
      <4> QED BY <4>2, <2>3, <3>1, <3>2, ListedStep
    <3> QED BY <3>3, <3>4
  <2>7. CASE Bury(t)
    <3>1. dead' = [dead EXCEPT ![p.sub] = "open"] /\ sub' = sub /\ Head(p.todo) = "bury"
      BY <2>7 DEF Bury, At
    <3>2. q.todo # <<>> /\ Head(q.todo) = "store" /\ Kept(p, q)
      BY <2>3, <2>5, <3>1 DEF Advances, Before, Follows
    <3>3. dead'[p.sub] = "open" /\ (p.sub # s => dead'[s] = dead[s])
      BY <2>2, <3>1, <1>c DEF Tables
    <3>4. Buries(q, s, dead'[s] = "open") BY <3>2, <3>3 DEF Buries, Kept
    <3> QED BY <2>3, <2>4, <3>1, <3>3, <3>4, ListedStep
  <2> QED BY <1>5, <2>6, <2>7
<1> QED BY <1>1, <1>2, <1>3, <1>4, <1>5

\* The other steps of threads that are no faults keep every submission listed.
LEMMA ListedOthers ==
  ASSUME Base, NEW t \in Threads, NEW s \in Submissions, s \notin overlaps', faults' = faults, Listed(s),
         \/ Insert(t)
         \/ \E k \in IdemKeys \cup {NoKey}, now \in BOOLEAN : Create(t, k, now)
         \/ Find(t) \/ Enqueue(t) \/ Record(t) \/ Return(t) \/ Mark(t)
         \/ \E j \in Jobs : Claim(t, j)
         \/ \E r \in Submissions : ReplayDeadLetter(t, r)
  PROVE  Listed(s)'
<1> DEFINE p == proc[t]  q == proc'[t]
<1>c. Core /\ Tables /\ Sane(p) BY DEF Base, Core
<1>f. faults \in Nat BY <1>c DEF Tables
<1>i. ~Rereads(Idle, s) BY IdleSane DEF Rereads
<1>1. CASE Insert(t)
  <2>1. /\ Moves(t) /\ p.todo # <<>> /\ Head(p.todo) = "insert"
        /\ q.todo # <<>> => Head(q.todo) \in {"enqueue", "record"}
    BY <1>1, DoInsert DEF Base
  <2>2. PICK r \in Submissions :
          /\ ~Exists(r)
          /\ sub' = [sub EXCEPT ![r] = [status |-> "queued", attempt |-> 0, key |-> p.key]]
    BY <1>1, DoInsert DEF Base
  <2>3. dead' = dead BY <1>1 DEF Insert
  <2>4. ~Carries(q) /\ ~Rereads(p, s) BY <2>1 DEF Carries, Rereads
  <2>5. Buries(q, s, dead'[s] = "open") BY <2>4 DEF Buries, Carries
  <2>6. sub'[s].status # "dead_letter" \/ sub'[s] = sub[s]
    BY <2>2, <1>c DEF Tables
  <2> QED BY <2>1, <2>3, <2>4, <2>5, <2>6, ListedStep
<1>2. CASE \/ \E k \in IdemKeys \cup {NoKey}, now \in BOOLEAN : Create(t, k, now)
           \/ Find(t) \/ Enqueue(t) \/ Record(t) \/ Return(t) \/ Mark(t)
           \/ \E j \in Jobs : Claim(t, j)
  <2>1. Moves(t) /\ ~Carries(q) /\ sub' = sub BY <1>2, Uncarried
  <2>2. dead' = dead BY <1>2 DEF Create, Find, Enqueue, Record, Return, Mark, Claim, rows
  <2>3. p = Idle \/ (p.todo # <<>> /\ Head(p.todo) \notin {"read", "requeue"})
    BY <1>2 DEF Create, Find, Enqueue, Record, Return, Mark, Claim, At
  <2>4. ~Rereads(p, s) BY <2>3, <1>i DEF Rereads
  <2> QED BY <2>1, <2>2, <2>4, ListedAside
<1>3. CASE \E r \in Submissions : ReplayDeadLetter(t, r)
  <2>1. PICK r \in Submissions : ReplayDeadLetter(t, r) BY <1>3
  <2>2. /\ Become(t, [Idle EXCEPT !.todo = RetrySteps, !.sub = r]) /\ NowOverlapping(t, r)
        /\ dead' = [dead EXCEPT ![r] = "replayed"] /\ sub' = sub /\ p = Idle
    <3>1. ~Fault BY <1>f DEF Fault
    <3> QED BY <3>1, <2>1 DEF ReplayDeadLetter
  <2>3. StepsOf("retry") = RetrySteps /\ "retry" \in Kinds BY DEF StepsOf, Kinds
  <2>4. Starts(t, r) /\ Head(q.todo) = "read" BY <1>c, <2>2, <2>3, DoRequest
  <2>5. Moves(t) /\ q.sub = r /\ q.todo # <<>> BY <2>4 DEF Starts
  <2>6. Buries(q, s, dead'[s] = "open") BY <2>4 DEF Buries
  <2>7. CASE r = s
    <3>1. \A u \in Threads \ {t} : ~WorksOn(u, s) BY <2>2, <2>7 DEF NowOverlapping
    <3>2. ASSUME NEW u \in Threads \ {t}, proc[u].sub = s PROVE ~At(u, "store")
      <4>1. Sane(proc[u]) BY <1>c DEF Core
      <4> QED BY <3>1, <3>2, <4>1, HeadFacts DEF WorksOn, At, RowSteps
    <3>3. Rereads(q, s) BY <2>4, <2>5, <2>7 DEF Rereads
    <3> QED BY <3>2, <3>3, <2>5, <2>6, ListedStep
  <2>8. CASE r # s
    <3>1. dead'[s] = dead[s] BY <2>2, <2>8, <1>c DEF Tables
    <3> QED BY <3>1, <2>2, <2>5, <2>6, <1>i, ListedStep
  <2> QED BY <2>7, <2>8
<1> QED BY <1>1, <1>2, <1>3

\* Every step keeps the dead letters listed.
LEMMA LettersNext ==
  ASSUME Base, LettersListed, [Next]_vars
  PROVE  LettersListed'
<1>f. faults \in Nat BY DEF Base, Core, Tables
<1>1. CASE Next
  <2> SUFFICES ASSUME NEW s \in Submissions, faults' = 0, s \notin overlaps' PROVE Listed(s)'
    BY DEF LettersListed
  <2>0. overlaps \subseteq overlaps' /\ (faults' = faults \/ faults' = faults + 1)
    <3>1. CASE \E t \in Threads, k \in IdemKeys \cup {NoKey}, now \in BOOLEAN : Create(t, k, now)
      BY <3>1 DEF Create
    <3>2. CASE \E t \in Threads :
                 Insert(t) \/ Find(t) \/ Enqueue(t) \/ Record(t) \/ EnqueueFails(t)
      BY <3>2 DEF Insert, Find, Enqueue, Record, EnqueueFails, NowOverlapping, Fault, ghosts
    <3>3. CASE \E t \in Threads :
                 Read(t) \/ Requeue(t) \/ Get(t) \/ Begin(t) \/ Execute(t) \/ Bury(t) \/ Store(t)
      BY <3>3 DEF Read, Requeue, Get, Begin, Execute, Bury, Store, ghosts
    <3>4. CASE \E t \in Threads :
                 Return(t) \/ Mark(t) \/ PreflightFails(t) \/ SaveFails(t) \/ MarkFails(t) \/ Crash(t)
      BY <3>4 DEF Return, Mark, PreflightFails, SaveFails, MarkFails, Crash, Fault, ghosts
    <3>5. CASE \E t \in Threads :
                 \/ \E j \in Jobs : Claim(t, j)
                 \/ \E r \in Submissions, kind \in Posted : PostFails(t, r, kind)
                 \/ \E r \in Submissions : ReplayDeadLetter(t, r)
      BY <3>5 DEF Claim, PostFails, ReplayDeadLetter, NowOverlapping, Fault
    <3>6. CASE \/ \E r \in Submissions, kind \in Posted : Post(r, kind)
               \/ \E j \in Jobs : RequeueJob(j)
      BY <3>6 DEF Post, RequeueJob
    <3> QED BY <1>1, <3>1, <3>2, <3>3, <3>4, <3>5, <3>6, NextGroups
  <2>1. faults = 0 /\ faults' = faults /\ s \notin overlaps BY <2>0, <1>f
  <2>2. Listed(s) BY <2>1 DEF LettersListed
  <2>3. CASE \E t \in Threads : Insert(t) BY <2>1, <2>2, <2>3, ListedOthers
  <2>4. CASE \E t \in Threads, k \in IdemKeys \cup {NoKey}, now \in BOOLEAN : Create(t, k, now)
    BY <2>1, <2>2, <2>4, ListedOthers
  <2>5. CASE \E t \in Threads : Find(t) \/ Enqueue(t) \/ Record(t) \/ EnqueueFails(t)
    <3>1. ASSUME NEW t \in Threads, EnqueueFails(t) PROVE FALSE
      BY <3>1, <2>1 DEF EnqueueFails, Fault
    <3> QED BY <3>1, <2>1, <2>2, <2>5, ListedOthers
  <2>6. CASE \E t \in Threads :
               Read(t) \/ Requeue(t) \/ Get(t) \/ Begin(t) \/ Execute(t) \/ Bury(t) \/ Store(t)
    BY <2>1, <2>2, <2>6, ListedDelivery
  <2>7. CASE \E t \in Threads :
               Return(t) \/ Mark(t) \/ PreflightFails(t) \/ SaveFails(t) \/ MarkFails(t) \/ Crash(t)
    <3>1. ASSUME NEW t \in Threads, PreflightFails(t) \/ SaveFails(t) \/ MarkFails(t) \/ Crash(t)
          PROVE  FALSE
      BY <3>1, <2>1 DEF PreflightFails, SaveFails, MarkFails, Crash, Fault
    <3> QED BY <3>1, <2>1, <2>2, <2>7, ListedOthers
  <2>8. CASE \E t \in Threads :
               \/ \E j \in Jobs : Claim(t, j)
               \/ \E r \in Submissions, kind \in Posted : PostFails(t, r, kind)
               \/ \E r \in Submissions : ReplayDeadLetter(t, r)
    <3>1. ASSUME NEW t \in Threads, NEW r \in Submissions, NEW kind \in Posted, PostFails(t, r, kind)
          PROVE  FALSE
      BY <3>1, <2>1 DEF PostFails, Fault
    <3> QED BY <3>1, <2>1, <2>2, <2>8, ListedOthers
  <2>9. CASE \/ \E r \in Submissions, kind \in Posted : Post(r, kind)
             \/ \E j \in Jobs : RequeueJob(j)
    <3>1. UNCHANGED <<sub, dead, proc>> BY <2>9 DEF Post, RequeueJob, rows
    <3> QED BY <3>1, <2>2 DEF Listed, At
  <2> QED BY <1>1, <2>3, <2>4, <2>5, <2>6, <2>7, <2>8, <2>9, NextGroups
<1>2. CASE UNCHANGED vars
  BY <1>2 DEF vars, rows, ghosts, LettersListed, Listed, At
<1> QED BY <1>1, <1>2

\* A submission at rest that is dead is on the list of open dead letters
\* (failSubmission and the preflight write the letter before the row), for any
\* number of deliveries, retries and replays, unless a fault came between or two
\* threads processed it at once.
THEOREM DeadLettersListed == Spec => []DeadLetterIsListed
<1>1. Init => LettersListed
  <2> SUFFICES ASSUME Init PROVE LettersListed OBVIOUS
  <2>1. \A s \in Submissions : sub[s] = NoRow BY DEF Init
  <2>2. NoRow.status = "none" BY DEF NoRow
  <2>3. \A t \in Threads : proc[t] = Idle BY DEF Init
  <2> QED BY <2>1, <2>2, <2>3, IdleSane DEF LettersListed, Listed
<1>2. Base /\ LettersListed /\ [Next]_vars => LettersListed' BY LettersNext
<1>3. Base /\ LettersListed => DeadLetterIsListed
  <2> SUFFICES ASSUME Base, LettersListed, NEW s \in Submissions, sub[s].status = "dead_letter",
                      faults = 0, s \notin overlaps, \A t \in Threads : ~WorksOn(t, s)
               PROVE  dead[s] = "open"
    BY DEF DeadLetterIsListed
  <2>1. ASSUME NEW t \in Threads, proc[t].sub = s, At(t, "read") \/ At(t, "requeue") PROVE FALSE
    <3>1. Sane(proc[t]) BY DEF Base, Core
    <3>2. Head(proc[t].todo) \in Range(proc[t].todo) BY <3>1, <2>1, HeadFacts DEF At
    <3> QED BY <3>2, <2>1 DEF At, WorksOn, RowSteps
  <2> QED BY <2>1 DEF LettersListed, Listed
<1> QED BY <1>1, <1>2, <1>3, BaseInvariance, PTL DEF Spec

-----------------------------------------------------------------------------
(* PROOFS: the calls of the adapter were asked for *)

\* The thread may still call the adapter for s.
Mine(p, s) == p.sub = s /\ Sends(p)
\* What was or may be called for s, what was asked for, and that a step keeps
\* the balance of the two.
Owed(s) == executed[s] + Pending(s)
Granted(s) == again[s] + faults
Paid(s) == Owed(s)' + Granted(s) <= Owed(s) + Granted(s)'

\* The types of the sums.
LEMMA OwedTypes ==
  ASSUME Core, NEW s \in Submissions
  PROVE  /\ IsFiniteSet(Senders(s)) /\ Cardinality(Senders(s)) \in Nat
         /\ <<s, "process">> \in Jobs /\ <<s, "retry">> \in Jobs
         /\ executed[s] \in Nat /\ again[s] \in Nat /\ faults \in Nat
         /\ Pending(s) \in Nat
<1>1. IsFiniteSet(Senders(s)) BY ThreadsAssumption, FS_Subset DEF Senders
<1>2. Cardinality(Senders(s)) \in Nat BY <1>1, FS_CardinalityType
<1>3. <<s, "process">> \in Jobs /\ <<s, "retry">> \in Jobs BY DEF Jobs, Kinds
<1>4. executed[s] \in Nat /\ again[s] \in Nat /\ faults \in Nat BY DEF Core, Tables
<1>5. \A b : One(b) \in {0, 1} BY DEF One
<1>6. Pending(s) \in Nat BY <1>2, <1>5 DEF Pending
<1> QED BY <1>1, <1>2, <1>3, <1>4, <1>6

\* A job of s is one of two.
LEMMA JobOf ==
  ASSUME NEW j \in Jobs
  PROVE  /\ j[1] \in Submissions
         /\ j = <<j[1], "process">> \/ j = <<j[1], "retry">>
         /\ j # NoJob
<1>1. j[1] \in Submissions /\ j[2] \in Kinds /\ j = <<j[1], j[2]>> BY DEF Jobs
<1>2. j # NoJob BY DEF Jobs, NoJob
<1> QED BY <1>1, <1>2 DEF Kinds

\* The number of threads that may call changes by the one that steps.
LEMMA SendersStep ==
  ASSUME Core, NEW t \in Threads, Moves(t), NEW s \in Submissions
  PROVE  /\ Cardinality(Senders(s))' + One(Mine(proc[t], s))
              = Cardinality(Senders(s)) + One(Mine(proc'[t], s))
         /\ Cardinality(Senders(s))' \in Nat
<1> DEFINE A == Senders(s)  B == Senders(s)'
<1>1. IsFiniteSet(A) /\ Cardinality(A) \in Nat BY OwedTypes
<1>2. /\ \A u \in Threads \ {t} : u \in B <=> u \in A
      /\ t \in A <=> Mine(proc[t], s)
      /\ t \in B <=> Mine(proc'[t], s)
      /\ A \subseteq Threads /\ B \subseteq Threads
  BY DEF Senders, Mine, Moves, Sends
<1>3. IsFiniteSet(B) /\ Cardinality(B) \in Nat
  <2>1. IsFiniteSet(B) BY <1>2, ThreadsAssumption, FS_Subset
  <2> QED BY <2>1, FS_CardinalityType
<1> HIDE DEF A, B
<1>4. CASE Mine(proc[t], s) /\ Mine(proc'[t], s)
  <2>1. A = B BY <1>2, <1>4
  <2> QED BY <2>1, <1>1, <1>3, <1>4 DEF One, A, B
<1>5. CASE ~Mine(proc[t], s) /\ ~Mine(proc'[t], s)
  <2>1. A = B BY <1>2, <1>5
  <2> QED BY <2>1, <1>1, <1>3, <1>5 DEF One, A, B
<1>6. CASE Mine(proc[t], s) /\ ~Mine(proc'[t], s)
  <2>1. B = A \ {t} /\ t \in A BY <1>2, <1>6
  <2>2. Cardinality(B) = Cardinality(A) - 1 BY <2>1, <1>1, FS_RemoveElement
  <2> QED BY <2>2, <1>1, <1>3, <1>6 DEF One, A, B
<1>7. CASE ~Mine(proc[t], s) /\ Mine(proc'[t], s)
  <2>1. B = A \cup {t} /\ t \notin A BY <1>2, <1>7
  <2>2. Cardinality(B) = Cardinality(A) + 1 BY <2>1, <1>1, FS_AddElement
  <2> QED BY <2>2, <1>1, <1>3, <1>7 DEF One, A, B
<1> QED BY <1>4, <1>5, <1>6, <1>7

\* Who holds a job changes by the thread that steps.
LEMMA HeldStep ==
  ASSUME NEW t \in Threads, Moves(t), NEW j \in Jobs
  PROVE  /\ proc'[t].job = proc[t].job => (Held(j)' <=> Held(j))
         /\ (proc[t].job # j /\ proc'[t].job # j) => (Held(j)' <=> Held(j))
         /\ proc'[t].job = j => Held(j)'
         /\ proc[t].job # j => (Held(j) => Held(j)')
BY DEF Held, Moves

\* The calls that the jobs of s may still make.
Open(s) ==
  One(Waiting(<<s, "process">>)) + One(Waiting(<<s, "retry">>))
    + One(phase[<<s, "process">>] = "absent")

\* The balance of a step of t, in terms of what it changes.
LEMMA PaidStep ==
  ASSUME Core, Core', NEW t \in Threads, Moves(t), NEW s \in Submissions,
         executed'[s] + One(Mine(proc'[t], s)) + Open(s)' + again[s] + faults
           <= executed[s] + One(Mine(proc[t], s)) + Open(s) + again'[s] + faults'
  PROVE  Paid(s)
<1>1. /\ Cardinality(Senders(s)) \in Nat /\ executed[s] \in Nat /\ again[s] \in Nat /\ faults \in Nat
  BY OwedTypes
<1>2. executed'[s] \in Nat /\ again'[s] \in Nat /\ faults' \in Nat BY DEF Core, Tables
<1> DEFINE m == One(Mine(proc[t], s))  n == One(Mine(proc'[t], s))
           c == Cardinality(Senders(s))  d == Cardinality(Senders(s))'
           w == Open(s)  v == Open(s)'
<1>3. d + m = c + n /\ c \in Nat /\ d \in Nat BY <1>1, SendersStep
<1>4. m \in {0, 1} /\ n \in {0, 1} BY DEF One
<1>5. w \in Nat /\ v \in Nat
  <2>1. w \in Nat BY DEF Open, One
  <2>2. v \in Nat BY DEF Open, One
  <2> QED BY <2>1, <2>2
<1>6. Pending(s) = c + w /\ Pending(s)' = d + v
  <2>1. Pending(s) = c + w BY <1>3 DEF Pending, Open, One
  <2>2. Pending(s)' = d + v BY <1>3 DEF Pending, Open, One
  <2> QED BY <2>1, <2>2
<1>7. executed'[s] + n + v + again[s] + faults <= executed[s] + m + w + again'[s] + faults' OBVIOUS
<1> HIDE DEF m, n, c, d, w, v
<1> QED BY <1>1, <1>2, <1>3, <1>4, <1>5, <1>6, <1>7 DEF Paid, Owed, Granted

\* A step that changes neither the jobs nor who holds them.
LEMMA PaidCalm ==
  ASSUME Core, Core', NEW t \in Threads, Moves(t), NEW s \in Submissions,
         phase' = phase, executed'[s] = executed[s], proc'[t].job = proc[t].job,
         again[s] <= again'[s], faults <= faults',
         Mine(proc'[t], s) =>
           \/ Mine(proc[t], s) \/ faults' = faults + 1 \/ again'[s] = again[s] + 1
  PROVE  Paid(s)
<1>1. /\ executed[s] \in Nat /\ again[s] \in Nat /\ faults \in Nat
      /\ <<s, "process">> \in Jobs /\ <<s, "retry">> \in Jobs
  BY OwedTypes
<1>2. again'[s] \in Nat /\ faults' \in Nat BY DEF Core, Tables
<1>3. /\ Waiting(<<s, "process">>)' <=> Waiting(<<s, "process">>)
      /\ Waiting(<<s, "retry">>)' <=> Waiting(<<s, "retry">>)
  BY <1>1, HeldStep DEF Waiting
<1>4. Open(s)' = Open(s) /\ Open(s) \in Nat
  <2>1. Open(s)' = Open(s) BY <1>3 DEF Open, One
  <2>2. Open(s) \in Nat BY DEF Open, One
  <2> QED BY <2>1, <2>2
<1>5. One(Mine(proc'[t], s)) + again[s] + faults <= One(Mine(proc[t], s)) + again'[s] + faults'
  BY <1>1, <1>2 DEF One
<1>6. One(Mine(proc'[t], s)) \in Nat /\ One(Mine(proc[t], s)) \in Nat BY DEF One
<1>7. executed'[s] + One(Mine(proc'[t], s)) + Open(s)' + again[s] + faults
           <= executed[s] + One(Mine(proc[t], s)) + Open(s) + again'[s] + faults'
  BY <1>1, <1>2, <1>4, <1>5, <1>6
<1> QED BY <1>7, PaidStep

\* The balance of a step on the jobs: only the job j changes, and only its
\* waiting matters.
LEMMA OpenStep ==
  ASSUME Core, Core', NEW s \in Submissions, NEW j \in Jobs,
         \A i \in Jobs \ {j} : Waiting(i)' <=> Waiting(i),
         \A i \in Jobs : phase'[i] = "absent" <=> phase[i] = "absent"
  PROVE  /\ Open(s) \in Nat /\ Open(s)' \in Nat
         /\ j[1] = s => Open(s)' + One(Waiting(j)) = Open(s) + One(Waiting(j)')
         /\ j[1] # s => Open(s)' = Open(s)
<1>1. Open(s) \in Nat /\ Open(s)' \in Nat
  <2>1. Open(s) \in Nat BY DEF Open, One
  <2>2. Open(s)' \in Nat BY DEF Open, One
  <2> QED BY <2>1, <2>2
<1> DEFINE a == <<s, "process">>  b == <<s, "retry">>
<1>2. a \in Jobs /\ b \in Jobs /\ a # b /\ a[1] = s /\ b[1] = s BY OwedTypes
<1>3. CASE j[1] # s
  <2>1. a # j /\ b # j BY <1>2, <1>3
  <2>2. /\ Waiting(a)' <=> Waiting(a)
        /\ Waiting(b)' <=> Waiting(b)
        /\ phase'[a] = "absent" <=> phase[a] = "absent"
    BY <1>2, <2>1
  <2> QED BY <2>2, <1>1, <1>3 DEF Open, One
<1>4. CASE j[1] = s
  <2>1. j = a \/ j = b BY <1>4, JobOf
  <2>2. CASE j = a
    <3>1. /\ Waiting(b)' <=> Waiting(b)
          /\ phase'[a] = "absent" <=> phase[a] = "absent"
      BY <1>2, <1>4, <2>2
    <3> HIDE DEF a, b
    <3>2. Open(s) = One(Waiting(a)) + One(Waiting(b)) + One(phase[a] = "absent")
      BY DEF Open, a, b
    <3>3. Open(s)' = One(Waiting(a)') + One(Waiting(b)') + One(phase'[a] = "absent")
      BY DEF Open, a, b, One
    <3>4. Open(s)' + One(Waiting(j)) = Open(s) + One(Waiting(j)') BY <3>1, <3>2, <3>3, <2>2 DEF One
    <3> QED BY <3>4, <1>1, <1>4
  <2>3. CASE j = b
    <3>1. /\ Waiting(a)' <=> Waiting(a)
          /\ phase'[a] = "absent" <=> phase[a] = "absent"
      BY <1>2, <1>4, <2>3
    <3> HIDE DEF a, b
    <3>2. Open(s) = One(Waiting(a)) + One(Waiting(b)) + One(phase[a] = "absent")
      BY DEF Open, a, b
    <3>3. Open(s)' = One(Waiting(a)') + One(Waiting(b)') + One(phase'[a] = "absent")
      BY DEF Open, a, b, One
    <3>4. Open(s)' + One(Waiting(j)) = Open(s) + One(Waiting(j)') BY <3>1, <3>2, <3>3, <2>3 DEF One
    <3> QED BY <3>4, <1>1, <1>4
  <2> QED BY <2>1, <2>2, <2>3
<1> QED BY <1>3, <1>4, <1>1

\* A request to the queue opens the job of a submission, or finds it.
LEMMA OpenEnqueued ==
  ASSUME Core, Core', NEW s \in Submissions, NEW j \in Jobs, EnqueueUnique(j),
         \A i \in Jobs : Held(i)' <=> Held(i)
  PROVE  /\ Open(s) \in Nat /\ Open(s)' \in Nat
         /\ (j = <<s, "retry">> /\ phase[j] = "absent") => Open(s)' <= Open(s) + 1
         /\ ~(j = <<s, "retry">> /\ phase[j] = "absent") => Open(s)' <= Open(s)
<1>1. Open(s) \in Nat /\ Open(s)' \in Nat
  <2>1. Open(s) \in Nat BY DEF Open, One
  <2>2. Open(s)' \in Nat BY DEF Open, One
  <2> QED BY <2>1, <2>2
<1> DEFINE a == <<s, "process">>  b == <<s, "retry">>
<1>2. a \in Jobs /\ b \in Jobs /\ a # b BY OwedTypes
<1>3. /\ \A i \in Jobs \ {j} : phase'[i] = phase[i]
      /\ phase[j] # "absent" => phase'[j] = phase[j]
      /\ phase[j] = "absent" => phase'[j] = "open"
  BY Enqueued DEF Core
<1>4. /\ Open(s) = One(Waiting(a)) + One(Waiting(b)) + One(phase[a] = "absent")
      /\ Open(s)' = One(Waiting(a)') + One(Waiting(b)') + One(phase'[a] = "absent")
  <2>1. Open(s) = One(Waiting(a)) + One(Waiting(b)) + One(phase[a] = "absent")
    BY DEF Open
  <2>2. Open(s)' = One(Waiting(a)') + One(Waiting(b)') + One(phase'[a] = "absent")
    BY DEF Open, One
  <2> QED BY <2>1, <2>2
<1> HIDE DEF a, b
<1>5. ASSUME NEW i \in Jobs, i # j \/ phase[j] # "absent"
      PROVE  /\ Waiting(i)' <=> Waiting(i)
             /\ phase'[i] = phase[i]
  BY <1>3, <1>5 DEF Waiting
<1>6. CASE phase[j] # "absent" \/ j \notin {a, b}
  <2>1. /\ Waiting(a)' <=> Waiting(a)
        /\ Waiting(b)' <=> Waiting(b)
        /\ phase'[a] = phase[a]
    BY <1>2, <1>5, <1>6
  <2>2. Open(s)' = Open(s) BY <2>1, <1>4 DEF One
  <2> QED BY <2>2, <1>1
<1>7. CASE phase[j] = "absent" /\ j = a
  <2>1. /\ Waiting(b)' <=> Waiting(b)
        /\ phase'[a] = "open" /\ phase[a] = "absent"
    BY <1>2, <1>3, <1>5, <1>7
  <2>2. Open(s)' <= Open(s) BY <2>1, <1>4 DEF One
  <2>3. j # <<s, "retry">> BY <1>2, <1>7 DEF b
  <2> QED BY <2>2, <2>3, <1>1
<1>8. CASE phase[j] = "absent" /\ j = b
  <2>1. /\ Waiting(a)' <=> Waiting(a)
        /\ phase'[a] = phase[a]
    BY <1>2, <1>5, <1>8
  <2>2. Open(s)' <= Open(s) + 1 BY <2>1, <1>4 DEF One
  <2> QED BY <2>2, <1>1, <1>8 DEF b
<1> QED BY <1>6, <1>7, <1>8

\* A step of no thread keeps the balance when it asks for what it opens.
LEMMA PaidAside ==
  ASSUME Core, Core', NEW s \in Submissions, proc' = proc, executed' = executed, faults' = faults,
         Open(s) \in Nat, Open(s)' \in Nat, Open(s)' + again[s] <= Open(s) + again'[s]
  PROVE  Paid(s)
<1>1. /\ Cardinality(Senders(s)) \in Nat /\ executed[s] \in Nat /\ again[s] \in Nat /\ faults \in Nat
  BY OwedTypes
<1>2. again'[s] \in Nat BY DEF Core, Tables
<1> DEFINE c == Cardinality(Senders(s))  w == Open(s)  v == Open(s)'
<1>3. Senders(s)' = Senders(s) BY DEF Senders
<1>4. Pending(s) = c + w
  BY <1>1 DEF Pending, Open, One
<1>5. Pending(s)' = c + v
  <2>1. Pending(s)' = Cardinality(Senders(s))' + v
    <3>1. Cardinality(Senders(s))' \in Nat BY <1>1, <1>3
    <3> QED BY <3>1 DEF Pending, Open, One
  <2> QED BY <2>1, <1>3
<1>6. v + again[s] <= w + again'[s] /\ w \in Nat /\ v \in Nat /\ c \in Nat BY <1>1
<1> HIDE DEF c, w, v
<1> QED BY <1>1, <1>2, <1>4, <1>5, <1>6 DEF Paid, Owed, Granted

\* Creations keep the balance: only the fallback to direct processing is a call
\* nobody asked for, and it is a fault of the queue.
LEMMA PaidRequest ==
  ASSUME Base, Base', NEW t \in Threads, NEW s \in Submissions,
         \/ Insert(t)
         \/ \E k \in IdemKeys \cup {NoKey}, now \in BOOLEAN : Create(t, k, now)
         \/ Find(t) \/ Enqueue(t) \/ Record(t) \/ EnqueueFails(t)
  PROVE  Paid(s)
<1> DEFINE p == proc[t]  q == proc'[t]
<1>c. Core /\ Core' /\ Tables /\ Sane(p) BY DEF Base, Core
<1>n. again[s] \in Nat /\ faults \in Nat /\ executed[s] \in Nat BY <1>c, OwedTypes
<1>1. CASE Insert(t)
  <2>1. Moves(t) /\ p.job = NoJob /\ q.job = NoJob /\ Range(q.todo) \subseteq {"enqueue", "record"}
    BY <1>1, DoInsert DEF Base
  <2>2. UNCHANGED <<phase, executed, again, faults>> BY <1>1 DEF Insert, queue, ghosts
  <2>3. ~Mine(q, s) BY <2>1 DEF Mine, Sends
  <2> QED BY <1>c, <1>n, <2>1, <2>2, <2>3, PaidCalm
<1>2. ASSUME NEW k \in IdemKeys \cup {NoKey}, NEW now \in BOOLEAN, Create(t, k, now) PROVE Paid(s)
  <2>1. Moves(t) /\ p = Idle /\ q.job = NoJob /\ ~Sends(q) BY <1>c, <1>2, DoCreate, SMTT(20)
  <2>2. UNCHANGED <<phase, executed, again, faults>> BY <1>2 DEF Create, queue, rows
  <2>3. ~Mine(q, s) BY <2>1 DEF Mine
  <2> QED BY <1>c, <1>n, <2>1, <2>2, <2>3, IdleSane, PaidCalm
<1>3. CASE Find(t)
  <2>1. /\ Moves(t) /\ p.job = NoJob /\ q.job = NoJob
        /\ Range(q.todo) \subseteq {"insert", "enqueue", "record"}
    BY <1>c, <1>3, DoFind
  <2>2. UNCHANGED <<phase, executed, again, faults>> BY <1>3 DEF Find, queue, rows, ghosts
  <2>3. ~Mine(q, s) BY <2>1 DEF Mine, Sends
  <2> QED BY <1>c, <1>n, <2>1, <2>2, <2>3, PaidCalm
<1>4. CASE Record(t)
  <2>1. Moves(t) /\ q = Idle /\ ~Sends(q) BY <1>c, <1>4, DoIdle DEF Record
  <2>2. p.job = NoJob BY <1>c, <1>4, HeadFacts DEF Record, At
  <2>3. UNCHANGED <<phase, executed, again, faults>> BY <1>4 DEF Record, queue, ghosts
  <2>4. ~Mine(q, s) BY <2>1 DEF Mine
  <2> QED BY <1>c, <1>n, <2>1, <2>2, <2>3, <2>4, IdleSane, PaidCalm
<1>5. CASE EnqueueFails(t)
  <2>1. Moves(t) /\ Kept(p, q) BY <1>c, <1>5, DoEnqueueFails
  <2>2. UNCHANGED <<phase, executed, again>> /\ faults' = faults + 1
    BY <1>5 DEF EnqueueFails, Fault, queue, rows
  <2> QED BY <1>c, <1>n, <2>1, <2>2, PaidCalm DEF Kept
<1>6. CASE Enqueue(t)
  <2>1. /\ p.todo # <<>> /\ Head(p.todo) = "enqueue" /\ Become(t, Advanced(p))
        /\ EnqueueUnique(<<p.sub, "process">>) /\ UNCHANGED <<executed, again, faults>>
    BY <1>6 DEF Enqueue, At, rows, ghosts
  <2>2. /\ Moves(t) /\ Advances(p, q)
        /\ q.todo = <<>> => q = Idle
    BY <1>c, <2>1, DoAdvance
  <2>3. p.job = NoJob /\ p.sub \in Submissions BY <1>c, <2>1, HeadFacts
  <2>4. q.job = NoJob BY <2>2, <2>3, IdleSane DEF Advances, Kept
  <2>5. ~Mine(q, s) BY <2>1, <2>2 DEF Mine, Sends, Advances, Precedes
  <2> DEFINE j == <<p.sub, "process">>
  <2>6. j \in Jobs /\ j # <<s, "retry">> BY <2>3 DEF Jobs, Kinds
  <2>7. \A i \in Jobs : Held(i)' <=> Held(i) BY <2>2, <2>3, <2>4, HeldStep
  <2> HIDE DEF j
  <2>8. Open(s) \in Nat /\ Open(s)' \in Nat /\ Open(s)' <= Open(s)
    BY <1>c, <2>1, <2>6, <2>7, OpenEnqueued DEF j
  <2>9. One(Mine(q, s)) = 0 /\ One(Mine(p, s)) \in Nat BY <2>5 DEF One
  <2>10. executed'[s] + One(Mine(proc'[t], s)) + Open(s)' + again[s] + faults
           <= executed[s] + One(Mine(proc[t], s)) + Open(s) + again'[s] + faults'
    BY <1>n, <2>1, <2>8, <2>9
  <2> QED BY <1>c, <2>2, <2>10, PaidStep
<1> QED BY <1>1, <1>2, <1>3, <1>4, <1>5, <1>6

\* The next step of a list: the thread keeps its job and calls no more than before.
LEMMA AdvanceMine ==
  ASSUME Core, NEW t \in Threads, NEW s \in Submissions, proc[t].todo # <<>>,
         Head(proc[t].todo) \in {"begin", "bury", "store", "return"}, Become(t, Advanced(proc[t]))
  PROVE  /\ Moves(t) /\ proc'[t].job = proc[t].job
         /\ Mine(proc'[t], s) => Mine(proc[t], s)
<1> DEFINE p == proc[t]  q == proc'[t]
<1>1. /\ Moves(t) /\ Advances(p, q)
      /\ q.todo = <<>> => q = Idle
      /\ q.todo = <<>> => p.job = NoJob \/ Head(p.todo) \in JobSteps
  BY DoAdvance
<1>2. CASE q.todo # <<>>
  <2>1. Kept(p, q) /\ Range(q.todo) \subseteq Range(p.todo) BY <1>1, <1>2 DEF Advances
  <2> QED BY <2>1, <1>1 DEF Kept, Mine, Sends
<1>3. CASE q.todo = <<>>
  <2>1. q = Idle /\ Head(p.todo) # "return" BY <1>1, <1>3 DEF Advances, Before
  <2>2. p.job = NoJob BY <2>1, <1>1, <1>3 DEF JobSteps
  <2>3. Range(Idle.todo) = {} BY IdleSane, ShortLists
  <2> QED BY <2>1, <2>2, <2>3, <1>1, IdleSane DEF Mine, Sends
<1> QED BY <1>2, <1>3

\* The steps of a delivery keep the balance: the call that was to be made is
\* made, once.
LEMMA PaidDelivery ==
  ASSUME Base, Base', NEW t \in Threads, NEW s \in Submissions,
         Read(t) \/ Requeue(t) \/ Get(t) \/ Begin(t) \/ Execute(t) \/ Bury(t) \/ Store(t)
  PROVE  Paid(s)
<1> DEFINE p == proc[t]  q == proc'[t]
<1>c. Core /\ Core' /\ Tables /\ Sane(p) BY DEF Base, Core
<1>n. again[s] \in Nat /\ faults \in Nat /\ executed[s] \in Nat BY <1>c, OwedTypes
<1>1. CASE Read(t) \/ Requeue(t) \/ Get(t)
  <2>1. /\ Moves(t) /\ Kept(p, q)
        /\ Range(q.todo) \cap {"execute", "refuse"} \subseteq Range(p.todo)
    <3>1. CASE Read(t) BY <1>c, <3>1, DoRead
    <3>2. CASE Requeue(t) BY <1>c, <3>2, DoRequeue
    <3>3. CASE Get(t) BY <1>c, <3>3, DoGet
    <3> QED BY <1>1, <3>1, <3>2, <3>3
  <2>2. UNCHANGED <<phase, executed, again, faults>>
    BY <1>1 DEF Read, Requeue, Get, queue, rows, ghosts
  <2>3. Mine(q, s) => Mine(p, s) BY <2>1 DEF Mine, Sends, Kept
  <2> QED BY <1>c, <1>n, <2>1, <2>2, <2>3, PaidCalm DEF Kept
<1>2. CASE Begin(t) \/ Bury(t) \/ Store(t)
  <2>1. /\ p.todo # <<>> /\ Head(p.todo) \in {"begin", "bury", "store"} /\ Become(t, Advanced(p))
        /\ UNCHANGED <<phase, executed, again, faults>>
    BY <1>2 DEF Begin, Bury, Store, At, queue, ghosts
  <2>2. Moves(t) /\ q.job = p.job /\ (Mine(q, s) => Mine(p, s)) BY <2>1, <1>c, AdvanceMine
  <2> QED BY <1>c, <1>n, <2>1, <2>2, PaidCalm
<1>3. CASE Execute(t)
  <2>1. /\ Moves(t) /\ Kept(p, q) /\ p.sub \in Submissions /\ "execute" \in Range(p.todo)
        /\ Range(q.todo) \subseteq {"bury", "store"} \cup Enders
    BY <1>c, <1>3, DoExecute
  <2>2. UNCHANGED <<phase, again, faults>> /\ executed' = [executed EXCEPT ![p.sub] = @ + 1]
    BY <1>3 DEF Execute, queue, ghosts
  <2>3. ~Mine(q, s) BY <2>1 DEF Mine, Sends, Enders
  <2>4. CASE p.sub # s
    <3>1. executed'[s] = executed[s] BY <2>1, <2>2, <2>4, <1>c DEF Tables
    <3> QED BY <1>c, <1>n, <2>1, <2>2, <2>3, <3>1, PaidCalm DEF Kept
  <2>5. CASE p.sub = s
    <3>1. executed'[s] = executed[s] + 1 BY <2>1, <2>2, <2>5, <1>c DEF Tables
    <3>2. Mine(p, s) BY <2>1, <2>5 DEF Mine, Sends
    <3>3. Open(s)' = Open(s) /\ Open(s) \in Nat
      <4>1. \A i \in Jobs : Held(i)' <=> Held(i) BY <2>1, HeldStep DEF Kept
      <4>2. <<s, "process">> \in Jobs /\ <<s, "retry">> \in Jobs BY <1>c, OwedTypes
      <4>3. Open(s)' = Open(s) BY <4>1, <4>2, <2>2 DEF Open, Waiting, One
      <4>4. Open(s) \in Nat BY DEF Open, One
      <4> QED BY <4>3, <4>4
    <3>4. One(Mine(q, s)) = 0 /\ One(Mine(p, s)) = 1 BY <2>3, <3>2 DEF One
    <3>5. executed'[s] + One(Mine(proc'[t], s)) + Open(s)' + again[s] + faults
            <= executed[s] + One(Mine(proc[t], s)) + Open(s) + again'[s] + faults'
      BY <1>n, <2>2, <3>1, <3>3, <3>4
    <3> QED BY <1>c, <2>1, <3>5, PaidStep
  <2> QED BY <2>4, <2>5
<1> QED BY <1>1, <1>2, <1>3

\* A thread that ends: the job it held may wait again only when the thread could
\* still have called, or after a fault.
LEMMA PaidIdle ==
  ASSUME Core, Core', NEW t \in Threads, NEW s \in Submissions, Become(t, Idle),
         executed'[s] = executed[s], again[s] <= again'[s], faults <= faults',
         \A i \in Jobs \ {proc[t].job} : phase'[i] = phase[i],
         \A i \in Jobs : phase'[i] = "absent" <=> phase[i] = "absent",
         (proc[t].job # NoJob /\ proc[t].job[1] = s /\ phase'[proc[t].job] = "open") =>
           Mine(proc[t], s) \/ faults' = faults + 1
  PROVE  Paid(s)
<1> DEFINE p == proc[t]  q == proc'[t]  m == One(Mine(p, s))
<1>1. Moves(t) /\ q = Idle /\ ~Sends(q) /\ q.job = NoJob BY DoIdle, IdleSane
<1>2. Sane(p) /\ p.job \in Jobs \cup {NoJob} BY ProcFields DEF Core, Sane
<1>3. again[s] \in Nat /\ faults \in Nat /\ executed[s] \in Nat BY OwedTypes
<1>4. again'[s] \in Nat /\ faults' \in Nat BY DEF Core, Tables
<1>5. One(Mine(q, s)) = 0 /\ m \in {0, 1} BY <1>1 DEF One, Mine
<1>6. CASE p.job = NoJob
  <2>1. \A i \in Jobs : i # NoJob BY JobOf
  <2>2. phase' = phase BY <2>1, <1>6 DEF Core, Tables
  <2>3. ~Mine(q, s) BY <1>1 DEF Mine
  <2> QED BY <2>2, <2>3, <1>1, <1>6, PaidCalm
<1>7. CASE p.job # NoJob
  <2>1. PICK j \in Jobs : j = p.job BY <1>2, <1>7
  <2>2. \A i \in Jobs \ {j} : Waiting(i)' <=> Waiting(i)
    <3> TAKE i \in Jobs \ {j}
    <3>1. i # NoJob /\ i # p.job BY <2>1, JobOf
    <3>2. Held(i)' <=> Held(i) BY <3>1, <1>1, HeldStep
    <3>3. phase'[i] = phase[i] BY <3>1
    <3> QED BY <3>2, <3>3 DEF Waiting
  <2> DEFINE w == One(Waiting(j))  v == One(Waiting(j)')
  <2>3. /\ Open(s) \in Nat /\ Open(s)' \in Nat
        /\ j[1] = s => Open(s)' + w = Open(s) + v
        /\ j[1] # s => Open(s)' = Open(s)
    BY <2>1, <2>2, OpenStep
  <2>4. w \in {0, 1} /\ v \in {0, 1} BY DEF One
  <2>5. j[1] = s => v = 0 \/ m = 1 \/ faults' = faults + 1 BY <2>1, <1>7 DEF One, Waiting
  <2> HIDE DEF w, v, m
  <2>6. executed'[s] + One(Mine(proc'[t], s)) + Open(s)' + again[s] + faults
           <= executed[s] + m + Open(s) + again'[s] + faults'
    BY <1>3, <1>4, <1>5, <2>3, <2>4, <2>5
  <2> QED BY <2>6, <1>1, PaidStep DEF m
<1> QED BY <1>6, <1>7

\* The end of a job, and faults, keep the balance: a job that goes on after an
\* error takes back what its thread could still have called.
LEMMA PaidEnd ==
  ASSUME Base, Base', NEW t \in Threads, NEW s \in Submissions,
         Return(t) \/ Mark(t) \/ PreflightFails(t) \/ SaveFails(t) \/ MarkFails(t) \/ Crash(t)
  PROVE  Paid(s)
<1> DEFINE p == proc[t]  q == proc'[t]
<1>c. Core /\ Core' /\ Tables /\ Sane(p) BY DEF Base, Core
<1>n. again[s] \in Nat /\ faults \in Nat /\ executed[s] \in Nat BY <1>c, OwedTypes
<1>1. CASE Return(t)
  <2>1. /\ p.todo # <<>> /\ Head(p.todo) = "return" /\ Become(t, Advanced(p))
        /\ Queue!Return(p.job) /\ UNCHANGED <<executed, again, faults>>
    BY <1>1 DEF Return, At, rows, ghosts
  <2>2. p.job \in Jobs BY <1>c, <2>1, HeadFacts DEF JobSteps
  <2>3. phase' = phase BY <1>c, <2>1, <2>2, Settled
  <2>4. Moves(t) /\ q.job = p.job /\ (Mine(q, s) => Mine(p, s)) BY <2>1, <1>c, AdvanceMine
  <2> QED BY <1>c, <1>n, <2>1, <2>3, <2>4, PaidCalm
<1>2. CASE Mark(t)
  <2>1. /\ p.todo # <<>> /\ Head(p.todo) \in {"mark", "refuse"} /\ Become(t, Idle)
        /\ UNCHANGED <<executed, again, faults>>
    BY <1>2 DEF Mark, At, rows, ghosts
  <2>2. \/ Queue!Succeed(p.job) \/ Queue!GiveUp(p.job)
        \/ Queue!Again(p.job) /\ Head(p.todo) = "refuse"
    BY <1>2 DEF Mark, At
  <2>3. p.job \in Jobs BY <1>c, <2>1, HeadFacts DEF JobSteps
  <2>4. /\ \A i \in Jobs \ {p.job} : phase'[i] = phase[i]
        /\ phase[p.job] # "absent" /\ phase'[p.job] # "absent"
        /\ Queue!Succeed(p.job) \/ Queue!GiveUp(p.job) => phase'[p.job] # "open"
    BY <1>c, <2>2, <2>3, Settled
  <2>5. \A i \in Jobs : phase'[i] = "absent" <=> phase[i] = "absent" BY <2>4
  <2>6. ASSUME phase'[p.job] = "open", p.job[1] = s PROVE Mine(p, s)
    <3>1. Head(p.todo) = "refuse" BY <2>6, <2>2, <2>4
    <3>2. "refuse" \in Range(p.todo) BY <1>c, <2>1, <3>1, HeadFacts
    <3>3. p.sub = s BY <1>c, <2>3, <2>6, JobOf DEF Sane
    <3> QED BY <3>2, <3>3 DEF Mine, Sends
  <2> QED BY <1>c, <1>n, <2>1, <2>4, <2>5, <2>6, PaidIdle
<1>3. CASE PreflightFails(t) \/ SaveFails(t) \/ MarkFails(t) \/ Crash(t)
  <2>1. UNCHANGED <<phase, executed, again>> /\ faults' = faults + 1
    BY <1>3 DEF PreflightFails, SaveFails, MarkFails, Crash, Fault, queue, rows
  <2>2. CASE Become(t, Idle)
    BY <1>c, <1>n, <2>1, <2>2, PaidIdle
  <2>3. CASE Become(t, Failing(p))
    <3>1. Moves(t) /\ q.job = p.job BY <1>c, <2>3, DoFailing
    <3> QED BY <1>c, <1>n, <2>1, <3>1, PaidCalm
  <2>4. CASE p.todo # <<>> /\ Head(p.todo) \in {"bury", "store"} /\ Become(t, Advanced(p))
    <3>1. Moves(t) /\ q.job = p.job /\ (Mine(q, s) => Mine(p, s)) BY <2>4, <1>c, AdvanceMine
    <3> QED BY <1>c, <1>n, <2>1, <3>1, PaidCalm
  <2>5. CASE SaveFails(t) BY <2>2, <2>3, <2>4, <2>5, SaveFailsWays
  <2>6. CASE PreflightFails(t) \/ MarkFails(t) \/ Crash(t)
    BY <2>2, <2>3, <2>6 DEF PreflightFails, MarkFails, Crash
  <2> QED BY <1>3, <2>5, <2>6
<1> QED BY <1>1, <1>2, <1>3

\* Threads that take up a submission keep the balance: a claim turns a waiting
\* job into a thread that may call, the others were asked for.
LEMMA PaidStart ==
  ASSUME Base, Base', NEW t \in Threads, NEW s \in Submissions,
         \/ \E j \in Jobs : Claim(t, j)
         \/ \E r \in Submissions, kind \in Posted : PostFails(t, r, kind)
         \/ \E r \in Submissions : ReplayDeadLetter(t, r)
  PROVE  Paid(s)
<1> DEFINE p == proc[t]  q == proc'[t]
<1>c. Core /\ Core' /\ Tables BY DEF Base, Core
<1>n. again[s] \in Nat /\ faults \in Nat /\ executed[s] \in Nat BY <1>c, OwedTypes
<1>i. p = Idle => p.job = NoJob BY IdleSane
<1>1. ASSUME NEW j \in Jobs, Claim(t, j) PROVE Paid(s)
  <2>1. Moves(t) /\ p = Idle /\ q.job = j /\ q.sub = j[1]
    BY <1>c, <1>1, DoClaim DEF Starts
  <2>2. phase[j] = "open" /\ Queue!Try({j}) /\ UNCHANGED <<executed, again>>
    BY <1>1 DEF Claim, rows
  <2>3. IF Held(j) THEN faults' = faults + 1 ELSE faults' = faults BY <1>1 DEF Claim, Fault
  <2>4. phase' = phase BY <1>c, <2>2, Settled
  <2>5. \A i \in Jobs \ {j} : Waiting(i)' <=> Waiting(i)
    <3> TAKE i \in Jobs \ {j}
    <3>1. i # NoJob BY JobOf
    <3>2. Held(i)' <=> Held(i) BY <3>1, <1>i, <2>1, HeldStep
    <3> QED BY <3>2, <2>4 DEF Waiting
  <2> DEFINE w == One(Waiting(j))  v == One(Waiting(j)')
             m == One(Mine(p, s))  n == One(Mine(q, s))
  <2>6. /\ Open(s) \in Nat /\ Open(s)' \in Nat
        /\ j[1] = s => Open(s)' + w = Open(s) + v
        /\ j[1] # s => Open(s)' = Open(s)
    BY <1>c, <2>4, <2>5, OpenStep
  <2>7. Held(j)' BY <2>1, HeldStep
  <2>8. v = 0 /\ m \in {0, 1} /\ n \in {0, 1} BY <2>7 DEF One, Waiting
  <2>9. j[1] # s => n = 0 BY <2>1 DEF One, Mine
  <2>10. (w = 1 /\ faults' = faults) \/ (w \in {0, 1} /\ faults' = faults + 1)
    BY <2>2, <2>3 DEF One, Waiting
  <2> HIDE DEF w, v, m, n
  <2>11. executed'[s] + n + Open(s)' + again[s] + faults
           <= executed[s] + m + Open(s) + again'[s] + faults'
    BY <1>n, <2>2, <2>6, <2>8, <2>9, <2>10
  <2> QED BY <1>c, <2>1, <2>11, PaidStep DEF m, n
<1>2. ASSUME NEW r \in Submissions, NEW kind \in Posted, PostFails(t, r, kind) PROVE Paid(s)
  <2>1. /\ p = Idle /\ faults' = faults + 1 /\ again' = [again EXCEPT ![r] = @ + 1]
        /\ Become(t, [Idle EXCEPT !.todo = StepsOf(kind), !.sub = r])
        /\ UNCHANGED <<phase, executed>>
    BY <1>2 DEF PostFails, Fault, queue, rows
  <2>2. kind \in Kinds BY PostedAssumption DEF Kinds
  <2>3. Moves(t) /\ q.job = NoJob BY <1>c, <2>1, <2>2, DoRequest DEF Starts
  <2>4. again[s] <= again'[s] BY <1>c, <1>n, <2>1 DEF Tables
  <2> QED BY <1>c, <1>n, <1>i, <2>1, <2>3, <2>4, PaidCalm
<1>3. ASSUME NEW r \in Submissions, ReplayDeadLetter(t, r) PROVE Paid(s)
  <2>1. /\ p = Idle /\ again' = [again EXCEPT ![r] = @ + 1]
        /\ Become(t, [Idle EXCEPT !.todo = RetrySteps, !.sub = r])
        /\ UNCHANGED <<phase, executed>>
    BY <1>3 DEF ReplayDeadLetter, queue
  <2>2. faults' = faults \/ faults' = faults + 1 BY <1>3 DEF ReplayDeadLetter, Fault
  <2>3. StepsOf("retry") = RetrySteps /\ "retry" \in Kinds BY DEF StepsOf, Kinds
  <2>4. Starts(t, r) /\ q.job = NoJob BY <1>c, <2>1, <2>3, DoRequest
  <2>5. Moves(t) /\ q.sub = r BY <2>4 DEF Starts
  <2>6. again[s] <= again'[s] /\ (r = s => again'[s] = again[s] + 1)
    BY <1>c, <1>n, <2>1 DEF Tables
  <2>7. Mine(q, s) => again'[s] = again[s] + 1 BY <2>5, <2>6 DEF Mine
  <2> QED BY <1>c, <1>n, <1>i, <2>1, <2>2, <2>4, <2>5, <2>6, <2>7, PaidCalm
<1> QED BY <1>1, <1>2, <1>3

\* Requests to the queue keep the balance: the first job of a submission was
\* provided for, any other that is opened was asked for.
LEMMA PaidQueue ==
  ASSUME Base, Base', NEW s \in Submissions,
         \/ \E r \in Submissions, kind \in Posted : Post(r, kind)
         \/ \E j \in Jobs : RequeueJob(j)
  PROVE  Paid(s)
<1>c. Core /\ Core' /\ Tables BY DEF Base, Core
<1>n. again[s] \in Nat /\ faults \in Nat /\ executed[s] \in Nat BY <1>c, OwedTypes
<1>1. ASSUME NEW r \in Submissions, NEW kind \in Posted, Post(r, kind) PROVE Paid(s)
  <2> DEFINE j == <<r, kind>>
  <2>1. EnqueueUnique(j) /\ UNCHANGED <<executed, proc, faults>> BY <1>1 DEF Post, rows
  <2>2. j \in Jobs /\ j[1] = r /\ j[2] = kind BY PostedAssumption DEF Jobs, Kinds
  <2>3. again' = IF kind = "retry" /\ phase[j] = "absent"
                 THEN [again EXCEPT ![r] = @ + 1] ELSE again
    BY <1>1 DEF Post, Queue!Accepted
  <2>4. \A i \in Jobs : Held(i)' <=> Held(i) BY <2>1 DEF Held
  <2>5. /\ Open(s) \in Nat /\ Open(s)' \in Nat
        /\ (j = <<s, "retry">> /\ phase[j] = "absent") => Open(s)' <= Open(s) + 1
        /\ ~(j = <<s, "retry">> /\ phase[j] = "absent") => Open(s)' <= Open(s)
    <3> HIDE DEF j
    <3> QED BY <1>c, <2>1, <2>2, <2>4, OpenEnqueued
  <2>6. again[s] <= again'[s] BY <1>c, <1>n, <2>3 DEF Tables
  <2>7. (j = <<s, "retry">> /\ phase[j] = "absent") => again'[s] = again[s] + 1
    BY <1>c, <1>n, <2>2, <2>3 DEF Tables
  <2>8. again'[s] \in Nat BY <1>c DEF Core, Tables
  <2> HIDE DEF j
  <2>9. Open(s)' + again[s] <= Open(s) + again'[s] BY <1>n, <2>5, <2>6, <2>7, <2>8
  <2> QED BY <1>c, <2>1, <2>5, <2>9, PaidAside
<1>2. ASSUME NEW j \in Jobs, RequeueJob(j) PROVE Paid(s)
  <2>1. /\ Queue!Again(j) /\ again' = [again EXCEPT ![j[1]] = @ + 1]
        /\ UNCHANGED <<executed, proc, faults>>
    BY <1>2 DEF RequeueJob, rows
  <2>2. j[1] \in Submissions BY DEF Jobs
  <2>3. /\ \A i \in Jobs \ {j} : phase'[i] = phase[i]
        /\ phase[j] # "absent" /\ phase'[j] # "absent"
    BY <1>c, <2>1, Settled
  <2>4. \A i \in Jobs : Held(i)' <=> Held(i) BY <2>1 DEF Held
  <2>5. \A i \in Jobs \ {j} : Waiting(i)' <=> Waiting(i) BY <2>3, <2>4 DEF Waiting
  <2>6. \A i \in Jobs : phase'[i] = "absent" <=> phase[i] = "absent" BY <2>3
  <2> DEFINE w == One(Waiting(j))  v == One(Waiting(j)')
  <2>7. /\ Open(s) \in Nat /\ Open(s)' \in Nat
        /\ j[1] = s => Open(s)' + w = Open(s) + v
        /\ j[1] # s => Open(s)' = Open(s)
    BY <1>c, <2>5, <2>6, OpenStep
  <2>8. w \in {0, 1} /\ v \in {0, 1} BY DEF One
  <2>9. /\ j[1] = s => again'[s] = again[s] + 1
        /\ j[1] # s => again'[s] = again[s]
    BY <1>c, <1>n, <2>1, <2>2 DEF Tables
  <2> HIDE DEF w, v
  <2>10. Open(s)' + again[s] <= Open(s) + again'[s] BY <1>n, <2>7, <2>8, <2>9
  <2> QED BY <1>c, <2>1, <2>7, <2>10, PaidAside
<1> QED BY <1>1, <1>2

\* Every step keeps the calls within what was asked for.
LEMMA SendsNext ==
  ASSUME Base, Base', SendsBudgeted, [Next]_vars
  PROVE  SendsBudgeted'
<1> SUFFICES ASSUME NEW s \in Submissions
             PROVE  executed'[s] + Pending(s)' <= 1 + again'[s] + faults'
  BY DEF SendsBudgeted
<1>c. Core /\ Core' BY DEF Base
<1>1. CASE Next
  <2>1. ASSUME \E t \in Threads :
                 \/ Insert(t)
                 \/ \E k \in IdemKeys \cup {NoKey}, now \in BOOLEAN : Create(t, k, now)
                 \/ Find(t) \/ Enqueue(t) \/ Record(t) \/ EnqueueFails(t)
       PROVE  Paid(s)
    BY <2>1, PaidRequest
  <2>2. ASSUME \E t \in Threads :
                 Read(t) \/ Requeue(t) \/ Get(t) \/ Begin(t) \/ Execute(t) \/ Bury(t) \/ Store(t)
       PROVE  Paid(s)
    BY <2>2, PaidDelivery
  <2>3. ASSUME \E t \in Threads :
                 Return(t) \/ Mark(t) \/ PreflightFails(t) \/ SaveFails(t) \/ MarkFails(t) \/ Crash(t)
       PROVE  Paid(s)
    BY <2>3, PaidEnd
  <2>4. ASSUME \E t \in Threads :
                 \/ \E j \in Jobs : Claim(t, j)
                 \/ \E r \in Submissions, kind \in Posted : PostFails(t, r, kind)
                 \/ \E r \in Submissions : ReplayDeadLetter(t, r)
       PROVE  Paid(s)
    BY <2>4, PaidStart
  <2>5. ASSUME \/ \E r \in Submissions, kind \in Posted : Post(r, kind)
               \/ \E j \in Jobs : RequeueJob(j)
       PROVE  Paid(s)
    BY <2>5, PaidQueue
  <2>6. Paid(s) BY <1>1, <2>1, <2>2, <2>3, <2>4, <2>5, NextGroups
  <2>7. Owed(s) \in Nat /\ Granted(s) \in Nat
    <3>1. executed[s] \in Nat /\ again[s] \in Nat /\ faults \in Nat /\ Pending(s) \in Nat
      BY <1>c, OwedTypes
    <3> QED BY <3>1 DEF Owed, Granted
  <2>8. Owed(s)' \in Nat /\ Granted(s)' \in Nat
    <3>1. executed'[s] \in Nat /\ again'[s] \in Nat /\ faults' \in Nat BY <1>c DEF Core, Tables
    <3>2. Cardinality(Senders(s))' \in Nat
      <4>1. IsFiniteSet(Senders(s)') BY ThreadsAssumption, FS_Subset DEF Senders
      <4> QED BY <4>1, FS_CardinalityType
    <3>3. Pending(s)' \in Nat BY <3>2 DEF Pending, One
    <3> QED BY <3>1, <3>3 DEF Owed, Granted
  <2>9. Owed(s) <= 1 + Granted(s)
    <3>1. executed[s] \in Nat /\ again[s] \in Nat /\ faults \in Nat /\ Pending(s) \in Nat
      BY <1>c, OwedTypes
    <3>2. executed[s] + Pending(s) <= 1 + again[s] + faults BY DEF SendsBudgeted
    <3> QED BY <3>1, <3>2 DEF Owed, Granted
  <2>10. Owed(s)' <= 1 + Granted(s)' BY <2>6, <2>7, <2>8, <2>9 DEF Paid
  <2>11. again'[s] \in Nat /\ faults' \in Nat BY <1>c DEF Core, Tables
  <2> QED BY <2>10, <2>11 DEF Owed, Granted
<1>2. CASE UNCHANGED vars
  <2>1. UNCHANGED <<phase, executed, again, faults, proc>> BY <1>2 DEF vars, queue, rows, ghosts
  <2>2. Pending(s)' = Pending(s) BY <2>1 DEF Pending, Senders, Waiting, Held
  <2> QED BY <2>1, <2>2 DEF SendsBudgeted
<1> QED BY <1>1, <1>2

\* A delivery is made at most once, plus once for every retry, replay or requeue
\* that an operator asked for and every fault.  The calls that were made and the
\* ones that threads, waiting jobs and the job that is not there yet may still
\* make never exceed this: only a fault, or an operator, adds to them.
THEOREM SendsAsked == Spec => []SendsWereAsked
<1>1. ASSUME Init PROVE SendsBudgeted
  <2> SUFFICES ASSUME NEW s \in Submissions
               PROVE  executed[s] + Pending(s) <= 1 + again[s] + faults
    BY DEF SendsBudgeted
  <2>1. phase = [j \in Jobs |-> "absent"] BY <1>1 DEF Init, Queue!Init
  <2>2. /\ executed[s] = 0 /\ again[s] = 0 /\ faults = 0
        /\ \A t \in Threads : proc[t] = Idle
    BY <1>1 DEF Init
  <2>3. <<s, "process">> \in Jobs /\ <<s, "retry">> \in Jobs BY DEF Jobs, Kinds
  <2>4. Range(Idle.todo) = {} BY IdleSane, ShortLists
  <2>5. Senders(s) = {} BY <2>2, <2>4 DEF Senders, Sends
  <2>6. Cardinality(Senders(s)) = 0 BY <2>5, FS_EmptySet
  <2>7. Pending(s) = 1 BY <2>1, <2>3, <2>6 DEF Pending, Waiting, One
  <2> QED BY <2>2, <2>7
<1>2. Base /\ Base' /\ SendsBudgeted /\ [Next]_vars => SendsBudgeted' BY SendsNext
<1>3. ASSUME Base, SendsBudgeted PROVE SendsWereAsked
  <2> SUFFICES ASSUME NEW s \in Submissions PROVE executed[s] <= 1 + again[s] + faults
    BY DEF SendsWereAsked
  <2>1. Core BY <1>3 DEF Base
  <2>2. executed[s] \in Nat /\ again[s] \in Nat /\ faults \in Nat /\ Pending(s) \in Nat
    BY <2>1, OwedTypes
  <2>3. executed[s] + Pending(s) <= 1 + again[s] + faults BY <1>3 DEF SendsBudgeted
  <2> QED BY <2>2, <2>3
<1> QED BY <1>1, <1>2, <1>3, BaseInvariance, PTL DEF Spec
=============================================================================
