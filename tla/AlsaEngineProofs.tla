-------------------------- MODULE AlsaEngineProofs --------------------------
(***************************************************************************)
(* The ALSA engine and its worker threads, for every set of ids, clock     *)
(* domains and periods, every base period and every number of workers:     *)
(* between two calls every stream is served by exactly one worker that     *)
(* fits it, nothing deleted is used, and a stream that is told that its    *)
(* worker is active has a worker whose thread stays in its loop. Both rest *)
(* on one invariant of the engine in the middle of its calls, AInv, under  *)
(* the four assumptions on the environment that the runs make, too.        *)
(***************************************************************************)
EXTENDS AlsaEngine, FiniteSetTheorems, NaturalsInduction, WellFoundedInduction, TLAPS

----------------------------------------------------------------------------
(* Lists without repetitions                                               *)

\* The range of a sequence.
LEMMA RangeIs ==
  ASSUME NEW S, NEW s \in Seq(S)
  PROVE  /\ Len(s) \in Nat /\ DOMAIN s = 1 .. Len(s) /\ Range(s) \subseteq S
         /\ Range(s) = {s[i] : i \in 1 .. Len(s)}
         /\ s = <<>> <=> Range(s) = {}
<1>1. Len(s) \in Nat /\ DOMAIN s = 1 .. Len(s) /\ \A i \in 1 .. Len(s) : s[i] \in S
  BY SMT
<1>2. s = <<>> <=> Len(s) = 0
  BY SMT
<1>3. Range(s) = {s[i] : i \in 1 .. Len(s)}
  BY <1>1, Zenon DEF Range
<1>4. Len(s) = 0 <=> Range(s) = {}
  <2>1. CASE Len(s) = 0
    <3>1. \A i \in 1 .. Len(s) : FALSE
      BY <2>1
    <3> QED
      BY <1>3, <2>1, <3>1
  <2>2. CASE Len(s) # 0
    <3>1. 1 \in 1 .. Len(s)
      BY <1>1, <2>2
    <3> QED
      BY <1>3, <2>2, <3>1
  <2> QED
    BY <2>1, <2>2
<1>5. Range(s) \subseteq S
  BY <1>1, <1>3
<1> QED
  BY <1>1, <1>2, <1>3, <1>4, <1>5

\* No element comes twice.
Distinct(s) == \A i, j \in 1 .. Len(s) : s[i] = s[j] => i = j

\* No element comes twice.
LEMMA DistinctIs ==
  ASSUME NEW S, NEW s \in Seq(S)
  PROVE  IsInjective(s) <=> Distinct(s)
<1>1. DOMAIN s = 1 .. Len(s)
  BY RangeIs
<1> QED
  BY <1>1, Zenon DEF IsInjective, Distinct

\* The empty list.
LEMMA EmptyList == Range(<<>>) = {} /\ IsInjective(<<>>)
<1>1. DOMAIN <<>> = {}
  BY SMT
<1> QED
  BY <1>1, Zenon DEF Range, IsInjective

\* A list with one stream.
LEMMA OneInList ==
  ASSUME NEW S, NEW x \in S
  PROVE  <<x>> \in Seq(S) /\ <<x>> # <<>> /\ Range(<<x>>) = {x} /\ IsInjective(<<x>>)
<1>1. <<x>> \in Seq(S) /\ <<x>> # <<>> /\ Len(<<x>>) = 1 /\ <<x>>[1] = x
  BY SMT
<1>2. \A i \in 1 .. Len(<<x>>) : i = 1
  BY <1>1, SMT
<1>3. Distinct(<<x>>)
  BY <1>2 DEF Distinct
<1>4. DOMAIN <<x>> = 1 .. Len(<<x>>) /\ 1 \in 1 .. Len(<<x>>)
  BY <1>1, SMT
<1>5. Range(<<x>>) = {x}
  <2>1. \A y \in Range(<<x>>) : \E i \in 1 .. Len(<<x>>) : y = <<x>>[i]
    BY <1>4, Zenon DEF Range
  <2>2. <<x>>[1] \in Range(<<x>>)
    BY <1>4, Zenon DEF Range
  <2> QED
    BY <1>1, <1>2, <2>1, <2>2
<1> QED
  BY <1>1, <1>3, <1>5, DistinctIs

\* addAlsaStream() puts a stream in front.
LEMMA Prepended ==
  ASSUME NEW S, NEW s \in Seq(S), NEW x \in S
  PROVE  /\ <<x>> \o s \in Seq(S) /\ <<x>> \o s # <<>> /\ Range(<<x>> \o s) = {x} \cup Range(s)
         /\ IsInjective(s) /\ x \notin Range(s) => IsInjective(<<x>> \o s)
<1> DEFINE t == <<x>> \o s
<1>1. t \in Seq(S) /\ Len(t) = Len(s) + 1 /\ t[1] = x /\ \A i \in 1 .. Len(s) : t[i + 1] = s[i]
  BY SMT
<1>2. \A i \in 2 .. Len(t) : i - 1 \in 1 .. Len(s) /\ t[i] = s[i - 1]
  BY <1>1, RangeIs, SMT
<1>3. Range(t) = {t[i] : i \in 1 .. Len(t)} /\ Range(s) = {s[i] : i \in 1 .. Len(s)} /\ Len(s) \in Nat
  BY <1>1, RangeIs
<1> HIDE DEF t
<1>4. 1 \in 1 .. Len(t) /\ \A i \in 1 .. Len(t) : i = 1 \/ i \in 2 .. Len(t)
  BY <1>1, <1>3
<1>5. \A i \in 1 .. Len(s) : i + 1 \in 1 .. Len(t)
  BY <1>1, <1>3
<1>6. Range(t) = {x} \cup Range(s)
  BY <1>1, <1>2, <1>3, <1>4, <1>5
<1>7. ASSUME Distinct(s), x \notin Range(s)
      PROVE  Distinct(t)
  <2>1. ASSUME NEW i \in 1 .. Len(t), NEW j \in 1 .. Len(t), t[i] = t[j]
        PROVE  i = j
    <3>1. \A k \in 2 .. Len(t) : t[k] \in Range(s) /\ t[k] # x
      BY <1>2, <1>3, <1>7
    <3>2. CASE i = 1 \/ j = 1
      BY <1>1, <1>4, <2>1, <3>1, <3>2
    <3>3. CASE i # 1 /\ j # 1
      <4>1. i \in 2 .. Len(t) /\ j \in 2 .. Len(t)
        BY <1>4, <3>3
      <4>2. i - 1 = j - 1
        BY <1>2, <1>7, <2>1, <4>1 DEF Distinct
      <4> QED
        BY <4>2
    <3> QED
      BY <3>2, <3>3
  <2> QED
    BY <2>1 DEF Distinct
<1>8. t # <<>>
  BY <1>1, <1>3
<1> QED
  BY <1>1, <1>6, <1>7, <1>8, DistinctIs DEF t

\* A worker is appended to the list.
LEMMA Appended ==
  ASSUME NEW S, NEW s \in Seq(S), NEW x \in S
  PROVE  /\ Append(s, x) \in Seq(S) /\ Range(Append(s, x)) = Range(s) \cup {x}
         /\ IsInjective(s) /\ x \notin Range(s) => IsInjective(Append(s, x))
<1> DEFINE t == Append(s, x)
<1>1. t \in Seq(S) /\ Len(t) = Len(s) + 1 /\ t[Len(t)] = x /\ \A i \in 1 .. Len(s) : t[i] = s[i]
  BY SMT
<1>3. Range(t) = {t[i] : i \in 1 .. Len(t)} /\ Range(s) = {s[i] : i \in 1 .. Len(s)} /\ Len(s) \in Nat
  BY <1>1, RangeIs
<1> HIDE DEF t
<1>4. Len(t) \in 1 .. Len(t) /\ \A i \in 1 .. Len(t) : i = Len(t) \/ i \in 1 .. Len(s)
  BY <1>1, <1>3
<1>5. \A i \in 1 .. Len(s) : i \in 1 .. Len(t)
  BY <1>1, <1>3
<1>6. Range(t) = Range(s) \cup {x}
  BY <1>1, <1>3, <1>4, <1>5
<1>7. ASSUME Distinct(s), x \notin Range(s)
      PROVE  Distinct(t)
  BY <1>1, <1>3, <1>4, <1>7 DEF Distinct
<1> QED
  BY <1>1, <1>6, <1>7, DistinctIs DEF t

\* The operations take the workers one after the other.
LEMMA HeadAndTail ==
  ASSUME NEW S, NEW s \in Seq(S), s # <<>>
  PROVE  /\ Head(s) \in S /\ Tail(s) \in Seq(S) /\ Range(s) = {Head(s)} \cup Range(Tail(s))
         /\ IsInjective(s) => IsInjective(Tail(s)) /\ Head(s) \notin Range(Tail(s))
<1> DEFINE t == Tail(s)
<1>1. Head(s) \in S /\ Head(s) = s[1] /\ t \in Seq(S) /\ Len(s) \in Nat \ {0} /\ Len(t) = Len(s) - 1
  BY SMT
<1>2. \A i \in 1 .. Len(t) : t[i] = s[i + 1]
  BY <1>1, SMT
<1>3. Range(t) = {t[i] : i \in 1 .. Len(t)} /\ Range(s) = {s[i] : i \in 1 .. Len(s)}
  BY <1>1, RangeIs
<1> HIDE DEF t
<1>4. \A i \in 2 .. Len(s) : i - 1 \in 1 .. Len(t) /\ s[i] = t[i - 1]
  BY <1>1, <1>2
<1>5. 1 \in 1 .. Len(s) /\ \A i \in 1 .. Len(s) : i = 1 \/ i \in 2 .. Len(s)
  BY <1>1
<1>6. \A i \in 1 .. Len(t) : i + 1 \in 2 .. Len(s) /\ i + 1 \in 1 .. Len(s)
  BY <1>1
<1>7. Range(s) = {Head(s)} \cup Range(t)
  <2>1. \A i \in 1 .. Len(t) : t[i] \in Range(s)
    BY <1>2, <1>3, <1>6
  <2>2. \A i \in 2 .. Len(s) : s[i] \in Range(t)
    BY <1>3, <1>4
  <2>3. \A x \in Range(s) : x = Head(s) \/ x \in Range(t)
    BY <1>1, <1>3, <1>5, <2>2
  <2>4. Head(s) \in Range(s) /\ Range(t) \subseteq Range(s)
    BY <1>1, <1>3, <1>5, <2>1
  <2> QED
    BY <2>3, <2>4
<1>8. ASSUME Distinct(s)
      PROVE  Distinct(t) /\ Head(s) \notin Range(t)
  <2>1. \A i, j \in 1 .. Len(t) : t[i] = t[j] => i + 1 = j + 1
    BY <1>2, <1>6, <1>8 DEF Distinct
  <2>2. Distinct(t)
    BY <1>1, <2>1 DEF Distinct
  <2>3. \A i \in 1 .. Len(t) : s[i + 1] # s[1]
    BY <1>1, <1>5, <1>6, <1>8 DEF Distinct
  <2> QED
    BY <1>1, <1>2, <1>3, <2>2, <2>3
<1> QED
  BY <1>1, <1>7, <1>8, DistinctIs DEF t

\* A nonempty set of natural numbers has a least element.
LEMMA LeastElement ==
  ASSUME NEW T \in SUBSET Nat, T # {}
  PROVE  \E x \in T : \A y \in T : x <= y
<1> DEFINE R == {ss \in Nat \X Nat : ss[1] < ss[2]}
<1>1. IsWellFoundedOn(R, Nat)
  BY NatLessThanWellFounded, Zenon DEF OpToRel
<1>2. PICK x \in T : \A y \in T : ~(<<y, x>> \in R)
  <2> HIDE DEF R
  <2> QED  BY <1>1, WFMin, Zenon
<1>3. \A y \in T : ~(y < x)
  BY <1>2
<1> QED
  BY <1>3

\* The element that RemoveFirst finds.
LEMMA FirstPlace ==
  ASSUME NEW S, NEW s \in Seq(S), NEW e, e \in Range(s)
  PROVE  \E k \in 1 .. Len(s) : s[k] = e /\ RemoveFirst(s, e) = RemoveAt(s, k)
<1> DEFINE I == {i \in 1 .. Len(s) : s[i] = e}
           k == SelectInSeq(s, LAMBDA v : v = e)
<1>1. Len(s) \in Nat /\ \E i \in 1 .. Len(s) : s[i] = e
  BY RangeIs
<1>2. I \in SUBSET Nat /\ I # {}
  BY <1>1
<1>3. PICK x \in I : \A y \in I : x <= y
  <2> HIDE DEF I
  <2> QED  BY <1>2, LeastElement
<1>4. Min(I) \in I
  BY <1>3, Zenon DEF Min
<1>5. k = Min(I)
  BY <1>2, Zenon DEF SelectInSeq
<1>6. RemoveFirst(s, e) = RemoveAt(s, k)
  BY <1>1, Zenon DEF RemoveFirst
<1> QED
  BY <1>4, <1>5, <1>6

\* std::find and erase() take one element out.
LEMMA Removed1 ==
  ASSUME NEW S, NEW s \in Seq(S), NEW e, e \in Range(s), IsInjective(s)
  PROVE  /\ RemoveFirst(s, e) \in Seq(S) /\ IsInjective(RemoveFirst(s, e))
         /\ Range(RemoveFirst(s, e)) = Range(s) \ {e}
<1>1. PICK k \in 1 .. Len(s) : s[k] = e /\ RemoveFirst(s, e) = RemoveAt(s, k)
  BY FirstPlace
<1>2. Len(s) \in Nat /\ Distinct(s) /\ Range(s) = {s[i] : i \in 1 .. Len(s)} /\ \A i \in 1 .. Len(s) : s[i] \in S
  BY RangeIs, DistinctIs, SMT
<1> DEFINE t == RemoveAt(s, k)
           from(i) == IF i < k THEN i ELSE i + 1
<1>3. t \in Seq(S) /\ Len(t) = Len(s) - 1 /\ \A i \in 1 .. Len(s) - 1 : t[i] = s[from(i)]
  <2>1. k \in Int /\ 1 <= k /\ k <= Len(s)
    BY <1>2
  <2>2. /\ SubSeq(s, 1, k - 1) \in Seq(S) /\ Len(SubSeq(s, 1, k - 1)) = k - 1
        /\ \A i \in 1 .. k - 1 : SubSeq(s, 1, k - 1)[i] = s[i]
    BY <1>2, <2>1, SMT
  <2>3. /\ SubSeq(s, k + 1, Len(s)) \in Seq(S) /\ Len(SubSeq(s, k + 1, Len(s))) = Len(s) - k
        /\ \A i \in 1 .. Len(s) - k : SubSeq(s, k + 1, Len(s))[i] = s[k + i]
    BY <1>2, <2>1, SMT
  <2> DEFINE a == SubSeq(s, 1, k - 1)
             b == SubSeq(s, k + 1, Len(s))
  <2> HIDE DEF a, b
  <2>4. t = a \o b
    BY DEF RemoveAt, a, b
  <2>5. /\ a \o b \in Seq(S) /\ Len(a \o b) = Len(a) + Len(b)
        /\ \A i \in 1 .. Len(a) + Len(b) : (a \o b)[i] = IF i <= Len(a) THEN a[i] ELSE b[i - Len(a)]
    <3>1. a \in Seq(S) /\ b \in Seq(S)
      BY <2>2, <2>3 DEF a, b
    <3> QED
      BY <3>1, SMT
  <2>6. Len(a) = k - 1 /\ Len(b) = Len(s) - k /\ Len(s) \in Nat
    BY <1>2, <2>2, <2>3 DEF a, b
  <2>7. ASSUME NEW i \in 1 .. Len(s) - 1 PROVE (a \o b)[i] = s[from(i)]
    <3>1. CASE i < k
      <4>1. i \in 1 .. k - 1 /\ a[i] = s[i]
        BY <2>1, <2>2, <2>7, <3>1 DEF a
      <4> QED
        BY <2>1, <2>5, <2>6, <3>1, <4>1
    <3>2. CASE ~(i < k)
      <4>1. i - (k - 1) \in 1 .. Len(s) - k /\ k + (i - (k - 1)) = i + 1
        BY <1>2, <2>1, <2>7, <3>2
      <4>2. b[i - (k - 1)] = s[i + 1]
        BY <2>3, <4>1 DEF b
      <4> QED
        BY <2>1, <2>5, <2>6, <3>2, <4>2
    <3> QED
      BY <3>1, <3>2
  <2> HIDE DEF t
  <2> QED
    BY <2>1, <2>4, <2>5, <2>6, <2>7
<1>4. \A i \in 1 .. Len(s) - 1 : from(i) \in 1 .. Len(s) /\ from(i) # k
  BY <1>2
<1>5. \A i, j \in 1 .. Len(s) - 1 : from(i) = from(j) => i = j
  BY <1>2
<1>6. \A j \in 1 .. Len(s) : j # k => \E i \in 1 .. Len(s) - 1 : from(i) = j
  <2> SUFFICES ASSUME NEW j \in 1 .. Len(s), j # k PROVE \E i \in 1 .. Len(s) - 1 : from(i) = j
    OBVIOUS
  <2>1. CASE j < k
    <3>1. j \in 1 .. Len(s) - 1 /\ from(j) = j
      BY <1>2, <2>1
    <3> QED
      BY <3>1
  <2>2. CASE j > k
    <3>1. j - 1 \in 1 .. Len(s) - 1 /\ from(j - 1) = j
      BY <1>2, <2>2
    <3> QED
      BY <3>1
  <2> QED
    BY <1>2, <2>1, <2>2
<1> HIDE DEF t, from
<1>7. Range(t) = {t[i] : i \in 1 .. Len(s) - 1}
  BY <1>2, <1>3, RangeIs
<1>8. Distinct(t)
  BY <1>2, <1>3, <1>4, <1>5 DEF Distinct
<1>9. Range(t) = Range(s) \ {e}
  <2>1. \A i \in 1 .. Len(s) - 1 : t[i] \in Range(s) /\ t[i] # e
    BY <1>1, <1>2, <1>3, <1>4 DEF Distinct
  <2>2. ASSUME NEW x \in Range(s), x # e PROVE x \in Range(t)
    <3>1. PICK j \in 1 .. Len(s) : x = s[j]
      BY <1>2
    <3>2. PICK i \in 1 .. Len(s) - 1 : from(i) = j
      BY <1>1, <1>6, <2>2, <3>1
    <3> QED
      BY <1>3, <1>7, <3>1, <3>2
  <2> QED
    BY <1>7, <2>1, <2>2
<1> QED
  BY <1>1, <1>3, <1>8, <1>9, DistinctIs DEF t

----------------------------------------------------------------------------
(* The invariant                                                           *)

StreamTypes ==
  [kind : {"none", "virtual", "hw"}, dom : Domains \cup {"none"}, period : Nat, connected : BOOLEAN, active : BOOLEAN]
WorkerTypes ==
  [dom : Domains \cup {"none"}, period : Nat, streams : Seq(Ids), keep : BOOLEAN,
   thread : {"none", "alive", "leaving", "gone"}, pc : {"top", "process", "diagnose", "copy", "hung"},
   todo : Seq(Ids), first : BOOLEAN, failed : BOOLEAN]
Places == {"idle", "add", "start", "create thread", "stop", "join", "remove", "delete", "drop", "drop join", "next"}
Operations == {"none", "create", "start", "stop", "destroy", "cleanup", "purge"}
ApiTypes == [pc : Places, op : Operations, id : Ids \cup {0}, w : Workers \cup {0}, todo : Seq(Workers)]

EngineTypes ==
  /\ stream \in [Ids -> StreamTypes] /\ worker \in [Workers -> WorkerTypes] /\ api \in ApiTypes
  /\ engine \in [init : BOOLEAN, started : BOOLEAN]
  /\ hw \in [Ids -> {"off", "on", "stopping", "gone"}] /\ list \in Seq(Workers)
  /\ crashed = FALSE

Serving(w) == Range(worker[w].streams)
Alive(w) == worker[w].thread = "alive"
Removing == {"destroy", "purge"}

\* the stream of the call that no worker serves
Detached == IF api.pc = "add" \/ (api.op \in Removing /\ api.pc # "remove") THEN {api.id} ELSE {}
\* the worker that has lost its last stream
Emptied == IF api.op \in Removing /\ api.pc \in {"stop", "join", "delete"} THEN {api.w} ELSE {}
\* the worker that is told to stop
Stopping == IF api.pc = "join" THEN {api.w} ELSE {}
\* the workers the operation has not yet started, or stopped
Pending == IF api.pc \in {"start", "create thread", "stop", "join"} THEN {api.w} \cup Range(api.todo) ELSE {}

ServesOnlyStreams ==
  \A w \in Workers : \A id \in Serving(w) :
     id \in Streams /\ id \notin Detached /\ Matches(w, stream[id].dom, stream[id].period)
ServedByOne ==
  /\ \A id \in Streams : id \in Detached \/ \E w \in Workers : id \in Serving(w)
  /\ \A v, w \in Workers : \A id \in Serving(v) \cap Serving(w) : v = w
  /\ \A w \in Workers : IsInjective(worker[w].streams)
ServedInv == ServesOnlyStreams /\ ServedByOne

ListInv ==
  /\ IsInjective(list)
  /\ \A w \in Workers \ Range(list) : worker[w] = NoWorker
  /\ \A w \in Range(list) : worker[w].streams = <<>> => w \in Emptied
  /\ interfaces \subseteq Range(list)

Kept(w) == (Alive(w) /\ worker[w].keep) \/ worker[w].failed
ThreadOK(w) ==
  /\ ~Alive(w) => worker[w].pc = "top"
  /\ Alive(w) /\ ~worker[w].keep => w \in Stopping
  /\ worker[w].pc = "diagnose" => worker[w].todo = worker[w].streams
  /\ worker[w].pc = "copy" => Range(worker[w].todo) \subseteq Serving(w)
  /\ \A id \in Serving(w) : stream[id].active => Kept(w)
ThreadInv == \A w \in Workers : ThreadOK(w)

StartedInv ==
  /\ ~engine.started => api.op = "start" \/ \A w \in Workers : ~Alive(w)
  /\ api.op \in {"stop", "cleanup"} => \A w \in Workers : Alive(w) => w \in Pending
  /\ api.op = "purge" => \A w \in Workers : ~Alive(w)
  /\ api.op = "start" => ~engine.started /\ \A w \in Pending : ~Alive(w)

\* where the call is, and with which stream and worker
PlaceInv ==
  /\ api.pc = "idle" => api = Idle
  /\ api.pc = "add" => /\ api.op = "create" /\ api.id \in Streams /\ api.w \in Range(list)
                       /\ Matches(api.w, stream[api.id].dom, stream[api.id].period)
  /\ api.pc \in {"start", "create thread"} =>
       /\ api.w \in Range(list)
       /\ api.op = "start" \/ (api.op = "create" /\ api.todo = <<>> /\ engine.started /\ api.id \in Streams)
  /\ api.pc \in {"stop", "join", "delete"} =>
       /\ api.w \in Range(list)
       /\ \/ api.op \in {"stop", "cleanup"} /\ api.pc # "delete"
          \/ api.op \in Removing /\ api.todo = <<>> /\ worker[api.w].streams = <<>> /\ api.id \in Streams
  /\ api.pc = "remove" => api.op \in Removing /\ api.id \in Streams /\ api.w \in Workers /\ api.id \in Serving(api.w) /\ api.todo = <<>>
  /\ api.pc \in {"drop", "drop join"} => api.op \in Removing /\ api.id \in Streams
  /\ api.pc = "next" => api.op = "cleanup"
  /\ Range(api.todo) \subseteq Range(list) /\ IsInjective(api.todo) /\ api.w \notin Range(api.todo)

\* what the thread of the call's worker can do in the meantime
HandledInv ==
  /\ api.pc = "start" => ~Alive(api.w)
  /\ api.pc = "create thread" => worker[api.w].thread \in {"none", "gone"} /\ worker[api.w].keep
  /\ api.pc = "join" => ~worker[api.w].keep
  /\ api.pc = "delete" => ~Alive(api.w)

\* cleanup() finds no connected stream, and leaves nothing behind
NoneConnected == api.op \in {"cleanup", "purge"} => \A id \in Streams : ~stream[id].connected
NothingLeft == ~engine.init => ~engine.started /\ list = <<>> /\ Streams = {} /\ api = Idle
HwOfStreams == \A id \in Ids : hw[id] # "off" => id \in Streams
CleanInv == NoneConnected /\ NothingLeft /\ HwOfStreams

WatchInv == WatchdogTypeOK /\ (~killed => silence < Limit)

AInv == EngineTypes /\ ServedInv /\ ListInv /\ ThreadInv /\ StartedInv /\ PlaceInv /\ HandledInv /\ CleanInv /\ WatchInv

----------------------------------------------------------------------------
SameLists == \A w \in Workers : /\ worker'[w].streams = worker[w].streams /\ worker'[w].dom = worker[w].dom
                                /\ worker'[w].period = worker[w].period
SameStreams == \A id \in Ids : /\ stream'[id].kind = stream[id].kind /\ stream'[id].dom = stream[id].dom
                               /\ stream'[id].period = stream[id].period

\* Who is served by whom does not change.
LEMMA ServedKept ==
  ASSUME EngineTypes, ServedInv, SameLists, SameStreams, Detached' = Detached
  PROVE  ServedInv'
<1>1. \A w \in Workers : Serving(w)' = Serving(w) /\ worker'[w].streams = worker[w].streams
  BY Zenon DEF SameLists, Serving
<1>2. Streams' = Streams
  BY Zenon DEF SameStreams, Streams
<1>3. \A w \in Workers : Serving(w) \subseteq Ids
  BY RangeIs DEF EngineTypes, WorkerTypes, Serving
<1>4. ASSUME NEW w \in Workers, NEW id \in Ids
      PROVE  Matches(w, stream[id].dom, stream[id].period)' <=> Matches(w, stream[id].dom, stream[id].period)
  BY Zenon DEF SameLists, SameStreams, Matches
<1>5. ServesOnlyStreams'
  <2> SUFFICES ASSUME NEW w \in Workers, NEW id \in Serving(w)'
               PROVE  id \in Streams' /\ id \notin Detached' /\ Matches(w, stream[id].dom, stream[id].period)'
    BY Zenon DEF ServesOnlyStreams
  <2>1. id \in Serving(w) /\ id \in Ids
    BY <1>1, <1>3, Zenon
  <2>2. id \in Streams /\ id \notin Detached /\ Matches(w, stream[id].dom, stream[id].period)
    BY <2>1, Zenon DEF ServedInv, ServesOnlyStreams
  <2> QED
    BY <1>2, <1>4, <2>1, <2>2, Zenon
<1>6. ServedByOne'
  <2>1. \A id \in Streams' : id \in Detached' \/ \E w \in Workers : id \in Serving(w)'
    <3>1. \A id \in Streams : id \in Detached \/ \E w \in Workers : id \in Serving(w)
      BY Zenon DEF ServedInv, ServedByOne
    <3> QED
      BY <1>1, <1>2, <3>1, SMT
  <2>2. \A v, w \in Workers : \A id \in Serving(v)' \cap Serving(w)' : v = w
    BY <1>1, Zenon DEF ServedInv, ServedByOne
  <2>3. \A w \in Workers : IsInjective(worker'[w].streams)
    BY <1>1, Zenon DEF ServedInv, ServedByOne
  <2> QED
    BY <2>1, <2>2, <2>3, Zenon DEF ServedByOne
<1> QED
  BY <1>5, <1>6, Zenon DEF ServedInv

\* The list of workers does not change.
LEMMA ListKept ==
  ASSUME ListInv, SameLists, list' = list, interfaces' \subseteq interfaces, list \in Seq(Workers),
         \A w \in Workers \ Range(list) : worker'[w] = worker[w], Emptied \subseteq Emptied'
  PROVE  ListInv'
<1>1. Range(list)' = Range(list) /\ Range(list) \subseteq Workers
  BY RangeIs
<1>2. \A w \in Range(list) : worker'[w].streams = <<>> => w \in Emptied'
  BY <1>1, Zenon DEF SameLists, ListInv
<1> QED
  BY <1>1, <1>2, Zenon DEF ListInv

\* A worker is as it was, and no stream of it has become active.
LEMMA ThreadKept ==
  ASSUME NEW w \in Workers, ThreadOK(w), worker'[w] = worker[w], w \in Stopping => w \in Stopping',
         \A id \in Serving(w) : stream'[id].active => stream[id].active
  PROVE  ThreadOK(w)'
<1>1. Serving(w)' = Serving(w) /\ (Alive(w)' <=> Alive(w)) /\ (Kept(w)' <=> Kept(w))
  BY Zenon DEF Serving, Alive, Kept
<1> QED
  BY <1>1, Zenon DEF ThreadOK

----------------------------------------------------------------------------
(* The watchdog                                                            *)

\* The calls of threads and owners, time and the watchdog thread.
LEMMA WatchSteps ==
  ASSUME WatchInv, ~killed
  PROVE  /\ UNCHANGED wdVars => WatchInv' /\ interfaces' = interfaces
         /\ NotifyTimedOut \/ Tick => WatchInv' /\ interfaces' = interfaces
         /\ \A c \in Clients :
              /\ CreateWatchdog(c) => WatchInv' /\ interfaces' \subseteq interfaces \cup {c}
              /\ DestroyWatchdog(c) => WatchInv' /\ interfaces' = interfaces \ {c}
              /\ ResetWatchdog(c) => WatchInv' /\ interfaces' = interfaces
              /\ UnregisterWatchdog(c) => WatchInv' /\ interfaces' = interfaces
<1> USE WatchdogConstants
<1>0. /\ enabled \in BOOLEAN /\ killed \in BOOLEAN
      /\ registered \subseteq interfaces /\ interfaces \subseteq Clients
      /\ due \in [Clients -> {Unarmed} \union 0 .. Limit]
      /\ sleep \in 0 .. Interval /\ silence \in 0 .. Limit /\ silence < Limit
  BY DEF WatchInv, WatchdogTypeOK
<1>1. ASSUME UNCHANGED wdVars PROVE WatchInv' /\ interfaces' = interfaces
  BY <1>0, <1>1 DEF wdVars, WatchInv, WatchdogTypeOK
<1>2. ASSUME NotifyTimedOut PROVE WatchInv' /\ interfaces' = interfaces
  BY <1>0, <1>2 DEF NotifyTimedOut, WatchInv, WatchdogTypeOK
<1>3. ASSUME Tick PROVE WatchInv' /\ interfaces' = interfaces
  <2>1. due' \in [Clients -> {Unarmed} \union 0 .. Limit]
    BY <1>0, <1>3 DEF Tick, Unarmed
  <2>2. sleep' \in 0 .. Interval /\ silence' \in 0 .. Limit /\ (silence' # Limit => silence' < Limit)
    BY <1>0, <1>3 DEF Tick
  <2>3. killed' \in BOOLEAN /\ (~killed' => silence' # Limit)
    BY <1>3, Zenon DEF Tick
  <2> QED
    BY <1>0, <1>3, <2>1, <2>2, <2>3 DEF Tick, WatchInv, WatchdogTypeOK
<1>4. ASSUME NEW c \in Clients, CreateWatchdog(c) PROVE WatchInv' /\ interfaces' \subseteq interfaces \cup {c}
  <2>1. interfaces' \subseteq interfaces \cup {c} /\ interfaces \subseteq interfaces'
    BY <1>4 DEF CreateWatchdog
  <2> QED
    BY <1>0, <1>4, <2>1 DEF CreateWatchdog, WatchInv, WatchdogTypeOK
<1>5. ASSUME NEW c \in Clients, DestroyWatchdog(c) PROVE WatchInv' /\ interfaces' = interfaces \ {c}
  BY <1>0, <1>5 DEF DestroyWatchdog, WatchInv, WatchdogTypeOK
<1>6. ASSUME NEW c \in Clients, ResetWatchdog(c) PROVE WatchInv' /\ interfaces' = interfaces
  <2>1. DueAfterReset(c) \in 0 .. Limit
    BY <1>0 DEF DueAfterReset
  <2>2. due' \in [Clients -> {Unarmed} \union 0 .. Limit]
    BY <1>0, <1>6, <2>1 DEF ResetWatchdog
  <2> QED
    BY <1>0, <1>6, <2>2 DEF ResetWatchdog, WatchInv, WatchdogTypeOK
<1>7. ASSUME NEW c \in Clients, UnregisterWatchdog(c) PROVE WatchInv' /\ interfaces' = interfaces
  BY <1>0, <1>7 DEF UnregisterWatchdog, WatchInv, WatchdogTypeOK
<1> QED
  BY <1>1, <1>2, <1>3, <1>4, <1>5, <1>6, <1>7

----------------------------------------------------------------------------
(* The call                                                                *)

\* The worker of a call is one of the list.
LEMMA CalledWorker ==
  ASSUME EngineTypes, PlaceInv
  PROVE  /\ Range(list) \subseteq Workers
         /\ api.pc \in {"add", "start", "create thread", "stop", "join", "delete"} => api.w \in Range(list)
         /\ api.pc \in Places /\ api.op \in Operations /\ api.id \in Ids \cup {0} /\ api.todo \in Seq(Workers)
<1>1. list \in Seq(Workers) /\ api \in ApiTypes
  BY DEF EngineTypes
<1>2. Range(list) \subseteq Workers
  BY <1>1, RangeIs
<1>3. api.pc \in {"add", "start", "create thread", "stop", "join", "delete"} => api.w \in Range(list)
  BY DEF PlaceInv
<1> QED
  BY <1>1, <1>2, <1>3 DEF ApiTypes

\* So are those the operation has not come to yet.
LEMMA PendingWorkers ==
  ASSUME EngineTypes, PlaceInv
  PROVE  Pending \subseteq Range(list) /\ Pending \subseteq Workers
BY CalledWorker DEF Pending, PlaceInv

----------------------------------------------------------------------------
(* The threads of the workers                                              *)

\* What a step of a worker's thread does to its object.
LEMMA WorkerGoesOn ==
  ASSUME AInv, NEW w \in Workers, worker[w].thread \in {"alive", "leaving"}, NEW r \in WorkerTypes,
         worker' = [worker EXCEPT ![w] = r],
         r.streams = worker[w].streams, r.dom = worker[w].dom, r.period = worker[w].period,
         r.pc = "diagnose" => r.todo = r.streams, r.pc = "copy" => Range(r.todo) \subseteq Range(r.streams),
         \/ r.thread = "alive" /\ worker[w].thread = "alive" /\ r.keep = worker[w].keep /\ r.failed = worker[w].failed
         \/ /\ r.thread \in {"leaving", "gone"} /\ ~r.keep /\ r.pc = "top"
            /\ r.failed \/ (r.failed = worker[w].failed /\ ~(Alive(w) /\ worker[w].keep)),
         UNCHANGED <<engine, stream, hw, list, api, interfaces>>, crashed' = FALSE, WatchInv'
  PROVE  AInv'
<1> USE DEF AInv
<1>0. /\ worker \in [Workers -> WorkerTypes] /\ list \in Seq(Workers)
      /\ engine' = engine /\ stream' = stream /\ hw' = hw /\ list' = list /\ api' = api /\ interfaces' = interfaces
  BY DEF EngineTypes
<1>1. worker' \in [Workers -> WorkerTypes] /\ worker'[w] = r /\ \A v \in Workers : v # w => worker'[v] = worker[v]
  BY <1>0, Zenon
<1>2. SameLists /\ SameStreams /\ Detached' = Detached /\ Emptied' = Emptied /\ Stopping' = Stopping /\ Pending' = Pending
  <2>1. SameLists
    BY <1>1, Zenon DEF SameLists
  <2> QED
    BY <1>0, <2>1, Zenon DEF SameStreams, Detached, Emptied, Stopping, Pending
<1>3. EngineTypes'
  BY <1>0, <1>1, Zenon DEF EngineTypes
<1>4. ServedInv'
  BY <1>2, ServedKept
<1>5. w \in Range(list)
  BY SMT DEF ListInv, NoWorker
<1>6. ListInv'
  BY <1>0, <1>1, <1>2, <1>5, ListKept, Zenon
<1>7. Alive(w)' => Alive(w)
  BY <1>1, Zenon DEF Alive
<1>8. \A v \in Workers : Alive(v)' => Alive(v)
  BY <1>1, <1>7, Zenon DEF Alive
<1>9. ThreadInv'
  <2>1. ASSUME NEW v \in Workers, v # w PROVE ThreadOK(v)'
    BY <1>0, <1>1, <1>2, <2>1, ThreadKept, Zenon DEF ThreadInv
  <2>2. ThreadOK(w)'
    <3>1. ThreadOK(w) /\ Serving(w)' = Serving(w)
      BY <1>1, Zenon DEF ThreadInv, Serving
    <3>2. \A id \in Serving(w) : stream'[id].active => Kept(w)
      BY <1>0, <3>1, Zenon DEF ThreadOK
    <3>3. Kept(w) => Kept(w)'
      BY <1>1, Zenon DEF Kept, Alive
    <3>4. (Alive(w)' /\ ~worker'[w].keep => w \in Stopping') /\ (~Alive(w)' => worker'[w].pc = "top")
      <4>1. Alive(w) /\ ~worker[w].keep => w \in Stopping
        BY <3>1, Zenon DEF ThreadOK
      <4> QED
        BY <1>1, <1>2, <4>1, Zenon DEF Alive
    <3>5. /\ worker'[w].pc = "diagnose" => worker'[w].todo = worker'[w].streams
          /\ worker'[w].pc = "copy" => Range(worker'[w].todo) \subseteq Serving(w)'
      BY <1>1, Zenon DEF Serving
    <3> QED
      BY <3>1, <3>2, <3>3, <3>4, <3>5, Zenon DEF ThreadOK
  <2> QED
    BY <2>1, <2>2, Zenon DEF ThreadInv
<1>10. StartedInv'
  <2>1. Pending \subseteq Workers
    BY PendingWorkers
  <2> QED
    BY <1>0, <1>2, <1>8, <2>1, Zenon DEF StartedInv
<1>11. PlaceInv'
  <2>1. api.w \in Workers => worker'[api.w].streams = worker[api.w].streams
    BY <1>2, Zenon DEF SameLists
  <2>2. \A v \in Range(list) : worker'[v].streams = worker[v].streams /\ worker'[v].dom = worker[v].dom /\ worker'[v].period = worker[v].period
    BY <1>0, <1>2, RangeIs DEF SameLists
  <2>3. Streams' = Streams
    BY <1>0, Zenon DEF Streams
  <2>4. /\ api.pc \in {"add", "start", "create thread", "stop", "join", "delete"} => api.w \in Range(list)
        /\ api.pc = "remove" => api.w \in Workers
    BY CalledWorker DEF PlaceInv
  <2>5. api.pc = "add" => (Matches(api.w, stream[api.id].dom, stream[api.id].period)' <=> Matches(api.w, stream[api.id].dom, stream[api.id].period))
    BY <1>0, <2>2, <2>4, Zenon DEF Matches
  <2>6. api.pc = "remove" => Serving(api.w)' = Serving(api.w)
    BY <1>0, <2>1, <2>4, Zenon DEF Serving
  <2>7. api.pc \in {"stop", "join", "delete"} => worker'[api.w].streams = worker[api.w].streams
    BY <2>2, <2>4, Zenon
  <2> QED
    BY <1>0, <2>3, <2>5, <2>6, <2>7 DEF PlaceInv
<1>12. HandledInv'
  <2>1. api.pc = "start" => ~Alive(api.w)'
    BY <1>0, <1>8, CalledWorker DEF HandledInv
  <2>2. api.pc = "delete" => ~Alive(api.w)'
    BY <1>0, <1>8, CalledWorker DEF HandledInv
  <2>3. api.pc = "create thread" => worker'[api.w].thread \in {"none", "gone"} /\ worker'[api.w].keep
    <3>1. ASSUME api.pc = "create thread" PROVE api.w \in Workers /\ api.w # w
      BY <3>1, CalledWorker DEF HandledInv
    <3> QED
      BY <1>1, <3>1, Zenon DEF HandledInv
  <2>4. api.pc = "join" => ~worker'[api.w].keep
    <3>1. api.pc = "join" => api.w \in Workers
      BY CalledWorker
    <3> QED
      BY <1>1, <3>1, Zenon DEF HandledInv
  <2> QED
    BY <1>0, <2>1, <2>2, <2>3, <2>4, Zenon DEF HandledInv
<1>13. CleanInv'
  <2>1. Streams' = Streams
    BY <1>0, Zenon DEF Streams
  <2> QED
    BY <1>0, <2>1, Zenon DEF CleanInv, NoneConnected, NothingLeft, HwOfStreams
<1> QED
  BY <1>3, <1>4, <1>6, <1>9, <1>10, <1>11, <1>12, <1>13, Zenon

\* A step of the thread of a worker, or the thread hangs or ends by itself.
LEMMA WorkerStepKeeps ==
  ASSUME AInv, ~killed, NEW w \in Workers, WorkerStep(w) \/ ClockFails(w) \/ Hang(w)
  PROVE  AInv'
<1> DEFINE o == worker[w]
<1>0. worker \in [Workers -> WorkerTypes] /\ o \in WorkerTypes /\ crashed = FALSE /\ WatchInv /\ ThreadOK(w)
  BY Zenon DEF AInv, EngineTypes, ThreadInv
<1>1. /\ o.streams \in Seq(Ids) /\ o.todo \in Seq(Ids) /\ Range(o.streams) \subseteq Streams /\ <<>> \in Seq(Ids)
  <2>1. o.streams \in Seq(Ids) /\ o.todo \in Seq(Ids) /\ Range(o.streams) \subseteq Streams
    BY <1>0, Zenon DEF WorkerTypes, AInv, ServedInv, ServesOnlyStreams, Serving
  <2>2. <<>> \in Seq(Ids)
    BY SMT
  <2> QED
    BY <2>1, <2>2
<1>2. CASE RunEnds(w)
  <2> DEFINE r == [o EXCEPT !.thread = "leaving"]
  <2>1. worker' = [worker EXCEPT ![w] = r] /\ o.thread = "alive" /\ o.pc = "top" /\ ~o.keep
    BY <1>0, <1>2, Zenon DEF RunEnds, At
  <2>2. r \in WorkerTypes
    BY <1>0, <1>1, Zenon DEF WorkerTypes
  <2>3. /\ r.streams = o.streams /\ r.dom = o.dom /\ r.period = o.period /\ r.thread = "leaving" /\ r.keep = o.keep
        /\ r.pc = o.pc /\ r.failed = o.failed
    BY <1>0, Zenon DEF WorkerTypes
  <2>4. UNCHANGED <<engine, stream, hw, list, api, interfaces>> /\ WatchInv'
    BY <1>0, <1>2, WatchSteps, Zenon DEF RunEnds, Workers
  <2>5. crashed' = FALSE
    BY <1>0, <1>2, Zenon DEF RunEnds
  <2> HIDE DEF r, o
  <2> QED
    BY <2>1, <2>2, <2>3, <2>4, <2>5, WorkerGoesOn DEF o
<1>3. CASE ClockFails(w)
  <2> DEFINE r == [o EXCEPT !.keep = FALSE, !.thread = "leaving", !.failed = TRUE]
  <2>1. worker' = [worker EXCEPT ![w] = r] /\ o.thread = "alive" /\ o.pc = "top"
    BY <1>0, <1>3, Zenon DEF ClockFails, At
  <2>2. r \in WorkerTypes
    BY <1>0, <1>1, Zenon DEF WorkerTypes
  <2>3. /\ r.streams = o.streams /\ r.dom = o.dom /\ r.period = o.period /\ r.thread = "leaving" /\ r.keep = FALSE
        /\ r.pc = o.pc /\ r.failed = TRUE
    BY <1>0, Zenon DEF WorkerTypes
  <2>4. UNCHANGED <<engine, stream, hw, list, api, interfaces>> /\ WatchInv'
    BY <1>0, <1>3, WatchSteps, Zenon DEF ClockFails, Workers
  <2>5. crashed' = FALSE
    BY <1>0, <1>3, Zenon DEF ClockFails
  <2> HIDE DEF r, o
  <2> QED
    BY <2>1, <2>2, <2>3, <2>4, <2>5, WorkerGoesOn DEF o
<1>4. CASE CycleInitialises(w)
  <2> DEFINE r == [o EXCEPT !.pc = "process", !.first = FALSE]
  <2>1. worker' = [worker EXCEPT ![w] = r] /\ o.thread = "alive"
    BY <1>0, <1>4, Zenon DEF CycleInitialises, At
  <2>2. r \in WorkerTypes
    BY <1>0, <1>1, Zenon DEF WorkerTypes
  <2>3. /\ r.streams = o.streams /\ r.dom = o.dom /\ r.period = o.period /\ r.thread = o.thread /\ r.keep = o.keep
        /\ r.pc = "process" /\ r.failed = o.failed
    BY <1>0, Zenon DEF WorkerTypes
  <2>4. UNCHANGED <<engine, stream, hw, list, api, interfaces>> /\ WatchInv'
    BY <1>0, <1>4, WatchSteps, Zenon DEF CycleInitialises, Workers
  <2>5. crashed' = FALSE
    BY <1>0, <1>4, Zenon DEF CycleInitialises
  <2> HIDE DEF r, o
  <2> QED
    BY <2>1, <2>2, <2>3, <2>4, <2>5, WorkerGoesOn DEF o
<1>5. CASE CycleAdjusts(w) /\ worker' = [worker EXCEPT ![w].pc = "process"]
  <2> DEFINE r == [o EXCEPT !.pc = "process"]
  <2>1. worker' = [worker EXCEPT ![w] = r] /\ o.thread = "alive"
    BY <1>0, <1>5, Zenon DEF CycleAdjusts, At
  <2>2. r \in WorkerTypes
    BY <1>0, <1>1, Zenon DEF WorkerTypes
  <2>3. /\ r.streams = o.streams /\ r.dom = o.dom /\ r.period = o.period /\ r.thread = o.thread /\ r.keep = o.keep
        /\ r.pc = "process" /\ r.failed = o.failed
    BY <1>0, Zenon DEF WorkerTypes
  <2>4. UNCHANGED <<engine, stream, hw, list, api, interfaces>> /\ WatchInv'
    BY <1>0, <1>5, WatchSteps, Zenon DEF CycleAdjusts, Workers
  <2>5. crashed' = FALSE
    BY <1>0, <1>5, Zenon DEF CycleAdjusts
  <2> HIDE DEF r, o
  <2> QED
    BY <2>1, <2>2, <2>3, <2>4, <2>5, WorkerGoesOn DEF o
<1>6. CASE CycleAdjusts(w) /\ worker' # [worker EXCEPT ![w].pc = "process"]
  <2> DEFINE r == [o EXCEPT !.pc = "diagnose", !.first = TRUE, !.todo = o.streams]
  <2>1. worker' = [worker EXCEPT ![w] = r] /\ o.thread = "alive"
    BY <1>0, <1>6, Zenon DEF CycleAdjusts, At
  <2>2. r \in WorkerTypes
    BY <1>0, <1>1, Zenon DEF WorkerTypes
  <2>3. /\ r.streams = o.streams /\ r.dom = o.dom /\ r.period = o.period /\ r.thread = o.thread /\ r.keep = o.keep
        /\ r.pc = "diagnose" /\ r.failed = o.failed /\ r.todo = o.streams
    BY <1>0, Zenon DEF WorkerTypes
  <2>4. UNCHANGED <<engine, stream, hw, list, api, interfaces>> /\ WatchInv'
    BY <1>0, <1>6, WatchSteps, Zenon DEF CycleAdjusts, Workers
  <2>5. crashed' = FALSE
    BY <1>0, <1>6, Zenon DEF CycleAdjusts
  <2> HIDE DEF r, o
  <2> QED
    BY <2>1, <2>2, <2>3, <2>4, <2>5, WorkerGoesOn DEF o
<1>7. CASE Diagnose(w)
  <2> DEFINE r == [o EXCEPT !.pc = "process", !.todo = <<>>]
  <2>1. worker' = [worker EXCEPT ![w] = r] /\ o.thread = "alive" /\ o.pc = "diagnose"
    BY <1>0, <1>7, Zenon DEF Diagnose, At
  <2>2. r \in WorkerTypes
    BY <1>0, <1>1, Zenon DEF WorkerTypes
  <2>3. /\ r.streams = o.streams /\ r.dom = o.dom /\ r.period = o.period /\ r.thread = o.thread /\ r.keep = o.keep
        /\ r.pc = "process" /\ r.failed = o.failed
    BY <1>0, Zenon DEF WorkerTypes
  <2>4. UNCHANGED <<engine, stream, hw, list, api, interfaces>> /\ WatchInv'
    BY <1>0, <1>7, WatchSteps, Zenon DEF Diagnose, Workers
  <2>5. crashed' = FALSE
    <3>1. o.todo = o.streams
      BY <1>0, <2>1, Zenon DEF ThreadOK
    <3> QED
      BY <1>1, <1>7, <3>1 DEF Diagnose
  <2> HIDE DEF r, o
  <2> QED
    BY <2>1, <2>2, <2>3, <2>4, <2>5, WorkerGoesOn DEF o
<1>8. CASE ProcessEnters(w)
  <2> DEFINE r == [o EXCEPT !.pc = "copy", !.todo = o.streams]
  <2>1. worker' = [worker EXCEPT ![w] = r] /\ o.thread = "alive"
    BY <1>0, <1>8, Zenon DEF ProcessEnters, At
  <2>2. r \in WorkerTypes
    BY <1>0, <1>1, Zenon DEF WorkerTypes
  <2>3. /\ r.streams = o.streams /\ r.dom = o.dom /\ r.period = o.period /\ r.thread = o.thread /\ r.keep = o.keep
        /\ r.pc = "copy" /\ r.failed = o.failed /\ r.todo = o.streams
    BY <1>0, Zenon DEF WorkerTypes
  <2>4. UNCHANGED <<engine, stream, hw, list, api, interfaces>> /\ WatchInv'
    BY <1>0, <1>8, WatchSteps, Zenon DEF ProcessEnters, Workers
  <2>5. crashed' = FALSE
    BY <1>0, <1>8, Zenon DEF ProcessEnters
  <2> HIDE DEF r, o
  <2> QED
    BY <2>1, <2>2, <2>3, <2>4, <2>5, WorkerGoesOn DEF o
<1>9. CASE CopyJob(w)
  <2> DEFINE r == [o EXCEPT !.todo = Tail(o.todo)]
  <2>0. /\ o.todo # <<>> /\ Head(o.todo) \in Range(o.todo) /\ Tail(o.todo) \in Seq(Ids)
        /\ Range(Tail(o.todo)) \subseteq Range(o.todo)
    <3>1. o.todo # <<>>
      BY <1>9, Zenon DEF CopyJob
    <3> QED
      BY <1>1, <3>1, HeadAndTail
  <2>1. worker' = [worker EXCEPT ![w] = r] /\ o.thread = "alive" /\ o.pc = "copy" /\ o.todo # <<>>
    BY <1>0, <1>9, Zenon DEF CopyJob, At
  <2>2. r \in WorkerTypes
    BY <1>0, <1>1, <2>0, Zenon DEF WorkerTypes
  <2>3. /\ r.streams = o.streams /\ r.dom = o.dom /\ r.period = o.period /\ r.thread = o.thread /\ r.keep = o.keep
        /\ r.pc = o.pc /\ r.failed = o.failed /\ r.todo = Tail(o.todo)
    BY <1>0, Zenon DEF WorkerTypes
  <2>4. UNCHANGED <<engine, stream, hw, list, api, interfaces>> /\ WatchInv'
    BY <1>0, <1>9, WatchSteps, Zenon DEF CopyJob, Workers
  <2>6. Range(o.todo) \subseteq Range(o.streams)
    BY <1>0, <2>1, Zenon DEF ThreadOK, Serving
  <2>5. crashed' = FALSE
    BY <1>1, <1>9, <2>0, <2>6 DEF CopyJob
  <2> HIDE DEF r, o
  <2> QED
    BY <2>1, <2>2, <2>3, <2>4, <2>5, <2>0, <2>6, WorkerGoesOn DEF o
<1>10. CASE ProcessLeaves(w)
  <2> DEFINE r == [o EXCEPT !.pc = "top"]
  <2>1. worker' = [worker EXCEPT ![w] = r] /\ o.thread = "alive"
    BY <1>0, <1>10, Zenon DEF ProcessLeaves, At
  <2>2. r \in WorkerTypes
    BY <1>0, <1>1, Zenon DEF WorkerTypes
  <2>3. /\ r.streams = o.streams /\ r.dom = o.dom /\ r.period = o.period /\ r.thread = o.thread /\ r.keep = o.keep
        /\ r.pc = "top" /\ r.failed = o.failed
    BY <1>0, Zenon DEF WorkerTypes
  <2>4. UNCHANGED <<engine, stream, hw, list, api, interfaces>> /\ WatchInv'
    BY <1>0, <1>10, WatchSteps, Zenon DEF ProcessLeaves, Workers
  <2>5. crashed' = FALSE
    BY <1>0, <1>10, Zenon DEF ProcessLeaves
  <2> HIDE DEF r, o
  <2> QED
    BY <2>1, <2>2, <2>3, <2>4, <2>5, WorkerGoesOn DEF o
<1>11. CASE Hang(w)
  <2> DEFINE r == [o EXCEPT !.pc = "hung", !.todo = <<>>]
  <2>1. worker' = [worker EXCEPT ![w] = r] /\ o.thread = "alive"
    BY <1>0, <1>11, Zenon DEF Hang, At
  <2>2. r \in WorkerTypes
    BY <1>0, <1>1, Zenon DEF WorkerTypes
  <2>3. /\ r.streams = o.streams /\ r.dom = o.dom /\ r.period = o.period /\ r.thread = o.thread /\ r.keep = o.keep
        /\ r.pc = "hung" /\ r.failed = o.failed
    BY <1>0, Zenon DEF WorkerTypes
  <2>4. UNCHANGED <<engine, stream, hw, list, api, interfaces>> /\ WatchInv'
    BY <1>0, <1>11, WatchSteps, Zenon DEF Hang, Workers
  <2>5. crashed' = FALSE
    BY <1>0, <1>11, Zenon DEF Hang
  <2> HIDE DEF r, o
  <2> QED
    BY <2>1, <2>2, <2>3, <2>4, <2>5, WorkerGoesOn DEF o
<1>12. CASE AfterRun(w)
  <2> DEFINE r == [o EXCEPT !.keep = FALSE, !.thread = "gone"]
  <2>1. worker' = [worker EXCEPT ![w] = r] /\ o.thread = "leaving"
    BY <1>0, <1>12, Zenon DEF AfterRun
  <2>2. r \in WorkerTypes
    BY <1>0, <1>1, Zenon DEF WorkerTypes
  <2>3. /\ r.streams = o.streams /\ r.dom = o.dom /\ r.period = o.period /\ r.thread = "gone" /\ r.keep = FALSE
        /\ r.pc = o.pc /\ r.failed = o.failed
    BY <1>0, Zenon DEF WorkerTypes
  <2>4. UNCHANGED <<engine, stream, hw, list, api, interfaces>> /\ WatchInv'
    BY <1>0, <1>12, WatchSteps, Zenon DEF AfterRun, Workers
  <2>5. crashed' = FALSE
    BY <1>0, <1>12, Zenon DEF AfterRun
  <2>6. o.pc = "top" /\ ~Alive(w)
    BY <1>0, <2>1 DEF ThreadOK, Alive
  <2> HIDE DEF r, o
  <2> QED
    BY <2>1, <2>2, <2>3, <2>4, <2>5, <2>6, WorkerGoesOn DEF o
<1> QED
  BY <1>2, <1>3, <1>4, <1>5, <1>6, <1>7, <1>8, <1>9, <1>10, <1>11, <1>12, Zenon DEF WorkerStep

----------------------------------------------------------------------------
(* Operations on one worker after the other                                *)

\* Neither the streams nor the lists change.
Unmoved ==
  /\ SameLists /\ SameStreams /\ list' = list /\ interfaces' = interfaces
  /\ Detached' = Detached /\ Emptied \subseteq Emptied'
  /\ \A w \in Workers \ Range(list) : worker'[w] = worker[w]

\* As long as nothing is moved, who serves whom and the list are as they were.
LEMMA UnmovedKeeps ==
  ASSUME AInv, Unmoved
  PROVE  ServedInv' /\ ListInv'
<1>1. ServedInv'
  BY ServedKept, Zenon DEF AInv, Unmoved
<1>2. ListInv'
  BY ListKept, Zenon DEF AInv, Unmoved, EngineTypes
<1> QED
  BY <1>1, <1>2

\* The streams of a worker are told whether it is active.
LEMMA ActiveSet ==
  ASSUME EngineTypes, ServedInv, NEW w \in Workers, NEW a \in BOOLEAN, stream' = SetWorkerActive(w, a)
  PROVE  /\ stream' \in [Ids -> StreamTypes] /\ SameStreams /\ Streams' = Streams
         /\ \A id \in Ids : stream'[id].connected = stream[id].connected
         /\ \A id \in Serving(w) : stream'[id].active = a
         /\ \A v \in Workers : v # w => \A id \in Serving(v) : stream'[id] = stream[id]
<1>1. stream \in [Ids -> StreamTypes] /\ Streams \subseteq Ids
  BY DEF EngineTypes, Streams
<1>2. /\ \A v \in Workers : \A id \in Serving(v) : id \in Streams
      /\ \A v \in Workers : \A id \in Serving(v) \cap Serving(w) : v = w
  BY Zenon DEF ServedInv, ServesOnlyStreams, ServedByOne
<1>3. \A id \in Ids : stream'[id] = IF id \in Serving(w) /\ id \in Streams THEN [stream[id] EXCEPT !.active = a] ELSE stream[id]
  BY Zenon DEF SetWorkerActive, Serving
<1>4. ASSUME NEW id \in Ids
      PROVE  /\ stream'[id] \in StreamTypes /\ stream'[id].kind = stream[id].kind /\ stream'[id].dom = stream[id].dom
             /\ stream'[id].period = stream[id].period /\ stream'[id].connected = stream[id].connected
             /\ id \in Serving(w) => stream'[id].active = a
             /\ id \notin Serving(w) => stream'[id] = stream[id]
  <2>1. stream[id] \in StreamTypes
    BY <1>1, Zenon
  <2>2. CASE id \in Serving(w)
    <3>1. stream'[id] = [stream[id] EXCEPT !.active = a]
      BY <1>2, <1>3, <2>2, Zenon
    <3> QED
      BY <2>1, <2>2, <3>1, Zenon DEF StreamTypes
  <2>3. CASE id \notin Serving(w)
    <3>1. stream'[id] = stream[id]
      BY <1>3, <2>3, Zenon
    <3> QED
      BY <2>1, <2>3, <3>1, Zenon
  <2> QED
    BY <2>2, <2>3
<1>5. stream' \in [Ids -> StreamTypes]
  <2>1. stream' = [id \in Ids |-> stream'[id]]
    BY Zenon DEF SetWorkerActive
  <2> QED
    BY <1>4, <2>1, Zenon
<1>6. SameStreams /\ Streams' = Streams
  BY <1>4, Zenon DEF SameStreams, Streams
<1>7. \A id \in Serving(w) : stream'[id].active = a
  BY <1>1, <1>2, <1>4, Zenon
<1>8. \A v \in Workers : v # w => \A id \in Serving(v) : stream'[id] = stream[id]
  BY <1>1, <1>2, <1>4, Zenon
<1> QED
  BY <1>4, <1>5, <1>6, <1>7, <1>8, Zenon

\* A device handler is started with its stream, or not.
LEMMA HwStartedKeeps ==
  ASSUME EngineTypes, HwOfStreams, NEW id \in Streams, Created(id) \/ hw' = hw, Streams' = Streams
  PROVE  hw' \in [Ids -> {"off", "on", "stopping", "gone"}] /\ HwOfStreams'
<1>1. hw \in [Ids -> {"off", "on", "stopping", "gone"}] /\ id \in Ids
  BY DEF EngineTypes, Streams
<1>2. hw' = hw \/ hw' = [hw EXCEPT ![id] = "on"]
  BY Zenon DEF Created, HwStarted
<1> QED
  BY <1>1, <1>2, Zenon DEF HwOfStreams

\* The call that is under way: it moves on to another place.
LEMMA MovesTo ==
  ASSUME EngineTypes, NEW p \in Places, api' = [api EXCEPT !.pc = p]
  PROVE  /\ api' \in ApiTypes /\ api'.pc = p /\ api'.op = api.op /\ api'.id = api.id /\ api'.w = api.w
         /\ api'.todo = api.todo
<1>1. api \in ApiTypes
  BY DEF EngineTypes
<1> QED
  BY <1>1, Zenon DEF ApiTypes

\* No call is under way.
LEMMA IdleIs ==
  /\ Idle \in ApiTypes /\ Idle.pc = "idle" /\ Idle.op = "none" /\ Idle.todo = <<>>
  /\ api = Idle => Detached = {} /\ Emptied = {} /\ Stopping = {} /\ Pending = {}
<1>1. <<>> \in Seq(Workers)
  BY SMT
<1>2. Idle \in ApiTypes /\ Idle.pc = "idle" /\ Idle.op = "none" /\ Idle.todo = <<>>
  BY <1>1 DEF Idle, ApiTypes, Places, Operations
<1>3. api = Idle => Detached = {} /\ Emptied = {} /\ Stopping = {} /\ Pending = {}
  BY <1>2 DEF Detached, Emptied, Stopping, Pending, Removing
<1> QED
  BY <1>2, <1>3

\* The call is over.
LEMMA CallOver ==
  ASSUME api' = Idle
  PROVE  /\ api' \in ApiTypes /\ PlaceInv' /\ HandledInv' /\ NoneConnected'
         /\ Detached' = {} /\ Emptied' = {} /\ Stopping' = {} /\ Pending' = {}
<1>1. api' = [pc |-> "idle", op |-> "none", id |-> 0, w |-> 0, todo |-> <<>>]
  BY DEF Idle
<1>2. Range(<<>>) = {} /\ IsInjective(<<>>)
  BY EmptyList
<1>3. api' \in ApiTypes
  BY IdleIs
<1>4. PlaceInv'
  BY <1>1, <1>2 DEF PlaceInv
<1>5. HandledInv' /\ NoneConnected'
  BY <1>1 DEF HandledInv, NoneConnected
<1>6. Detached' = {} /\ Emptied' = {} /\ Stopping' = {} /\ Pending' = {}
  BY <1>1 DEF Detached, Emptied, Stopping, Pending, Removing
<1> QED
  BY <1>3, <1>4, <1>5, <1>6

\* The operation goes on with the next worker, or all workers are done.
LEMMA GoesOn ==
  ASSUME EngineTypes, PlaceInv, NEW p \in {"start", "stop"}, api' = NextWorker(p), list' = list,
         IF p = "start" THEN api.op = "start" ELSE api.op \in {"stop", "cleanup"},
         api.pc \in {"start", "create thread", "stop", "join"}
  PROVE  /\ api' \in ApiTypes /\ PlaceInv' /\ Detached = {} /\ Detached' = {} /\ Emptied = {}
         /\ Pending' = Range(api.todo) /\ Stopping' = {}
         /\ \/ api.todo = <<>> /\ api' = Idle
            \/ /\ api.todo # <<>> /\ api'.pc = p /\ api'.op = api.op
               /\ api'.w \in Range(api.todo)
<1>0. api \in ApiTypes /\ api.todo \in Seq(Workers) /\ list \in Seq(Workers)
  BY DEF EngineTypes, ApiTypes
<1>1. Range(api.todo) \subseteq Range(list) /\ IsInjective(api.todo) /\ Range(list) \subseteq Workers
  BY <1>0, RangeIs DEF PlaceInv
<1>2. CASE api.todo = <<>>
  <2>1. api' = Idle
    BY <1>2, Zenon DEF NextWorker
  <2>2. Range(<<>>) = {}
    BY EmptyList
  <2>3. Detached = {} /\ Emptied = {}
    BY DEF Detached, Emptied, Removing
  <2> QED
    BY <1>2, <2>1, <2>2, <2>3, CallOver, Zenon
<1>3. CASE api.todo # <<>>
  <2> DEFINE h == Head(api.todo)
             t == Tail(api.todo)
  <2>1. /\ h \in Workers /\ t \in Seq(Workers) /\ Range(api.todo) = {h} \cup Range(t)
        /\ IsInjective(t) /\ h \notin Range(t)
    BY <1>0, <1>1, <1>3, HeadAndTail
  <2>2. api' = [api EXCEPT !.pc = p, !.w = h, !.todo = t]
    BY <1>3, Zenon DEF NextWorker
  <2> HIDE DEF h, t
  <2>3. /\ api' \in ApiTypes /\ api'.pc = p /\ api'.op = api.op /\ api'.id = api.id /\ api'.w = h /\ api'.todo = t
    BY <1>0, <2>1, <2>2 DEF ApiTypes, Places
  <2>4. PlaceInv'
    BY <1>1, <2>1, <2>3 DEF PlaceInv, Removing
  <2>5. Detached = {} /\ Emptied = {}
    BY DEF Detached, Emptied, Removing
  <2>6. Detached' = {} /\ Pending' = {h} \cup Range(t) /\ Stopping' = {}
    BY <2>3 DEF Detached, Removing, Pending, Stopping
  <2> QED
    BY <1>3, <2>1, <2>3, <2>4, <2>5, <2>6
<1> QED
  BY <1>2, <1>3

\* start(), stop() and cleanup() begin with the first worker.
LEMMA Begins ==
  ASSUME EngineTypes, IsInjective(list), NEW p \in {"start", "stop"}, NEW op \in {"start", "stop", "cleanup"},
         p = "start" <=> op = "start", api' = AllWorkers(p, op), list' = list, list # <<>>
  PROVE  /\ api' \in ApiTypes /\ PlaceInv' /\ Detached' = {} /\ Emptied' = {} /\ Stopping' = {}
         /\ Pending' = Range(list) /\ api'.pc = p /\ api'.op = op /\ api'.w \in Range(list)
<1>0. list \in Seq(Workers)
  BY DEF EngineTypes
<1> DEFINE h == Head(list)
           t == Tail(list)
<1>1. /\ h \in Workers /\ t \in Seq(Workers) /\ Range(list) = {h} \cup Range(t)
      /\ IsInjective(t) /\ h \notin Range(t)
  BY <1>0, HeadAndTail
<1>2. api' = [pc |-> p, op |-> op, id |-> 0, w |-> h, todo |-> t]
  BY DEF AllWorkers, Idle
<1> HIDE DEF h, t
<1>3. /\ api' \in ApiTypes /\ api'.pc = p /\ api'.op = op /\ api'.id = 0 /\ api'.w = h /\ api'.todo = t
  <2>1. p \in Places /\ op \in Operations /\ 0 \in Ids \cup {0} /\ h \in Workers \cup {0}
    BY <1>1 DEF Places, Operations
  <2>2. api' \in ApiTypes
    BY <1>1, <1>2, <2>1, SMT DEF ApiTypes
  <2> QED
    BY <1>2, <2>2
<1>4. PlaceInv'
  BY <1>1, <1>3 DEF PlaceInv, Removing
<1>5. Detached' = {} /\ Emptied' = {} /\ Stopping' = {} /\ Pending' = {h} \cup Range(t)
  BY <1>3 DEF Detached, Emptied, Removing, Pending, Stopping
<1> QED
  BY <1>1, <1>3, <1>4, <1>5

\* Only workers of the list have threads.
LEMMA OnlyListed ==
  ASSUME ListInv, NEW w \in Workers, Alive(w)
  PROVE  w \in Range(list)
<1>1. NoWorker.thread = "none"
  BY DEF NoWorker
<1> QED
  BY <1>1, Zenon DEF ListInv, Alive

\* Only the call moves.
LEMMA OnlyApi ==
  ASSUME AInv, ~killed, UNCHANGED <<stream, hw, worker, list, crashed, wdVars>>,
         engine' \in [init : BOOLEAN, started : BOOLEAN], api' \in ApiTypes,
         Detached' = Detached, Emptied \subseteq Emptied', Stopping \subseteq Stopping'
  PROVE  /\ EngineTypes' /\ ServedInv' /\ ListInv' /\ ThreadInv' /\ WatchInv' /\ HwOfStreams'
         /\ Streams' = Streams /\ \A w \in Workers : Alive(w)' <=> Alive(w)
<1>1. stream' = stream /\ hw' = hw /\ worker' = worker /\ list' = list /\ crashed' = crashed /\ UNCHANGED wdVars
  OBVIOUS
<1>2. WatchInv' /\ interfaces' = interfaces
  BY <1>1, WatchSteps, Zenon DEF AInv
<1>3. Unmoved
  BY <1>1, <1>2, Zenon DEF Unmoved, SameLists, SameStreams
<1>4. ServedInv' /\ ListInv'
  BY <1>3, UnmovedKeeps
<1>5. EngineTypes'
  BY <1>1, Zenon DEF AInv, EngineTypes
<1>6. ThreadInv'
  <2>1. ASSUME NEW w \in Workers PROVE ThreadOK(w)'
    <3>1. w \in Stopping => w \in Stopping'
      OBVIOUS
    <3> QED
      BY <1>1, <3>1, ThreadKept, Zenon DEF AInv, ThreadInv
  <2> QED
    BY <2>1, Zenon DEF ThreadInv
<1>7. Streams' = Streams /\ \A w \in Workers : Alive(w)' <=> Alive(w)
  BY <1>1, Zenon DEF Streams, Alive
<1>8. HwOfStreams'
  BY <1>1, <1>7, Zenon DEF AInv, CleanInv, HwOfStreams
<1> QED
  BY <1>2, <1>4, <1>5, <1>6, <1>7, <1>8

\* The engine's flags.
LEMMA EngineFlags ==
  ASSUME EngineTypes
  PROVE  /\ engine.init \in BOOLEAN /\ engine.started \in BOOLEAN
         /\ \A b \in BOOLEAN : /\ [engine EXCEPT !.started = b] \in [init : BOOLEAN, started : BOOLEAN]
                               /\ [engine EXCEPT !.started = b].init = engine.init
                               /\ [engine EXCEPT !.started = b].started = b
BY Zenon DEF EngineTypes

\* start() of the engine.
LEMMA StartEngineKeeps ==
  ASSUME AInv, ~killed, StartEngine
  PROVE  AInv'
<1> USE DEF AInv, CleanInv
<1>1. /\ api = Idle /\ engine.init /\ ~engine.started /\ api' = AllWorkers("start", "start") /\ list' = list
      /\ engine' = [engine EXCEPT !.started = (list = <<>>)]
      /\ UNCHANGED <<stream, hw, worker, list, crashed, wdVars>>
  BY Zenon DEF StartEngine
<1>2. engine' \in [init : BOOLEAN, started : BOOLEAN] /\ engine'.init /\ (engine'.started <=> list = <<>>)
  BY <1>1, EngineFlags, Zenon
<1>3. Detached = {} /\ Emptied = {} /\ Stopping = {} /\ api.op = "none"
  BY <1>1, IdleIs, Zenon
<1>4. \A w \in Workers : ~Alive(w)
  BY <1>1, <1>3 DEF StartedInv
<1>5. NothingLeft'
  BY <1>2, Zenon DEF NothingLeft
<1>6. CASE list = <<>>
  <2>1. api' = Idle
    BY <1>1, <1>6, Zenon DEF AllWorkers
  <2>2. /\ api' \in ApiTypes /\ PlaceInv' /\ HandledInv' /\ NoneConnected'
        /\ Detached' = {} /\ Emptied' = {} /\ Stopping' = {}
    BY <2>1, CallOver
  <2>3. /\ EngineTypes' /\ ServedInv' /\ ListInv' /\ ThreadInv' /\ WatchInv' /\ HwOfStreams'
        /\ \A w \in Workers : Alive(w)' <=> Alive(w)
    BY <1>1, <1>2, <1>3, <2>2, OnlyApi
  <2>4. StartedInv'
    <3>1. api'.op = "none" /\ engine'.started
      BY <1>2, <1>6, <2>1, IdleIs, Zenon
    <3> QED
      BY <3>1 DEF StartedInv
  <2> QED
    BY <1>5, <2>2, <2>3, <2>4, Zenon
<1>7. CASE list # <<>>
  <2>1. /\ api' \in ApiTypes /\ PlaceInv' /\ Detached' = {} /\ Emptied' = {} /\ Stopping' = {}
        /\ Pending' = Range(list) /\ api'.pc = "start" /\ api'.op = "start" /\ api'.w \in Range(list)
    BY <1>1, <1>7, Begins, Zenon DEF ListInv
  <2>2. /\ EngineTypes' /\ ServedInv' /\ ListInv' /\ ThreadInv' /\ WatchInv' /\ HwOfStreams'
        /\ \A w \in Workers : Alive(w)' <=> Alive(w)
    BY <1>1, <1>2, <1>3, <2>1, OnlyApi
  <2>3. Range(list) \subseteq Workers
    BY RangeIs DEF EngineTypes
  <2>4. StartedInv'
    BY <1>2, <1>4, <1>7, <2>1, <2>2, <2>3 DEF StartedInv
  <2>5. HandledInv'
    BY <1>4, <2>1, <2>2, <2>3 DEF HandledInv
  <2>6. NoneConnected'
    BY <2>1 DEF NoneConnected
  <2> QED
    BY <1>5, <2>1, <2>2, <2>4, <2>5, <2>6, Zenon
<1> QED
  BY <1>6, <1>7

\* stop() and cleanup() of the engine.
LEMMA StopEngineKeeps ==
  ASSUME AInv, ~killed, StopEngine
  PROVE  AInv'
<1> USE DEF AInv, CleanInv
<1>1. /\ api = Idle /\ engine.init /\ engine.started /\ api' = AllWorkers("stop", "stop") /\ list' = list
      /\ engine' = [engine EXCEPT !.started = (list # <<>>)]
      /\ UNCHANGED <<stream, hw, worker, list, crashed, wdVars>>
  BY Zenon DEF StopEngine
<1>2. engine' \in [init : BOOLEAN, started : BOOLEAN] /\ engine'.init /\ (engine'.started <=> list # <<>>)
  BY <1>1, EngineFlags, Zenon
<1>3. Detached = {} /\ Emptied = {} /\ Stopping = {} /\ api.op = "none"
  BY <1>1, IdleIs, Zenon
<1>4. \A w \in Workers : Alive(w) => w \in Range(list)
  BY OnlyListed, Zenon
<1>5. NothingLeft'
  BY <1>2, Zenon DEF NothingLeft
<1>6. CASE list = <<>>
  <2>1. api' = Idle
    BY <1>1, <1>6, Zenon DEF AllWorkers
  <2>2. /\ api' \in ApiTypes /\ PlaceInv' /\ HandledInv' /\ NoneConnected'
        /\ Detached' = {} /\ Emptied' = {} /\ Stopping' = {}
    BY <2>1, CallOver
  <2>3. /\ EngineTypes' /\ ServedInv' /\ ListInv' /\ ThreadInv' /\ WatchInv' /\ HwOfStreams'
        /\ \A w \in Workers : Alive(w)' <=> Alive(w)
    BY <1>1, <1>2, <1>3, <2>2, OnlyApi
  <2>4. StartedInv'
    <3>1. api'.op = "none"
      BY <2>1, IdleIs, Zenon
    <3>2. Range(list) = {}
      BY <1>6, EmptyList
    <3> QED
      BY <1>4, <2>3, <3>1, <3>2 DEF StartedInv
  <2> QED
    BY <1>5, <2>2, <2>3, <2>4, Zenon
<1>7. CASE list # <<>>
  <2>1. /\ api' \in ApiTypes /\ PlaceInv' /\ Detached' = {} /\ Emptied' = {} /\ Stopping' = {}
        /\ Pending' = Range(list) /\ api'.pc = "stop" /\ api'.op = "stop" /\ api'.w \in Range(list)
    BY <1>1, <1>7, Begins, Zenon DEF ListInv
  <2>2. /\ EngineTypes' /\ ServedInv' /\ ListInv' /\ ThreadInv' /\ WatchInv' /\ HwOfStreams'
        /\ \A w \in Workers : Alive(w)' <=> Alive(w)
    BY <1>1, <1>2, <1>3, <2>1, OnlyApi
  <2>4. StartedInv'
    BY <1>2, <1>4, <1>7, <2>1, <2>2 DEF StartedInv
  <2>5. HandledInv' /\ NoneConnected'
    BY <2>1 DEF HandledInv, NoneConnected
  <2> QED
    BY <1>5, <2>1, <2>2, <2>4, <2>5, Zenon
<1> QED
  BY <1>6, <1>7

\* cleanup() begins to stop the workers.
LEMMA CleanupKeeps ==
  ASSUME AInv, ~killed, "connected" \in Assume, Cleanup
  PROVE  AInv'
<1> USE DEF AInv, CleanInv
<1>1. /\ api = Idle /\ engine.init /\ list' = list /\ \A id \in Streams : ~stream[id].connected
      /\ api' = IF list = <<>> THEN [Idle EXCEPT !.pc = "next", !.op = "cleanup"] ELSE AllWorkers("stop", "cleanup")
      /\ engine' = engine /\ stream' = stream
      /\ UNCHANGED <<stream, hw, worker, list, crashed, wdVars>>
  BY Zenon DEF Cleanup, Assumed
<1>2. engine' \in [init : BOOLEAN, started : BOOLEAN] /\ engine'.init
  BY <1>1 DEF EngineTypes
<1>3. Detached = {} /\ Emptied = {} /\ Stopping = {} /\ api.op = "none"
  BY <1>1, IdleIs, Zenon
<1>4. \A w \in Workers : Alive(w) => w \in Range(list)
  BY OnlyListed, Zenon
<1>5. NothingLeft'
  BY <1>2, Zenon DEF NothingLeft
<1>8. engine'.started \/ \A w \in Workers : ~Alive(w)
  BY <1>1, <1>3 DEF StartedInv
<1>9. NoneConnected'
  BY <1>1, Zenon DEF NoneConnected, Streams
<1>6. CASE list = <<>>
  <2>1. api' = [pc |-> "next", op |-> "cleanup", id |-> 0, w |-> 0, todo |-> <<>>]
    BY <1>1, <1>6 DEF Idle
  <2>2. api' \in ApiTypes
    <3>1. <<>> \in Seq(Workers) /\ "next" \in Places /\ "cleanup" \in Operations
      BY SMT DEF Places, Operations
    <3> QED
      BY <2>1, <3>1 DEF ApiTypes
  <2>5. Range(<<>>) = {} /\ IsInjective(<<>>)
    BY EmptyList
  <2>3. PlaceInv' /\ HandledInv' /\ Detached' = {} /\ Emptied' = {} /\ Stopping' = {}
    BY <2>1, <2>5 DEF PlaceInv, HandledInv, Detached, Emptied, Stopping, Removing
  <2>4. /\ EngineTypes' /\ ServedInv' /\ ListInv' /\ ThreadInv' /\ WatchInv' /\ HwOfStreams'
        /\ \A w \in Workers : Alive(w)' <=> Alive(w)
    BY <1>1, <1>2, <1>3, <2>2, <2>3, OnlyApi
  <2>6. StartedInv'
    BY <1>4, <1>6, <1>8, <2>1, <2>4, <2>5 DEF StartedInv
  <2> QED
    BY <1>5, <1>9, <2>3, <2>4, <2>6, Zenon
<1>7. CASE list # <<>>
  <2>1. /\ api' \in ApiTypes /\ PlaceInv' /\ Detached' = {} /\ Emptied' = {} /\ Stopping' = {}
        /\ Pending' = Range(list) /\ api'.pc = "stop" /\ api'.op = "cleanup" /\ api'.w \in Range(list)
    BY <1>1, <1>7, Begins, Zenon DEF ListInv
  <2>2. /\ EngineTypes' /\ ServedInv' /\ ListInv' /\ ThreadInv' /\ WatchInv' /\ HwOfStreams'
        /\ \A w \in Workers : Alive(w)' <=> Alive(w)
    BY <1>1, <1>2, <1>3, <2>1, OnlyApi
  <2>4. StartedInv'
    BY <1>4, <1>8, <2>1, <2>2 DEF StartedInv
  <2>5. HandledInv'
    BY <2>1 DEF HandledInv
  <2> QED
    BY <1>5, <1>9, <2>1, <2>2, <2>4, <2>5, Zenon
<1> QED
  BY <1>6, <1>7

\* init() of the engine.
LEMMA InitEngineKeeps ==
  ASSUME AInv, ~killed, InitEngine
  PROVE  AInv'
<1> USE DEF AInv, CleanInv
<1>1. /\ api = Idle /\ api' = api /\ engine' = [engine EXCEPT !.init = TRUE]
      /\ UNCHANGED <<stream, hw, worker, list, crashed, wdVars>>
  BY Zenon DEF InitEngine
<1>2. engine' \in [init : BOOLEAN, started : BOOLEAN] /\ engine'.init /\ engine'.started = engine.started
  BY <1>1, Zenon DEF EngineTypes
<1>3. Detached = {} /\ Emptied = {} /\ Stopping = {} /\ api.op = "none"
  BY <1>1, IdleIs, Zenon
<1>4. /\ api' \in ApiTypes /\ PlaceInv' /\ HandledInv' /\ NoneConnected'
      /\ Detached' = {} /\ Emptied' = {} /\ Stopping' = {}
  BY <1>1, CallOver
<1>5. /\ EngineTypes' /\ ServedInv' /\ ListInv' /\ ThreadInv' /\ WatchInv' /\ HwOfStreams'
      /\ \A w \in Workers : Alive(w)' <=> Alive(w)
  BY <1>1, <1>2, <1>3, <1>4, OnlyApi
<1>6. StartedInv'
  BY <1>1, <1>2, <1>3, <1>5 DEF StartedInv
<1>7. NothingLeft'
  BY <1>2, Zenon DEF NothingLeft
<1> QED
  BY <1>4, <1>5, <1>6, <1>7, Zenon

----------------------------------------------------------------------------
(* The call changes its worker                                             *)

\* The call changes its worker, which keeps its streams; they may be told whether it is active.
LEMMA CallChangesWorker ==
  ASSUME AInv, ~killed, NEW w \in Range(list), NEW r \in WorkerTypes, worker' = [worker EXCEPT ![w] = r],
         r.streams = worker[w].streams, r.dom = worker[w].dom, r.period = worker[w].period,
         r.thread # "alive" => r.pc = "top", r.thread = "alive" /\ ~r.keep => w \in Stopping',
         r.pc = "diagnose" => r.todo = r.streams, r.pc = "copy" => Range(r.todo) \subseteq Range(r.streams),
         \/ stream' = stream /\ (Kept(w) => (r.thread = "alive" /\ r.keep) \/ r.failed)
         \/ stream' = SetWorkerActive(w, FALSE)
         \/ stream' = SetWorkerActive(w, TRUE) /\ r.thread = "alive" /\ r.keep,
         UNCHANGED <<list, wdVars>>, crashed' = FALSE,
         hw' \in [Ids -> {"off", "on", "stopping", "gone"}],
         engine' \in [init : BOOLEAN, started : BOOLEAN], api' \in ApiTypes,
         Detached' = Detached, Emptied \subseteq Emptied', Stopping \subseteq Stopping' \cup {w}
  PROVE  /\ EngineTypes' /\ ServedInv' /\ ListInv' /\ ThreadInv' /\ WatchInv'
         /\ Streams' = Streams /\ \A id \in Ids : stream'[id].connected = stream[id].connected
         /\ worker'[w] = r /\ w \in Workers
         /\ \A v \in Workers : v # w => (Alive(v)' <=> Alive(v))
<1> USE DEF AInv
<1>0. /\ worker \in [Workers -> WorkerTypes] /\ list \in Seq(Workers) /\ w \in Workers
      /\ list' = list /\ UNCHANGED wdVars
  BY RangeIs DEF EngineTypes
<1>1. worker' \in [Workers -> WorkerTypes] /\ worker'[w] = r /\ \A v \in Workers : v # w => worker'[v] = worker[v]
  BY <1>0, Zenon
<1>2. WatchInv' /\ interfaces' = interfaces
  BY <1>0, WatchSteps, Zenon
<1>3. /\ stream' \in [Ids -> StreamTypes] /\ SameStreams /\ Streams' = Streams
      /\ \A id \in Ids : stream'[id].connected = stream[id].connected
      /\ \A v \in Workers : v # w => \A id \in Serving(v) : stream'[id] = stream[id]
  <2>1. CASE stream' = stream
    BY <2>1, Zenon DEF EngineTypes, SameStreams, Streams
  <2>2. CASE \E a \in BOOLEAN : stream' = SetWorkerActive(w, a)
    BY <1>0, <2>2, ActiveSet, Zenon
  <2> QED
    BY <2>1, <2>2, Zenon
<1>4. SameLists
  BY <1>1, Zenon DEF SameLists
<1>5. Unmoved
  BY <1>0, <1>1, <1>2, <1>3, <1>4, Zenon DEF Unmoved
<1>6. ServedInv' /\ ListInv'
  BY <1>5, UnmovedKeeps
<1>7. EngineTypes'
  BY <1>0, <1>1, <1>3, Zenon DEF EngineTypes
<1>8. ThreadInv'
  <2>1. ASSUME NEW v \in Workers, v # w PROVE ThreadOK(v)'
    <3>1. v \in Stopping => v \in Stopping'
      BY <2>1
    <3>2. \A id \in Serving(v) : stream'[id].active => stream[id].active
      BY <1>3, <2>1, Zenon
    <3>3. ThreadOK(v) /\ worker'[v] = worker[v]
      BY <1>1, <2>1, Zenon DEF ThreadInv
    <3> QED
      BY <3>1, <3>2, <3>3, ThreadKept
  <2>2. ThreadOK(w)'
    <3>1. Serving(w)' = Serving(w) /\ ThreadOK(w)
      BY <1>0, <1>1, Zenon DEF Serving, ThreadInv
    <3>2. ASSUME NEW id \in Serving(w), stream'[id].active PROVE Kept(w)'
      <4>1. CASE stream' = stream /\ (Kept(w) => (r.thread = "alive" /\ r.keep) \/ r.failed)
        BY <1>1, <3>1, <3>2, <4>1, Zenon DEF ThreadOK, Kept, Alive
      <4>2. CASE stream' = SetWorkerActive(w, FALSE)
        BY <1>0, <3>2, <4>2, ActiveSet, Zenon
      <4>3. CASE stream' = SetWorkerActive(w, TRUE) /\ r.thread = "alive" /\ r.keep
        BY <1>1, <4>3, Zenon DEF Kept, Alive
      <4> QED
        BY <4>1, <4>2, <4>3
    <3>3. (~Alive(w)' => worker'[w].pc = "top") /\ (Alive(w)' /\ ~worker'[w].keep => w \in Stopping')
      BY <1>1, Zenon DEF Alive
    <3>4. /\ worker'[w].pc = "diagnose" => worker'[w].todo = worker'[w].streams
          /\ worker'[w].pc = "copy" => Range(worker'[w].todo) \subseteq Serving(w)'
      BY <1>1, Zenon DEF Serving
    <3> QED
      BY <3>1, <3>2, <3>3, <3>4, Zenon DEF ThreadOK
  <2> QED
    BY <2>1, <2>2, Zenon DEF ThreadInv
<1>9. \A v \in Workers : v # w => (Alive(v)' <=> Alive(v))
  BY <1>1, Zenon DEF Alive
<1> QED
  BY <1>0, <1>1, <1>2, <1>3, <1>6, <1>7, <1>8, <1>9

\* While a call is under way the engine is initialised.
LEMMA InitialisedInCall ==
  ASSUME AInv, api.pc # "idle"
  PROVE  engine.init
BY IdleIs, Zenon DEF AInv, CleanInv, NothingLeft

\* The worker of the call as it is.
LEMMA TheWorker ==
  ASSUME AInv, api.pc \in {"add", "start", "create thread", "stop", "join", "delete"}
  PROVE  /\ api.w \in Range(list) /\ api.w \in Workers /\ worker[api.w] \in WorkerTypes /\ ThreadOK(api.w)
         /\ engine.init /\ crashed = FALSE /\ worker \in [Workers -> WorkerTypes]
<1>1. api.w \in Range(list) /\ api.w \in Workers
  BY CalledWorker DEF AInv
<1>2. worker \in [Workers -> WorkerTypes] /\ crashed = FALSE
  BY DEF AInv, EngineTypes
<1>3. engine.init
  BY InitialisedInCall
<1> QED
  BY <1>1, <1>2, <1>3, Zenon DEF AInv, ThreadInv

\* start() of a worker sets mKeepRunning.
LEMMA StartWorkerKeeps ==
  ASSUME AInv, ~killed, "restart" \in Assume, StartWorker
  PROVE  AInv'
<1>p. PICK w \in Workers : w = api.w
  BY TheWorker DEF StartWorker
<1> DEFINE o == worker[w]
           r == [o EXCEPT !.keep = TRUE]
<1>0. /\ w \in Range(list) /\ w \in Workers /\ o \in WorkerTypes /\ ThreadOK(w) /\ engine.init /\ crashed = FALSE
      /\ worker \in [Workers -> WorkerTypes] /\ api.pc = "start"
  BY <1>p, TheWorker DEF StartWorker
<1>1. /\ worker' = [worker EXCEPT ![w] = r] /\ api' = [api EXCEPT !.pc = "create thread"] /\ o.thread # "leaving"
      /\ engine' = engine /\ stream' = stream /\ hw' = hw /\ list' = list /\ UNCHANGED <<list, wdVars>> /\ crashed' = crashed
  BY <1>p, Zenon DEF StartWorker, Assumed
<1>2. /\ api' \in ApiTypes /\ api'.pc = "create thread" /\ api'.op = api.op /\ api'.id = api.id /\ api'.w = w
      /\ api'.todo = api.todo
  BY <1>p, <1>1, MovesTo DEF AInv, Places
<1>3. r \in WorkerTypes /\ r.streams = o.streams /\ r.dom = o.dom /\ r.period = o.period /\ r.thread = o.thread
      /\ r.pc = o.pc /\ r.failed = o.failed /\ r.keep = TRUE /\ r.todo = o.todo
  BY <1>0, Zenon DEF WorkerTypes
<1>4. o.thread \in {"none", "gone"} /\ ~Alive(w) /\ o.pc = "top"
  <2>1. o.thread \in {"none", "alive", "leaving", "gone"}
    BY <1>0, Zenon DEF WorkerTypes
  <2> QED
    BY <1>p, <1>0, <1>1, <2>1 DEF AInv, HandledInv, Alive, ThreadOK
<1>5. Detached' = Detached /\ Emptied = {} /\ Stopping = {} /\ Pending' = Pending
  BY <1>p, <1>0, <1>2 DEF Detached, Emptied, Stopping, Pending
<1>6. /\ hw' \in [Ids -> {"off", "on", "stopping", "gone"}] /\ engine' \in [init : BOOLEAN, started : BOOLEAN]
      /\ Kept(w) => o.failed
  BY <1>1, <1>4, Zenon DEF AInv, EngineTypes, Kept
<1> HIDE DEF r
<1>7. /\ EngineTypes' /\ ServedInv' /\ ListInv' /\ ThreadInv' /\ WatchInv'
      /\ Streams' = Streams /\ \A id \in Ids : stream'[id].connected = stream[id].connected
      /\ worker'[w] = r /\ \A v \in Workers : v # w => (Alive(v)' <=> Alive(v))
  <2>1. /\ r.thread # "alive" /\ r.pc = "top" /\ r.streams = worker[w].streams /\ r.dom = worker[w].dom
        /\ r.period = worker[w].period /\ worker' = [worker EXCEPT ![w] = r]
        /\ Kept(w) => r.failed
    BY <1>1, <1>3, <1>4, <1>6
  <2>2. Detached' = Detached /\ Emptied \subseteq Emptied' /\ Stopping \subseteq Stopping' \cup {w} /\ crashed' = FALSE
    BY <1>0, <1>1, <1>5
  <2> HIDE DEF o
  <2> QED
    <3>1. w \in Range(list) /\ r \in WorkerTypes /\ api' \in ApiTypes /\ UNCHANGED <<list, wdVars>>
      BY <1>0, <1>1, <1>2, <1>3
    <3>2. /\ r.thread = "alive" /\ ~r.keep => w \in Stopping'
          /\ r.pc = "diagnose" => r.todo = r.streams
          /\ r.pc = "copy" => Range(r.todo) \subseteq Range(r.streams)
          /\ r.thread # "alive" => r.pc = "top"
      BY <2>1
    <3>3. stream' = stream /\ (Kept(w) => (r.thread = "alive" /\ r.keep) \/ r.failed)
      BY <1>1, <2>1
    <3>4. hw' \in [Ids -> {"off", "on", "stopping", "gone"}] /\ engine' \in [init : BOOLEAN, started : BOOLEAN]
      BY <1>6
    <3> QED
      BY <2>1, <2>2, <3>1, <3>2, <3>3, <3>4, CallChangesWorker
<1>8. \A v \in Workers : Alive(v)' <=> Alive(v)
  <2>1. Alive(w)' <=> Alive(w)
    BY <1>3, <1>7, Zenon DEF Alive
  <2> QED
    BY <1>7, <2>1
<1>9. StartedInv'
  <2>1. Pending \subseteq Workers
    BY PendingWorkers DEF AInv
  <2> QED
    BY <1>1, <1>2, <1>5, <1>8, <2>1 DEF AInv, StartedInv
<1>10. PlaceInv'
  <2>1. /\ api.op = "start" \/ (api.op = "create" /\ api.todo = <<>> /\ engine.started /\ api.id \in Streams)
        /\ Range(api.todo) \subseteq Range(list) /\ IsInjective(api.todo) /\ w \notin Range(api.todo)
    BY <1>p, <1>0 DEF AInv, PlaceInv
  <2>2. list' = list /\ engine' = engine /\ Streams' = Streams /\ w \in Range(list)
    BY <1>0, <1>1, <1>7
  <2> QED
    BY <1>2, <2>1, <2>2 DEF PlaceInv
<1>11. HandledInv'
  BY <1>2, <1>3, <1>4, <1>7 DEF HandledInv, Alive
<1>12. NoneConnected' /\ NothingLeft' /\ HwOfStreams'
  <2>1. api.op \notin {"cleanup", "purge"}
    BY <1>0 DEF AInv, PlaceInv
  <2> QED
    BY <1>0, <1>1, <1>2, <1>7, <2>1, Zenon DEF AInv, CleanInv, NoneConnected, NothingLeft, HwOfStreams
<1> QED
  BY <1>7, <1>9, <1>10, <1>11, <1>12, Zenon DEF AInv, CleanInv

\* The engine's flags after the last worker of start() and stop().
LEMMA EngineAfter ==
  ASSUME EngineTypes
  PROVE  /\ engine' = Started => /\ engine' \in [init : BOOLEAN, started : BOOLEAN] /\ engine'.init = engine.init
                                 /\ engine'.started = (engine.started \/ (api.op = "start" /\ api.todo = <<>>))
         /\ engine' = Stopped => /\ engine' \in [init : BOOLEAN, started : BOOLEAN] /\ engine'.init = engine.init
                                 /\ engine'.started <=> (engine.started /\ ~(api.op = "stop" /\ api.todo = <<>>))
<1>1. engine \in [init : BOOLEAN, started : BOOLEAN] /\ engine.started \in BOOLEAN
  BY Zenon DEF EngineTypes
<1>2. ASSUME engine' = Started
      PROVE  /\ engine' \in [init : BOOLEAN, started : BOOLEAN] /\ engine'.init = engine.init
             /\ engine'.started = (engine.started \/ (api.op = "start" /\ api.todo = <<>>))
  <2>1. CASE api.op = "start" /\ api.todo = <<>>
    <3>1. engine' = [engine EXCEPT !.started = TRUE]
      BY <1>2, <2>1, Zenon DEF Started
    <3> QED
      BY <1>1, <2>1, <3>1, EngineFlags, Zenon
  <2>2. CASE ~(api.op = "start" /\ api.todo = <<>>)
    BY <1>1, <1>2, <2>2, Zenon DEF Started
  <2> QED
    BY <2>1, <2>2, Zenon
<1>3. ASSUME engine' = Stopped
      PROVE  /\ engine' \in [init : BOOLEAN, started : BOOLEAN] /\ engine'.init = engine.init
             /\ engine'.started <=> (engine.started /\ ~(api.op = "stop" /\ api.todo = <<>>))
  <2>1. CASE api.op = "stop" /\ api.todo = <<>>
    <3>1. engine' = [engine EXCEPT !.started = FALSE]
      BY <1>3, <2>1, Zenon DEF Stopped
    <3> QED
      BY <1>1, <2>1, <3>1, EngineFlags, Zenon
  <2>2. CASE ~(api.op = "stop" /\ api.todo = <<>>)
    BY <1>1, <1>3, <2>2, Zenon DEF Stopped
  <2> QED
    BY <2>1, <2>2, Zenon
<1> QED
  BY <1>2, <1>3, Zenon

\* A worker has been started, or could not be.
LEMMA StartGoesOn ==
  ASSUME AInv, NEW w \in Workers, w = api.w, api.pc = "create thread", engine' = Started, api' = NextWorker("start"),
         list' = list
  PROVE  /\ api' \in ApiTypes /\ engine' \in [init : BOOLEAN, started : BOOLEAN]
         /\ Detached' = Detached /\ Emptied = {} /\ Stopping = {}
         /\ PlaceInv' /\ NoneConnected' /\ NothingLeft'
         /\ (\A v \in Workers : v # w => (Alive(v)' <=> Alive(v))) => StartedInv' /\ HandledInv'
<1> USE DEF AInv, CleanInv
<1>1. /\ api.op = "start" \/ (api.op = "create" /\ api.todo = <<>> /\ engine.started)
      /\ w \notin Range(api.todo) /\ Range(api.todo) \subseteq Range(list) /\ Range(list) \subseteq Workers
  BY CalledWorker DEF PlaceInv
<1>2. /\ engine' \in [init : BOOLEAN, started : BOOLEAN] /\ engine'.init
      /\ engine'.started = (engine.started \/ (api.op = "start" /\ api.todo = <<>>))
  BY EngineAfter, InitialisedInCall
<1>3. NothingLeft'
  BY <1>2, Zenon DEF NothingLeft
<1>4. Detached = {} /\ Emptied = {} /\ Stopping = {}
  BY <1>1 DEF Detached, Emptied, Stopping, Removing
<1>5. CASE api.todo = <<>>
  <2>1. api' = Idle
    BY <1>5, Zenon DEF NextWorker
  <2>2. api' \in ApiTypes /\ PlaceInv' /\ HandledInv' /\ NoneConnected' /\ Detached' = {}
    BY <2>1, CallOver
  <2>3. engine'.started
    BY <1>1, <1>2, <1>5, Zenon
  <2>4. StartedInv'
    <3>1. api'.op = "none"
      BY <2>1, IdleIs, Zenon
    <3> QED
      BY <2>3, <3>1 DEF StartedInv
  <2> QED
    BY <1>2, <1>3, <1>4, <2>2, <2>4, Zenon
<1>6. CASE api.todo # <<>>
  <2>1. api.op = "start"
    BY <1>1, <1>6
  <2>2. /\ api' \in ApiTypes /\ PlaceInv' /\ Detached' = {} /\ Pending' = Range(api.todo)
        /\ api'.pc = "start" /\ api'.op = "start" /\ api'.w \in Range(api.todo)
    BY <1>6, <2>1, GoesOn
  <2>3. ~engine'.started /\ \A v \in Range(api.todo) : v \in Workers /\ v # w /\ ~Alive(v)
    <3>1. ~engine.started /\ \A v \in Pending : ~Alive(v)
      BY <2>1, Zenon DEF StartedInv
    <3>2. Range(api.todo) \subseteq Pending
      BY DEF Pending
    <3> QED
      BY <1>1, <1>2, <1>6, <3>1, <3>2, Zenon
  <2>4. NoneConnected'
    BY <2>2 DEF NoneConnected
  <2>5. ASSUME \A v \in Workers : v # w => (Alive(v)' <=> Alive(v))
        PROVE  StartedInv' /\ HandledInv'
    <3>1. \A v \in Range(api.todo) : ~Alive(v)'
      BY <2>3, <2>5, Zenon
    <3>2. StartedInv'
      BY <2>2, <2>3, <3>1 DEF StartedInv
    <3>3. HandledInv'
      <4>1. ~Alive(api.w)'
        BY <2>2, <3>1, Zenon DEF Alive
      <4> QED
        BY <2>2, <4>1 DEF HandledInv
    <3> QED
      BY <3>2, <3>3
  <2> QED
    BY <1>2, <1>3, <1>4, <2>2, <2>4, <2>5, Zenon
<1> QED
  BY <1>5, <1>6

\* IasThread::start() creates the thread.
LEMMA ThreadStartsKeeps ==
  ASSUME AInv, ~killed, ThreadStarts
  PROVE  AInv'
<1>p. PICK w \in Workers : w = api.w
  BY TheWorker DEF ThreadStarts
<1> DEFINE o == worker[w]
           r == [o EXCEPT !.thread = "alive", !.pc = "top", !.first = TRUE, !.failed = FALSE]
<1>0. /\ w \in Range(list) /\ o \in WorkerTypes /\ crashed = FALSE /\ worker \in [Workers -> WorkerTypes]
      /\ api.pc = "create thread"
  BY <1>p, TheWorker DEF ThreadStarts
<1>1. /\ worker' = [worker EXCEPT ![w] = r] /\ api' = NextWorker("start") /\ engine' = Started
      /\ stream' = SetWorkerActive(w, TRUE) /\ list' = list /\ UNCHANGED <<list, wdVars>> /\ crashed' = crashed
      /\ IF api.op = "create" THEN Created(api.id) ELSE hw' = hw
  BY <1>p, Zenon DEF ThreadStarts
<1>2. /\ api' \in ApiTypes /\ engine' \in [init : BOOLEAN, started : BOOLEAN]
      /\ Detached' = Detached /\ Emptied = {} /\ Stopping = {}
      /\ PlaceInv' /\ NoneConnected' /\ NothingLeft'
      /\ (\A v \in Workers : v # w => (Alive(v)' <=> Alive(v))) => StartedInv' /\ HandledInv'
  BY <1>p, <1>0, <1>1, StartGoesOn
<1>3. /\ r \in WorkerTypes /\ r.streams = o.streams /\ r.dom = o.dom /\ r.period = o.period /\ r.thread = "alive"
      /\ r.pc = "top" /\ r.keep = o.keep
  BY <1>0, Zenon DEF WorkerTypes
<1>4. o.keep
  BY <1>p, <1>0, Zenon DEF AInv, HandledInv
<1>5. Streams' = Streams
  BY <1>0, <1>1, ActiveSet, Zenon DEF AInv
<1>6. hw' \in [Ids -> {"off", "on", "stopping", "gone"}] /\ HwOfStreams'
  <2>1. CASE api.op = "create"
    <3>1. api.id \in Streams /\ Created(api.id)
      BY <1>0, <1>1, <2>1 DEF AInv, PlaceInv
    <3> QED
      BY <1>5, <3>1, HwStartedKeeps, Zenon DEF AInv, CleanInv
  <2>2. CASE api.op # "create"
    <3>1. hw' = hw
      BY <1>1, <2>2
    <3> QED
      BY <1>5, <3>1, Zenon DEF AInv, CleanInv, HwOfStreams, EngineTypes
  <2> QED
    BY <2>1, <2>2
<1> HIDE DEF r
<1>7. /\ EngineTypes' /\ ServedInv' /\ ListInv' /\ ThreadInv' /\ WatchInv'
      /\ \A v \in Workers : v # w => (Alive(v)' <=> Alive(v))
  <2>1. /\ worker' = [worker EXCEPT ![w] = r] /\ r.streams = worker[w].streams /\ r.dom = worker[w].dom
        /\ r.period = worker[w].period
    BY <1>1, <1>3
  <2>2. Detached' = Detached /\ Emptied \subseteq Emptied' /\ Stopping \subseteq Stopping' \cup {w} /\ crashed' = FALSE
    BY <1>0, <1>1, <1>2
  <2>3. r.keep /\ stream' = SetWorkerActive(w, TRUE) /\ r.thread = "alive"
    BY <1>1, <1>3, <1>4, Zenon
  <2> HIDE DEF o
  <2>4. w \in Range(list) /\ r \in WorkerTypes /\ api' \in ApiTypes /\ UNCHANGED <<list, wdVars>>
    BY <1>0, <1>1, <1>2, <1>3
  <2>5. /\ r.thread = "alive" /\ ~r.keep => w \in Stopping'
        /\ r.pc = "diagnose" => r.todo = r.streams
        /\ r.pc = "copy" => Range(r.todo) \subseteq Range(r.streams)
        /\ r.thread # "alive" => r.pc = "top"
    BY <1>3, <2>3
  <2>6. hw' \in [Ids -> {"off", "on", "stopping", "gone"}] /\ engine' \in [init : BOOLEAN, started : BOOLEAN]
    BY <1>2, <1>6
  <2> QED
    BY <2>1, <2>2, <2>3, <2>4, <2>5, <2>6, CallChangesWorker
<1> QED
  BY <1>2, <1>6, <1>7, Zenon DEF AInv, CleanInv

\* No thread can be created, and the engine's start() goes on.
LEMMA ThreadFailsKeeps ==
  ASSUME AInv, ~killed, "start" \in Assume, ThreadFails
  PROVE  AInv'
<1>p. PICK w \in Workers : w = api.w
  BY TheWorker DEF ThreadFails
<1> DEFINE o == worker[w]
           r == [o EXCEPT !.thread = "none"]
<1>0. /\ w \in Range(list) /\ o \in WorkerTypes /\ crashed = FALSE /\ worker \in [Workers -> WorkerTypes]
      /\ api.pc = "create thread" /\ ThreadOK(w)
  BY <1>p, TheWorker DEF ThreadFails
<1>1. /\ worker' = [worker EXCEPT ![w] = r] /\ api' = NextWorker("start") /\ engine' = Started /\ api.op = "start"
      /\ list' = list /\ UNCHANGED <<list, wdVars>> /\ hw' = hw /\ o.thread \in {"none", "gone"}
      /\ stream' = IF api.op = "create" THEN [stream EXCEPT ![api.id] = NoStream] ELSE stream
      /\ crashed' = (api.op = "create" /\ stream[api.id].kind = "hw")
  BY <1>p, Zenon DEF ThreadFails, Assumed
<1>2. /\ api' \in ApiTypes /\ engine' \in [init : BOOLEAN, started : BOOLEAN]
      /\ Detached' = Detached /\ Emptied = {} /\ Stopping = {}
      /\ PlaceInv' /\ NoneConnected' /\ NothingLeft'
      /\ (\A v \in Workers : v # w => (Alive(v)' <=> Alive(v))) => StartedInv' /\ HandledInv'
  BY <1>p, <1>0, <1>1, StartGoesOn
<1>3. /\ r \in WorkerTypes /\ r.streams = o.streams /\ r.dom = o.dom /\ r.period = o.period /\ r.thread = "none"
      /\ r.pc = o.pc /\ r.failed = o.failed
  BY <1>0, Zenon DEF WorkerTypes
<1>4. ~Alive(w) /\ o.pc = "top"
  BY <1>0, <1>1 DEF Alive, ThreadOK
<1>5. stream' = stream /\ crashed' = FALSE
  BY <1>1
<1>6. hw' \in [Ids -> {"off", "on", "stopping", "gone"}] /\ HwOfStreams'
  BY <1>1, <1>5, Zenon DEF AInv, CleanInv, HwOfStreams, EngineTypes, Streams
<1>8. Kept(w) => o.failed
  BY <1>4, Zenon DEF Kept
<1> HIDE DEF r
<1>7. /\ EngineTypes' /\ ServedInv' /\ ListInv' /\ ThreadInv' /\ WatchInv'
      /\ \A v \in Workers : v # w => (Alive(v)' <=> Alive(v))
  <2>1. /\ worker' = [worker EXCEPT ![w] = r] /\ r.streams = worker[w].streams /\ r.dom = worker[w].dom
        /\ r.period = worker[w].period
    BY <1>1, <1>3
  <2>2. Detached' = Detached /\ Emptied \subseteq Emptied' /\ Stopping \subseteq Stopping' \cup {w} /\ crashed' = FALSE
    BY <1>2, <1>5
  <2>3. stream' = stream /\ (Kept(w) => (r.thread = "alive" /\ r.keep) \/ r.failed)
    BY <1>3, <1>5, <1>8, Zenon
  <2>5. /\ r.thread = "alive" /\ ~r.keep => w \in Stopping'
        /\ r.pc = "diagnose" => r.todo = r.streams
        /\ r.pc = "copy" => Range(r.todo) \subseteq Range(r.streams)
        /\ r.thread # "alive" => r.pc = "top"
    BY <1>3, <1>4
  <2> HIDE DEF o
  <2>4. w \in Range(list) /\ r \in WorkerTypes /\ api' \in ApiTypes /\ UNCHANGED <<list, wdVars>>
    BY <1>0, <1>1, <1>2, <1>3
  <2>6. hw' \in [Ids -> {"off", "on", "stopping", "gone"}] /\ engine' \in [init : BOOLEAN, started : BOOLEAN]
    BY <1>2, <1>6
  <2> QED
    BY <2>1, <2>2, <2>3, <2>4, <2>5, <2>6, CallChangesWorker
<1> QED
  BY <1>2, <1>6, <1>7, Zenon DEF AInv, CleanInv

\* A worker has stopped: stop() and cleanup() go on, a worker without streams is deleted.
LEMMA StopGoesOn ==
  ASSUME AInv, NEW w \in Workers, w = api.w, api.pc \in {"stop", "join"}, engine' = Stopped, api' = AfterStop,
         list' = list
  PROVE  /\ api' \in ApiTypes /\ engine' \in [init : BOOLEAN, started : BOOLEAN]
         /\ Detached' = Detached /\ Emptied \subseteq Emptied' /\ Stopping \subseteq {w}
         /\ NothingLeft'
         /\ Streams' = Streams /\ (\A id \in Ids : stream'[id].connected = stream[id].connected) => NoneConnected'
         /\ Streams' = Streams /\ worker'[w].streams = worker[w].streams => PlaceInv'
         /\ ~Alive(w)' /\ (\A v \in Workers : v # w => (Alive(v)' <=> Alive(v))) => StartedInv' /\ HandledInv'
<1> USE DEF AInv, CleanInv
<1>1. /\ \/ api.op \in {"stop", "cleanup"}
         \/ api.op \in Removing /\ api.todo = <<>> /\ worker[w].streams = <<>> /\ api.id \in Streams
      /\ w \in Range(list) /\ w \notin Range(api.todo) /\ Range(api.todo) \subseteq Range(list) /\ Range(list) \subseteq Workers
  BY CalledWorker DEF PlaceInv
<1>2. /\ engine' \in [init : BOOLEAN, started : BOOLEAN] /\ engine'.init
      /\ engine'.started <=> (engine.started /\ ~(api.op = "stop" /\ api.todo = <<>>))
  BY EngineAfter, InitialisedInCall
<1>3. NothingLeft'
  BY <1>2, Zenon DEF NothingLeft
<1>4. Stopping \subseteq {w} /\ Pending = {w} \cup Range(api.todo)
  BY DEF Stopping, Pending
<1>n. ASSUME NEW op \in {"cleanup", "purge"}, api.op = op,
             Streams' = Streams, \A id \in Ids : stream'[id].connected = stream[id].connected
      PROVE  NoneConnected'
  <2>1. \A id \in Streams : ~stream[id].connected
    BY <1>n DEF NoneConnected
  <2> QED
    BY <1>n, <2>1, Zenon DEF NoneConnected, Streams
<1>5. CASE api.op \in {"stop", "cleanup"} /\ api.todo # <<>>
  <2>1. api' = NextWorker("stop")
    BY <1>5 DEF AfterStop
  <2>2. /\ api' \in ApiTypes /\ PlaceInv' /\ Detached = {} /\ Detached' = {} /\ Emptied = {} /\ Pending' = Range(api.todo)
        /\ api'.pc = "stop" /\ api'.op = api.op /\ api'.w \in Range(api.todo)
    BY <1>5, <2>1, GoesOn
  <2>3. engine'.started <=> engine.started
    BY <1>2, <1>5, Zenon
  <2>4. ASSUME ~Alive(w)', \A v \in Workers : v # w => (Alive(v)' <=> Alive(v))
        PROVE  StartedInv' /\ HandledInv'
    <3>1. \A v \in Workers : Alive(v) => v \in {w} \cup Range(api.todo)
      BY <1>4, <1>5, Zenon DEF StartedInv
    <3>2. \A v \in Workers : Alive(v)' => Alive(v) /\ v \in Range(api.todo)
      BY <2>4, <3>1
    <3>3. ~engine.started => \A v \in Workers : ~Alive(v)
      BY <1>5 DEF StartedInv
    <3>4. StartedInv'
      BY <1>5, <2>2, <2>3, <3>2, <3>3 DEF StartedInv
    <3>5. HandledInv'
      BY <2>2 DEF HandledInv
    <3> QED
      BY <3>4, <3>5
  <2>5. ASSUME Streams' = Streams, \A id \in Ids : stream'[id].connected = stream[id].connected
        PROVE  NoneConnected'
    BY <1>5, <1>n, <2>2, <2>5 DEF NoneConnected
  <2> QED
    BY <1>2, <1>3, <1>4, <2>2, <2>4, <2>5
<1>6. CASE api.op = "stop" /\ api.todo = <<>>
  <2>1. api' = Idle
    BY <1>6 DEF AfterStop, NextWorker
  <2>2. api' \in ApiTypes /\ PlaceInv' /\ HandledInv' /\ NoneConnected' /\ Detached' = {}
    BY <2>1, CallOver
  <2>3. Detached = {} /\ Emptied = {}
    BY <1>6 DEF Detached, Emptied, Removing
  <2>4. ASSUME ~Alive(w)', \A v \in Workers : v # w => (Alive(v)' <=> Alive(v))
        PROVE  StartedInv'
    <3>1. Range(api.todo) = {}
      BY <1>6, EmptyList
    <3>2. \A v \in Workers : Alive(v) => v = w
      BY <1>4, <1>6, <3>1 DEF StartedInv
    <3>3. \A v \in Workers : ~Alive(v)'
      BY <2>4, <3>2, Zenon
    <3>4. api'.op = "none"
      BY <2>1, IdleIs, Zenon
    <3> QED
      BY <3>3, <3>4 DEF StartedInv
  <2> QED
    BY <1>2, <1>3, <1>4, <2>2, <2>3, <2>4
<1>7. CASE api.op = "cleanup" /\ api.todo = <<>>
  <2>1. api' = [pc |-> "next", op |-> "cleanup", id |-> 0, w |-> 0, todo |-> <<>>]
    BY <1>7 DEF AfterStop, Idle
  <2>2. api' \in ApiTypes
    <3>1. <<>> \in Seq(Workers) /\ "next" \in Places /\ "cleanup" \in Operations
      BY SMT DEF Places, Operations
    <3> QED
      BY <2>1, <3>1 DEF ApiTypes
  <2>3. Range(<<>>) = {} /\ IsInjective(<<>>)
    BY EmptyList
  <2>4. PlaceInv' /\ HandledInv' /\ Detached' = {}
    <3> HIDE DEF AInv, CleanInv
    <3>1. api'.pc = "next" /\ api'.op = "cleanup" /\ api'.todo = <<>>
      BY <2>1
    <3>2. PlaceInv'
      BY <2>3, <3>1 DEF PlaceInv
    <3> QED
      BY <3>1, <3>2 DEF HandledInv, Detached, Removing
  <2>5. Detached = {} /\ Emptied = {}
    BY <1>7 DEF Detached, Emptied, Removing
  <2>6. ASSUME ~Alive(w)', \A v \in Workers : v # w => (Alive(v)' <=> Alive(v))
        PROVE  StartedInv'
    <3>2. \A v \in Workers : Alive(v) => v = w
      BY <1>4, <1>7, <2>3 DEF StartedInv
    <3>3. \A v \in Workers : ~Alive(v)'
      BY <2>6, <3>2, Zenon
    <3>4. api'.op = "cleanup"
      BY <2>1
    <3> QED
      BY <3>3, <3>4 DEF StartedInv
  <2>7. ASSUME Streams' = Streams, \A id \in Ids : stream'[id].connected = stream[id].connected
        PROVE  NoneConnected'
    BY <1>7, <1>n, <2>7
  <2> QED
    BY <1>2, <1>3, <1>4, <2>2, <2>4, <2>5, <2>6, <2>7
<1>8. CASE api.op \in Removing /\ api.todo = <<>> /\ worker[w].streams = <<>> /\ api.id \in Streams
  <2>1. api' = [api EXCEPT !.pc = "delete"]
    BY <1>8 DEF AfterStop, Removing
  <2>2. /\ api' \in ApiTypes /\ api'.pc = "delete" /\ api'.op = api.op /\ api'.id = api.id /\ api'.w = w
        /\ api'.todo = <<>>
    BY <1>8, <2>1, MovesTo DEF Places
  <2>3. Detached' = Detached /\ Emptied \subseteq Emptied'
    BY <1>8, <2>2 DEF Detached, Emptied
  <2>4. ASSUME ~Alive(w)', \A v \in Workers : v # w => (Alive(v)' <=> Alive(v))
        PROVE  StartedInv' /\ HandledInv'
    <3>1. \A v \in Workers : Alive(v)' => Alive(v)
      BY <2>4
    <3>2. api.op \notin {"start", "stop", "cleanup"} /\ (engine'.started <=> engine.started)
      BY <1>2, <1>8 DEF Removing
    <3>3. StartedInv'
      BY <2>2, <3>1, <3>2 DEF StartedInv
    <3>4. ~Alive(api.w)'
      BY <2>2, <2>4, Zenon DEF Alive
    <3> QED
      BY <2>2, <3>3, <3>4 DEF HandledInv
  <2>5. ASSUME Streams' = Streams, worker'[w].streams = worker[w].streams
        PROVE  PlaceInv'
    <3>1. Range(<<>>) = {} /\ IsInjective(<<>>)
      BY EmptyList
    <3> QED
      BY <1>1, <1>8, <2>2, <2>5, <3>1 DEF PlaceInv
  <2>6. ASSUME Streams' = Streams, \A id \in Ids : stream'[id].connected = stream[id].connected
        PROVE  NoneConnected'
    BY <1>8, <1>n, <2>2, <2>6 DEF NoneConnected, Removing
  <2> QED
    BY <1>2, <1>3, <1>4, <2>2, <2>3, <2>4, <2>5, <2>6
<1> QED
  BY <1>1, <1>5, <1>6, <1>7, <1>8

\* stop() of a worker whose thread runs: the streams become inactive, the thread is told to end.
LEMMA StopWorkerKeeps ==
  ASSUME AInv, ~killed, StopWorker
  PROVE  AInv'
<1>p. PICK w \in Workers : w = api.w
  BY TheWorker DEF StopWorker
<1> DEFINE o == worker[w]
           r == [o EXCEPT !.keep = FALSE]
<1>0. /\ w \in Range(list) /\ o \in WorkerTypes /\ crashed = FALSE /\ worker \in [Workers -> WorkerTypes]
      /\ api.pc = "stop" /\ ThreadOK(w) /\ engine.init
  BY <1>p, TheWorker DEF StopWorker
<1>1. /\ worker' = [worker EXCEPT ![w] = r] /\ api' = [api EXCEPT !.pc = "join"] /\ engine' = engine
      /\ stream' = SetWorkerActive(w, FALSE) /\ list' = list /\ UNCHANGED <<list, wdVars>> /\ crashed' = crashed
      /\ hw' = hw /\ o.thread = "alive"
  BY <1>p, Zenon DEF StopWorker, ShutDown
<1>2. /\ api' \in ApiTypes /\ api'.pc = "join" /\ api'.op = api.op /\ api'.id = api.id /\ api'.w = w
      /\ api'.todo = api.todo
  BY <1>p, <1>1, MovesTo DEF AInv, Places
<1>3. /\ r \in WorkerTypes /\ r.streams = o.streams /\ r.dom = o.dom /\ r.period = o.period /\ r.thread = o.thread
      /\ r.pc = o.pc /\ r.todo = o.todo /\ r.keep = FALSE
  BY <1>0, Zenon DEF WorkerTypes
<1>4. Detached' = Detached /\ Emptied \subseteq Emptied' /\ Stopping = {} /\ w \in Stopping' /\ Pending' = Pending
  BY <1>p, <1>0, <1>2 DEF Detached, Emptied, Stopping, Pending
<1>5. /\ Streams' = Streams
      /\ hw' \in [Ids -> {"off", "on", "stopping", "gone"}] /\ engine' \in [init : BOOLEAN, started : BOOLEAN]
  BY <1>0, <1>1, ActiveSet, Zenon DEF AInv, EngineTypes
<1> HIDE DEF r
<1>7. /\ EngineTypes' /\ ServedInv' /\ ListInv' /\ ThreadInv' /\ WatchInv' /\ worker'[w] = r
      /\ \A id \in Ids : stream'[id].connected = stream[id].connected
      /\ \A v \in Workers : v # w => (Alive(v)' <=> Alive(v))
  <2>1. /\ worker' = [worker EXCEPT ![w] = r] /\ r.streams = worker[w].streams /\ r.dom = worker[w].dom
        /\ r.period = worker[w].period
    BY <1>1, <1>3
  <2>2. Detached' = Detached /\ Emptied \subseteq Emptied' /\ Stopping \subseteq Stopping' \cup {w} /\ crashed' = FALSE
    BY <1>0, <1>1, <1>4
  <2>3. stream' = SetWorkerActive(w, FALSE)
    BY <1>1
  <2>5. /\ r.thread = "alive" /\ ~r.keep => w \in Stopping'
        /\ r.pc = "diagnose" => r.todo = r.streams
        /\ r.pc = "copy" => Range(r.todo) \subseteq Range(r.streams)
        /\ r.thread # "alive" => r.pc = "top"
    <3>1. /\ o.pc = "diagnose" => o.todo = o.streams
          /\ o.pc = "copy" => Range(o.todo) \subseteq Range(o.streams)
      BY <1>0, Zenon DEF ThreadOK, Serving
    <3> QED
      BY <1>1, <1>3, <1>4, <3>1
  <2> HIDE DEF o
  <2>4. w \in Range(list) /\ r \in WorkerTypes /\ api' \in ApiTypes /\ UNCHANGED <<list, wdVars>>
    BY <1>0, <1>1, <1>2, <1>3
  <2>6. hw' \in [Ids -> {"off", "on", "stopping", "gone"}] /\ engine' \in [init : BOOLEAN, started : BOOLEAN]
    BY <1>5
  <2> QED
    BY <2>1, <2>2, <2>3, <2>4, <2>5, <2>6, CallChangesWorker
<1>8. \A v \in Workers : Alive(v)' <=> Alive(v)
  <2>1. Alive(w)' <=> Alive(w)
    BY <1>3, <1>7, Zenon DEF Alive
  <2> QED
    BY <1>7, <2>1
<1>9. StartedInv'
  <2>1. Pending \subseteq Workers
    BY PendingWorkers DEF AInv
  <2> QED
    BY <1>1, <1>2, <1>4, <1>8, <2>1 DEF AInv, StartedInv
<1>10. PlaceInv'
  <2>1. /\ \/ api.op \in {"stop", "cleanup"}
           \/ api.op \in Removing /\ api.todo = <<>> /\ worker[w].streams = <<>> /\ api.id \in Streams
        /\ Range(api.todo) \subseteq Range(list) /\ IsInjective(api.todo) /\ w \notin Range(api.todo)
    BY <1>p, <1>0 DEF AInv, PlaceInv
  <2>2. list' = list /\ Streams' = Streams /\ w \in Range(list) /\ worker'[w].streams = worker[w].streams
    BY <1>0, <1>1, <1>3, <1>5, <1>7
  <2> QED
    BY <1>2, <2>1, <2>2 DEF PlaceInv
<1>11. HandledInv'
  BY <1>2, <1>3, <1>7 DEF HandledInv
<1>12. NoneConnected' /\ NothingLeft' /\ HwOfStreams'
  BY <1>0, <1>1, <1>2, <1>5, <1>7, Zenon DEF AInv, CleanInv, NoneConnected, NothingLeft, HwOfStreams, Streams
<1> QED
  BY <1>7, <1>9, <1>10, <1>11, <1>12, Zenon DEF AInv, CleanInv

\* stop() of a worker whose thread does not run.
LEMMA StopIdleWorkerKeeps ==
  ASSUME AInv, ~killed, StopIdleWorker
  PROVE  AInv'
<1>p. PICK w \in Workers : w = api.w
  BY TheWorker DEF StopIdleWorker
<1> DEFINE o == worker[w]
<1>0. /\ w \in Range(list) /\ o \in WorkerTypes /\ crashed = FALSE /\ worker \in [Workers -> WorkerTypes]
      /\ api.pc = "stop" /\ ThreadOK(w)
  BY <1>p, TheWorker DEF StopIdleWorker
<1>1. /\ worker' = worker /\ api' = AfterStop /\ engine' = Stopped
      /\ stream' = SetWorkerActive(w, FALSE) /\ list' = list /\ UNCHANGED <<list, wdVars>> /\ crashed' = crashed
      /\ hw' = hw /\ o.thread # "alive"
  BY <1>p, Zenon DEF StopIdleWorker
<1>2. /\ api' \in ApiTypes /\ engine' \in [init : BOOLEAN, started : BOOLEAN]
      /\ Detached' = Detached /\ Emptied \subseteq Emptied' /\ Stopping \subseteq {w}
      /\ NothingLeft'
      /\ Streams' = Streams /\ (\A id \in Ids : stream'[id].connected = stream[id].connected) => NoneConnected'
      /\ Streams' = Streams /\ worker'[w].streams = worker[w].streams => PlaceInv'
      /\ ~Alive(w)' /\ (\A v \in Workers : v # w => (Alive(v)' <=> Alive(v))) => StartedInv' /\ HandledInv'
  BY <1>p, <1>0, <1>1, StopGoesOn
<1>3. worker' = [worker EXCEPT ![w] = o]
  BY <1>0, <1>1, Zenon
<1>4. ~Alive(w)'
  BY <1>1, Zenon DEF Alive
<1>5. /\ Streams' = Streams
      /\ hw' \in [Ids -> {"off", "on", "stopping", "gone"}]
  BY <1>0, <1>1, ActiveSet, Zenon DEF AInv, EngineTypes
<1>7. /\ EngineTypes' /\ ServedInv' /\ ListInv' /\ ThreadInv' /\ WatchInv'
      /\ \A id \in Ids : stream'[id].connected = stream[id].connected
      /\ \A v \in Workers : v # w => (Alive(v)' <=> Alive(v))
  <2>1. /\ o.streams = worker[w].streams /\ o.dom = worker[w].dom /\ o.period = worker[w].period
    OBVIOUS
  <2>2. Stopping \subseteq Stopping' \cup {w} /\ crashed' = FALSE
    BY <1>0, <1>1, <1>2
  <2>3. stream' = SetWorkerActive(w, FALSE)
    BY <1>1
  <2>5. /\ o.thread = "alive" /\ ~o.keep => w \in Stopping'
        /\ o.pc = "diagnose" => o.todo = o.streams
        /\ o.pc = "copy" => Range(o.todo) \subseteq Range(o.streams)
        /\ o.thread # "alive" => o.pc = "top"
    BY <1>0, <1>1, Zenon DEF ThreadOK, Serving, Alive
  <2> HIDE DEF o
  <2>4. w \in Range(list) /\ o \in WorkerTypes /\ UNCHANGED <<list, wdVars>>
    BY <1>0, <1>1
  <2> QED
    BY <1>2, <1>3, <1>5, <2>1, <2>2, <2>3, <2>4, <2>5, CallChangesWorker
<1>8. StartedInv' /\ HandledInv' /\ PlaceInv' /\ NoneConnected'
  BY <1>1, <1>2, <1>4, <1>5, <1>7, Zenon
<1>9. HwOfStreams'
  BY <1>1, <1>5, Zenon DEF AInv, CleanInv, HwOfStreams
<1> QED
  BY <1>2, <1>7, <1>8, <1>9, Zenon DEF AInv, CleanInv

\* The thread of the worker is joined.
LEMMA JoinKeeps ==
  ASSUME AInv, ~killed, Join
  PROVE  AInv'
<1>p. PICK w \in Workers : w = api.w
  BY TheWorker DEF Join
<1> DEFINE o == worker[w]
           r == [o EXCEPT !.thread = "none"]
<1>0. /\ w \in Range(list) /\ o \in WorkerTypes /\ crashed = FALSE /\ worker \in [Workers -> WorkerTypes]
      /\ api.pc = "join" /\ ThreadOK(w)
  BY <1>p, TheWorker DEF Join
<1>1. /\ api' = AfterStop /\ engine' = Stopped
      /\ stream' = stream /\ list' = list /\ UNCHANGED <<list, wdVars>> /\ crashed' = crashed
      /\ hw' = hw /\ o.thread = "gone"
      /\ worker' = [worker EXCEPT ![w].thread = IF @ = "gone" THEN "none" ELSE @]
  BY <1>p, Zenon DEF Join, Joinable
<1>2. /\ api' \in ApiTypes /\ engine' \in [init : BOOLEAN, started : BOOLEAN]
      /\ Detached' = Detached /\ Emptied \subseteq Emptied' /\ Stopping \subseteq {w}
      /\ NothingLeft'
      /\ Streams' = Streams /\ (\A id \in Ids : stream'[id].connected = stream[id].connected) => NoneConnected'
      /\ Streams' = Streams /\ worker'[w].streams = worker[w].streams => PlaceInv'
      /\ ~Alive(w)' /\ (\A v \in Workers : v # w => (Alive(v)' <=> Alive(v))) => StartedInv' /\ HandledInv'
  BY <1>p, <1>0, <1>1, StopGoesOn
<1>3. worker' = [worker EXCEPT ![w] = r]
  BY <1>0, <1>1, Zenon
<1>4. /\ r \in WorkerTypes /\ r.streams = o.streams /\ r.dom = o.dom /\ r.period = o.period /\ r.thread = "none"
      /\ r.pc = o.pc /\ r.failed = o.failed
  BY <1>0, Zenon DEF WorkerTypes
<1>5. o.pc = "top" /\ (Kept(w) => o.failed)
  <2>1. ~Alive(w)
    BY <1>1 DEF Alive
  <2> QED
    BY <1>0, <2>1, Zenon DEF ThreadOK, Kept
<1>6. /\ Streams' = Streams /\ \A id \in Ids : stream'[id].connected = stream[id].connected
      /\ hw' \in [Ids -> {"off", "on", "stopping", "gone"}]
  BY <1>1, Zenon DEF AInv, EngineTypes, Streams
<1> HIDE DEF r
<1>7. /\ EngineTypes' /\ ServedInv' /\ ListInv' /\ ThreadInv' /\ WatchInv' /\ worker'[w] = r
      /\ \A v \in Workers : v # w => (Alive(v)' <=> Alive(v))
  <2>1. /\ r.streams = worker[w].streams /\ r.dom = worker[w].dom /\ r.period = worker[w].period
    BY <1>4
  <2>2. Stopping \subseteq Stopping' \cup {w} /\ crashed' = FALSE
    BY <1>0, <1>1, <1>2
  <2>3. stream' = stream /\ (Kept(w) => (r.thread = "alive" /\ r.keep) \/ r.failed)
    BY <1>1, <1>4, <1>5, Zenon
  <2>5. /\ r.thread = "alive" /\ ~r.keep => w \in Stopping'
        /\ r.pc = "diagnose" => r.todo = r.streams
        /\ r.pc = "copy" => Range(r.todo) \subseteq Range(r.streams)
        /\ r.thread # "alive" => r.pc = "top"
    BY <1>4, <1>5
  <2> HIDE DEF o
  <2>4. w \in Range(list) /\ r \in WorkerTypes /\ UNCHANGED <<list, wdVars>>
    BY <1>0, <1>1, <1>4
  <2> QED
    BY <1>2, <1>3, <1>6, <2>1, <2>2, <2>3, <2>4, <2>5, CallChangesWorker
<1>8. ~Alive(w)' /\ worker'[w].streams = worker[w].streams
  BY <1>4, <1>7, SMT DEF Alive
<1>9. StartedInv' /\ HandledInv' /\ PlaceInv' /\ NoneConnected'
  BY <1>2, <1>6, <1>7, <1>8, Zenon
<1>10. HwOfStreams'
  BY <1>1, <1>6, Zenon DEF AInv, CleanInv, HwOfStreams
<1> QED
  BY <1>2, <1>7, <1>9, <1>10, Zenon DEF AInv, CleanInv

----------------------------------------------------------------------------
(* Time, devices and connections                                           *)

\* Time, the watchdog thread, and steps that change nothing.
LEMMA TimeKeeps ==
  ASSUME AInv, UNCHANGED engineVars, (~killed /\ (NotifyTimedOut \/ Tick)) \/ UNCHANGED wdVars
  PROVE  AInv'
<1>1. /\ engine' = engine /\ stream' = stream /\ hw' = hw /\ worker' = worker /\ list' = list /\ api' = api
      /\ crashed' = crashed
  BY DEF engineVars
<1>2. WatchInv' /\ interfaces' = interfaces
  <2>1. CASE ~killed /\ (NotifyTimedOut \/ Tick)
    BY <2>1, WatchSteps, Zenon DEF AInv
  <2>2. CASE UNCHANGED wdVars
    BY <2>2, Zenon DEF wdVars, AInv, WatchInv, WatchdogTypeOK
  <2> QED
    BY <2>1, <2>2
<1>3. Detached' = Detached /\ Emptied' = Emptied /\ Stopping' = Stopping /\ Pending' = Pending /\ Streams' = Streams
  BY <1>1, Zenon DEF Detached, Emptied, Stopping, Pending, Streams
<1>4. Unmoved
  BY <1>1, <1>2, <1>3, Zenon DEF Unmoved, SameLists, SameStreams
<1>5. ServedInv' /\ ListInv'
  BY <1>4, UnmovedKeeps
<1>6. EngineTypes'
  BY <1>1, Zenon DEF AInv, EngineTypes
<1>7. ThreadInv'
  BY <1>1, <1>3, ThreadKept, Zenon DEF AInv, ThreadInv
<1>8. StartedInv' /\ HandledInv'
  BY <1>1, <1>3, Zenon DEF AInv, StartedInv, HandledInv, Alive
<1>9. PlaceInv'
  BY <1>1, <1>3, Zenon DEF AInv, PlaceInv, Matches, Serving
<1>10. CleanInv'
  BY <1>1, <1>3, Zenon DEF AInv, CleanInv, NoneConnected, NothingLeft, HwOfStreams
<1> QED
  BY <1>2, <1>5, <1>6, <1>7, <1>8, <1>9, <1>10, Zenon DEF AInv

\* The thread of a device handler ends, or its destructor tells it to.
LEMMA HwStepKeeps ==
  ASSUME AInv, ~killed, NEW id \in Ids, HwEnds(id) \/ (DropStopsHw /\ id = api.id)
  PROVE  AInv'
<1> USE DEF AInv, CleanInv
<1>1. /\ stream' = stream /\ worker' = worker /\ list' = list /\ engine' = engine /\ crashed' = crashed /\ UNCHANGED wdVars
      /\ hw[id] # "off"
      /\ hw' = [hw EXCEPT ![id] = "gone"] \/ hw' = [hw EXCEPT ![id] = "stopping"]
      /\ api' = api \/ (api.pc = "drop" /\ api' = [api EXCEPT !.pc = "drop join"])
  BY DEF HwEnds, DropStopsHw
<1>2. /\ api' \in ApiTypes /\ api'.op = api.op /\ api'.id = api.id /\ api'.w = api.w /\ api'.todo = api.todo
      /\ api' = api \/ (api.pc = "drop" /\ api'.pc = "drop join")
  <2>1. CASE api' = api
    BY <2>1 DEF EngineTypes
  <2>2. CASE api.pc = "drop" /\ api' = [api EXCEPT !.pc = "drop join"]
    BY <2>2, MovesTo DEF Places
  <2> QED
    BY <1>1, <2>1, <2>2
<1>3. Detached' = Detached /\ Emptied' = Emptied /\ Stopping' = Stopping /\ Pending' = Pending
  BY <1>2 DEF Detached, Emptied, Stopping, Pending
<1>4. WatchInv' /\ interfaces' = interfaces
  BY <1>1, WatchSteps, Zenon
<1>5. Unmoved
  BY <1>1, <1>3, <1>4, Zenon DEF Unmoved, SameLists, SameStreams
<1>6. ServedInv' /\ ListInv'
  BY <1>5, UnmovedKeeps
<1>7. hw' \in [Ids -> {"off", "on", "stopping", "gone"}] /\ \A i \in Ids : hw'[i] # "off" => hw[i] # "off"
  BY <1>1 DEF EngineTypes
<1>8. EngineTypes'
  BY <1>1, <1>2, <1>7, Zenon DEF EngineTypes
<1>9. ThreadInv'
  BY <1>1, <1>3, ThreadKept, Zenon DEF ThreadInv
<1>10. Streams' = Streams /\ \A w \in Workers : Alive(w)' <=> Alive(w)
  BY <1>1, Zenon DEF Streams, Alive
<1>11. HwOfStreams' /\ NoneConnected'
  BY <1>1, <1>2, <1>7, <1>10, Zenon DEF HwOfStreams, NoneConnected
<1>12. NothingLeft'
  <2>1. api' = api \/ engine.init
    BY <1>1, <1>2, InitialisedInCall
  <2> QED
    BY <1>1, <1>10, <2>1, Zenon DEF NothingLeft
<1>13. StartedInv'
  <2>1. Pending \subseteq Workers
    BY PendingWorkers
  <2> QED
    BY <1>1, <1>2, <1>3, <1>10, <2>1 DEF StartedInv
<1>14. PlaceInv' /\ HandledInv'
  <2>1. CASE api' = api
    BY <1>1, <1>10, <2>1, Zenon DEF PlaceInv, HandledInv, Matches, Serving, Alive
  <2>2. CASE api.pc = "drop" /\ api'.pc = "drop join"
    <3>1. /\ api.op \in Removing /\ api.id \in Streams
          /\ Range(api.todo) \subseteq Range(list) /\ IsInjective(api.todo) /\ api.w \notin Range(api.todo)
      BY <2>2 DEF PlaceInv
    <3>2. PlaceInv'
      BY <1>1, <1>2, <1>10, <2>2, <3>1 DEF PlaceInv
    <3> QED
      BY <2>2, <3>2 DEF HandledInv
  <2> QED
    BY <1>2, <2>1, <2>2
<1> QED
  BY <1>4, <1>6, <1>8, <1>9, <1>11, <1>12, <1>13, <1>14, Zenon

\* An AVB stream is connected or disconnected.
LEMMA SetConnectedKeeps ==
  ASSUME AInv, ~killed, NEW id \in Ids, NEW connected \in BOOLEAN, SetConnected(id, connected)
  PROVE  AInv'
<1> USE DEF AInv, CleanInv
<1>1. /\ worker' = worker /\ list' = list /\ engine' = engine /\ crashed' = crashed /\ UNCHANGED wdVars /\ hw' = hw
      /\ stream' = [stream EXCEPT ![id].connected = connected] /\ api' = api /\ api = Idle
  BY Zenon DEF SetConnected
<1>2. stream \in [Ids -> StreamTypes] /\ stream[id] \in StreamTypes
  BY Zenon DEF EngineTypes
<1>3. stream' = [stream EXCEPT ![id] = [stream[id] EXCEPT !.connected = connected]]
  BY <1>1, <1>2, Zenon
<1>4. /\ [stream[id] EXCEPT !.connected = connected] \in StreamTypes
      /\ [stream[id] EXCEPT !.connected = connected].kind = stream[id].kind
      /\ [stream[id] EXCEPT !.connected = connected].dom = stream[id].dom
      /\ [stream[id] EXCEPT !.connected = connected].period = stream[id].period
      /\ [stream[id] EXCEPT !.connected = connected].active = stream[id].active
  BY <1>2, Zenon DEF StreamTypes
<1>5. /\ stream' \in [Ids -> StreamTypes]
      /\ \A i \in Ids : /\ stream'[i].kind = stream[i].kind /\ stream'[i].dom = stream[i].dom
                        /\ stream'[i].period = stream[i].period /\ stream'[i].active = stream[i].active
  BY <1>2, <1>3, <1>4, Zenon
<1>6. SameStreams /\ Streams' = Streams
  BY <1>5, Zenon DEF SameStreams, Streams
<1>7. Detached' = Detached /\ Emptied' = Emptied /\ Stopping' = Stopping
  BY <1>1, Zenon DEF Detached, Emptied, Stopping
<1>8. WatchInv' /\ interfaces' = interfaces
  BY <1>1, WatchSteps, Zenon
<1>9. Unmoved
  BY <1>1, <1>6, <1>7, <1>8, Zenon DEF Unmoved, SameLists
<1>10. ServedInv' /\ ListInv'
  BY <1>9, UnmovedKeeps
<1>11. EngineTypes'
  BY <1>1, <1>5, Zenon DEF EngineTypes
<1>12. ThreadInv'
  <2>1. \A w \in Workers : Serving(w) \subseteq Ids
    BY RangeIs DEF EngineTypes, WorkerTypes, Serving
  <2> QED
    BY <1>1, <1>5, <1>7, <2>1, ThreadKept, Zenon DEF ThreadInv
<1>13. PlaceInv' /\ HandledInv' /\ NoneConnected'
  BY <1>1, CallOver
<1>14. StartedInv' /\ NothingLeft' /\ HwOfStreams'
  BY <1>1, <1>6, Zenon DEF StartedInv, NothingLeft, HwOfStreams, Alive, Pending
<1> QED
  BY <1>8, <1>10, <1>11, <1>12, <1>13, <1>14, Zenon


\* The worker destroyAlsaStream() finds.
LEMMA WorkerOfServes ==
  ASSUME ServedInv, NEW id \in Streams, id \notin Detached
  PROVE  WorkerOf(id) \in Workers /\ id \in Serving(WorkerOf(id))
<1>1. \E w \in Workers : id \in Range(worker[w].streams)
  BY Zenon DEF ServedInv, ServedByOne, Serving
<1> QED
  BY <1>1, Zenon DEF WorkerOf, Serving

\* The stream cleanup() destroys next is one of the engine's.
LEMMA NextIsStream ==
  ASSUME Streams # {}
  PROVE  NextToDestroy \in Streams
<1>1. Streams \in SUBSET Nat
  BY EngineConstants DEF Streams
<1>2. ASSUME NEW S \in SUBSET Nat, S # {} PROVE FirstOf(S) \in S
  <2>1. \E x \in S : \A y \in S : x <= y
    BY <1>2, LeastElement
  <2> QED
    BY <2>1, Zenon DEF FirstOf
<1> DEFINE V == {id \in Streams : stream[id].kind = "virtual"}
<1>3. V \in SUBSET Nat /\ V \subseteq Streams
  BY <1>1
<1>4. NextToDestroy = IF V # {} THEN FirstOf(V) ELSE FirstOf(Streams)
  BY Zenon DEF NextToDestroy
<1> HIDE DEF V
<1> QED
  BY <1>1, <1>2, <1>3, <1>4, Zenon

\* The record of a call with a stream and its worker.
LEMMA CallRecord ==
  ASSUME NEW pc \in Places, NEW op \in Operations, NEW id \in Ids, NEW v \in Workers, NEW r,
         r = [pc |-> pc, op |-> op, id |-> id, w |-> v, todo |-> <<>>]
  PROVE  r \in ApiTypes /\ r.pc = pc /\ r.op = op /\ r.id = id /\ r.w = v /\ r.todo = <<>>
<1>2. <<>> \in Seq(Workers) /\ id \in Ids \cup {0} /\ v \in Workers \cup {0}
  BY SMT
<1>1. r \in ApiTypes
  BY <1>2, SMT DEF ApiTypes
<1> QED
  BY <1>1

\* A stream is to be removed from its worker's list, by destroyAlsaStream() or by cleanup().
LEMMA DestroyKeeps ==
  ASSUME AInv, ~killed, NEW id \in Streams, NEW op \in Removing,
         (api = Idle /\ op = "destroy") \/ (api.pc = "next" /\ op = "purge"),
         engine.init, UNCHANGED <<engine, stream, hw, worker, list, crashed, wdVars>>,
         api' = [Idle EXCEPT !.pc = "remove", !.op = op, !.id = id, !.w = WorkerOf(id)]
  PROVE  AInv'
<1> USE DEF AInv, CleanInv
<1>1. (api.pc = "idle" /\ api.op = "none") \/ (api.pc = "next" /\ api.op = "cleanup")
  BY IdleIs DEF PlaceInv
<1>2. Detached = {} /\ Emptied = {} /\ Stopping = {} /\ Pending = {}
  BY <1>1 DEF Detached, Emptied, Stopping, Pending, Removing
<1>a. PICK v \in Workers : v = WorkerOf(id) /\ id \in Serving(v)
  BY <1>2, WorkerOfServes
<1>3. v \in Workers /\ id \in Serving(v) /\ id \in Ids
  BY <1>a DEF Streams
<1> DEFINE r == [pc |-> "remove", op |-> op, id |-> id, w |-> v, todo |-> <<>>]
<1>4. api' = r
  BY <1>a, Zenon DEF Idle
<1>5. r \in ApiTypes /\ r.pc = "remove" /\ r.op = op /\ r.id = id /\ r.w = v /\ r.todo = <<>>
  <2>1. "remove" \in Places /\ op \in Operations
    BY DEF Places, Operations, Removing
  <2> QED
    BY <1>3, <2>1, CallRecord
<1> HIDE DEF r
<1>6. api' \in ApiTypes /\ api'.pc = "remove" /\ api'.op = op /\ api'.id = id /\ api'.w = v /\ api'.todo = <<>>
  BY <1>4, <1>5, Zenon
<1>7. Detached' = {} /\ Emptied' = {} /\ Stopping' = {}
  BY <1>6 DEF Detached, Emptied, Stopping
<1>8. /\ EngineTypes' /\ ServedInv' /\ ListInv' /\ ThreadInv' /\ WatchInv' /\ HwOfStreams'
      /\ Streams' = Streams /\ \A w \in Workers : Alive(w)' <=> Alive(w)
  <2>1. engine' \in [init : BOOLEAN, started : BOOLEAN]
    BY DEF EngineTypes
  <2> QED
    BY <1>2, <1>6, <1>7, <2>1, OnlyApi
<1>9. PlaceInv'
  <2>1. Range(<<>>) = {} /\ IsInjective(<<>>)
    BY EmptyList
  <2>2. \A w \in Workers : Serving(w)' = Serving(w)
    BY Zenon DEF Serving
  <2>3. Serving(api.w)' = Serving(v)
    BY <1>6, Zenon DEF Serving
  <2>4. id \in Streams' /\ id \in Serving(api.w)' /\ api'.w \in Workers
    BY <1>3, <1>6, <1>8, <2>2, <2>3, Zenon
  <2>5. Range(api'.todo) = {} /\ IsInjective(api'.todo)
    BY <1>6, <2>1, Zenon
  <2>6. op \in Removing
    OBVIOUS
  <2> HIDE DEF AInv
  <2> QED
    BY <1>6, <2>4, <2>5, <2>6, SMT DEF PlaceInv
<1>10. HandledInv'
  BY <1>6 DEF HandledInv
<1>11. NoneConnected' /\ NothingLeft'
  <2>1. ASSUME op = "purge" PROVE \A i \in Streams : ~stream[i].connected
    <3>1. api.op = "cleanup"
      BY <1>1, <2>1, IdleIs
    <3> QED
      BY <3>1 DEF NoneConnected
  <2> QED
    BY <1>6, <1>8, <2>1 DEF NoneConnected, NothingLeft, Removing
<1>12. StartedInv'
  <2>1. op = "purge" => \A w \in Workers : ~Alive(w)
    BY <1>1, <1>2, IdleIs DEF StartedInv
  <2>2. ~engine.started => \A w \in Workers : ~Alive(w)
    BY <1>1 DEF StartedInv
  <2> QED
    BY <1>6, <1>8, <2>1, <2>2 DEF StartedInv, Removing
<1> QED
  BY <1>8, <1>9, <1>10, <1>11, <1>12, Zenon

----------------------------------------------------------------------------
(* Streams come                                                            *)

\* What the other workers serve is as it was.
LEMMA ServedFrom ==
  ASSUME ServedInv, NEW w \in Workers, \A v \in Workers : v # w => worker'[v] = worker[v],
         \A i \in Serving(w)' : i \in Streams' /\ i \notin Detached' /\ Matches(w, stream[i].dom, stream[i].period)',
         \A v \in Workers : v # w => \A i \in Serving(v) :
           /\ i \in Streams' /\ i \notin Detached' /\ i \notin Serving(w)'
           /\ stream'[i].dom = stream[i].dom /\ stream'[i].period = stream[i].period,
         \A i \in Streams' : i \in Detached' \/ i \in Serving(w)' \/ \E v \in Workers : v # w /\ i \in Serving(v),
         IsInjective(worker'[w].streams)
  PROVE  ServedInv'
<1>1. \A v \in Workers : v # w => Serving(v)' = Serving(v)
  BY Zenon DEF Serving
<1>2. ServesOnlyStreams'
  <2> SUFFICES ASSUME NEW v \in Workers, NEW i \in Serving(v)'
               PROVE  i \in Streams' /\ i \notin Detached' /\ Matches(v, stream[i].dom, stream[i].period)'
    BY Zenon DEF ServesOnlyStreams
  <2>1. CASE v = w
    BY <2>1, Zenon DEF Matches
  <2>2. CASE v # w
    <3>1. i \in Serving(v)
      BY <1>1, <2>2, Zenon
    <3>2. Matches(v, stream[i].dom, stream[i].period)
      BY <3>1, Zenon DEF ServedInv, ServesOnlyStreams
    <3>3. Matches(v, stream[i].dom, stream[i].period)'
      BY <2>2, <3>1, <3>2, Zenon DEF Matches
    <3> QED
      BY <2>2, <3>1, <3>3, Zenon
  <2> QED
    BY <2>1, <2>2
<1>3. \A i \in Streams' : i \in Detached' \/ \E v \in Workers : i \in Serving(v)'
  BY <1>1, Zenon
<1>4. ASSUME NEW u \in Workers, NEW v \in Workers, NEW i \in Serving(u)' \cap Serving(v)' PROVE u = v
  <2>1. u # w /\ v # w => u = v
    BY <1>1, Zenon DEF ServedInv, ServedByOne
  <2> QED
    BY <1>1, <2>1, SMT
<1>5. \A v \in Workers : IsInjective(worker'[v].streams)
  BY Zenon DEF ServedInv, ServedByOne
<1> QED
  BY <1>2, <1>3, <1>4, <1>5, Zenon DEF ServedInv, ServedByOne

\* The threads of the other workers are as they were.
LEMMA ThreadsFrom ==
  ASSUME NEW w \in Workers, ThreadInv, Stopping \subseteq Stopping', \A v \in Workers : v # w => worker'[v] = worker[v],
         \A v \in Workers : v # w => \A i \in Serving(v) : stream'[i].active => stream[i].active, ThreadOK(w)'
  PROVE  ThreadInv'
<1>1. ASSUME NEW v \in Workers, v # w PROVE ThreadOK(v)'
  BY <1>1, ThreadKept, Zenon DEF ThreadInv
<1> QED
  BY <1>1, Zenon DEF ThreadInv

\* The worker createAlsaStream() finds is in the list, and the stream fits.
LEMMA MatchingIsListed ==
  ASSUME list \in Seq(Workers), NEW dom, NEW period, MatchingWorker(dom, period) # 0
  PROVE  \E w \in Range(list) : w = MatchingWorker(dom, period) /\ w \in Workers /\ Matches(w, dom, period)
<1> DEFINE fits == {i \in 1 .. Len(list) : Matches(list[i], dom, period)}
           i == CHOOSE i \in fits : \A j \in fits : i <= j
<1>1. fits # {} /\ MatchingWorker(dom, period) = list[i]
  BY Zenon DEF MatchingWorker
<1>2. fits \in SUBSET Nat
  BY DEF Nat
<1>3. i \in fits
  <2>1. \E x \in fits : \A y \in fits : x <= y
    BY <1>1, <1>2, LeastElement
  <2> QED
    BY <2>1, Zenon
<1>4. i \in 1 .. Len(list) /\ Matches(list[i], dom, period)
  BY <1>3, Zenon
<1>5. list[i] \in Range(list) /\ list[i] \in Workers
  BY <1>4, RangeIs
<1> QED
  BY <1>1, <1>4, <1>5, Zenon

\* A period is a multiple of itself.
LEMMA MultipleOfItself ==
  ASSUME NEW n \in Nat \ {0}
  PROVE  Multiple(n, n)
<1>1. n \div n = 1 /\ n % n = 0
  OBVIOUS
<1> QED
  BY <1>1 DEF Multiple

\* A stream that does not exist.
LEMMA NoStreamIs == NoStream \in StreamTypes /\ NoStream.kind = "none" /\ ~NoStream.active
<1>1. "none" \in {"none", "virtual", "hw"} /\ "none" \in Domains \cup {"none"} /\ FALSE \in BOOLEAN /\ 0 \in Nat
  OBVIOUS
<1>2. NoStream \in StreamTypes
  BY <1>1, Zenon DEF StreamTypes, NoStream
<1> QED
  BY <1>2 DEF NoStream

\* A worker that does not exist.
LEMMA NoWorkerIs == NoWorker \in WorkerTypes /\ NoWorker.thread = "none" /\ NoWorker.pc = "top" /\ NoWorker.streams = <<>>
<1>1. <<>> \in Seq(Ids) /\ 0 \in Nat /\ "none" \in Domains \cup {"none"}
  OBVIOUS
<1>2. NoWorker \in WorkerTypes
  BY <1>1, Zenon DEF WorkerTypes, NoWorker
<1> QED
  BY <1>2 DEF NoWorker

StreamKinds == {"virtual", "hw"}

\* A stream that has just been created.
LEMMA NewStreamIs ==
  ASSUME NEW kind \in StreamKinds, NEW dom \in Domains, NEW period \in Periods
  PROVE  \E r \in StreamTypes : /\ r = NewStream(kind, dom, period)
                                /\ r.kind = kind /\ r.dom = dom /\ r.period = period /\ ~r.active
<1> DEFINE r == NewStream(kind, dom, period)
<1>1. /\ NoStream \in StreamTypes /\ ~NoStream.active
      /\ kind \in {"none", "virtual", "hw"} /\ dom \in Domains \cup {"none"} /\ period \in Nat
  BY EngineConstants, NoStreamIs DEF StreamKinds
<1>2. r.kind = kind /\ r.dom = dom /\ r.period = period /\ r.active = NoStream.active
  BY <1>1, Zenon DEF StreamTypes, NewStream
<1>3. r \in StreamTypes
  BY <1>1, Zenon DEF StreamTypes, NewStream
<1> HIDE DEF r
<1>4. r = NewStream(kind, dom, period)
  BY DEF r
<1> QED
  BY <1>1, <1>2, <1>3, <1>4, Zenon

\* The streams, when there is one more.
LEMMA OneMore ==
  ASSUME EngineTypes, NEW id \in Ids, id \notin Streams, NEW r \in StreamTypes, r.kind \in StreamKinds,
         stream' = [stream EXCEPT ![id] = r]
  PROVE  /\ stream' \in [Ids -> StreamTypes] /\ Streams' = Streams \cup {id} /\ stream'[id] = r
         /\ \A i \in Ids : i # id => stream'[i] = stream[i]
<1>1. stream \in [Ids -> StreamTypes]
  BY DEF EngineTypes
<1>2. stream' \in [Ids -> StreamTypes] /\ stream'[id] = r /\ \A i \in Ids : i # id => stream'[i] = stream[i]
  BY <1>1, Zenon
<1>3. Streams' = Streams \cup {id}
  BY <1>2, SMT DEF Streams, StreamKinds
<1> QED
  BY <1>2, <1>3, Zenon

\* What the call's next step may rest on when a stream has been created.
LEMMA StreamsGrow ==
  ASSUME AInv, ~killed, NEW id \in Ids, Streams' = Streams \cup {id}, api' \in ApiTypes, api'.op \in {"none", "create"},
         api = Idle, engine.init, UNCHANGED <<engine>>,
         hw' \in [Ids -> {"off", "on", "stopping", "gone"}], \A i \in Ids : hw'[i] # "off" => hw[i] # "off" \/ i = id,
         \A w \in Workers : Alive(w)' => Alive(w)
  PROVE  StartedInv' /\ CleanInv'
<1> USE DEF AInv, CleanInv
<1>1. NoneConnected' /\ NothingLeft'
  BY DEF NoneConnected, NothingLeft
<1>2. HwOfStreams'
  BY DEF HwOfStreams
<1>3. StartedInv'
  <2>1. ~engine.started => \A w \in Workers : ~Alive(w)
    BY IdleIs DEF StartedInv
  <2> QED
    BY <2>1 DEF StartedInv
<1> QED
  BY <1>1, <1>2, <1>3

\* createAlsaStream() has found a worker.
LEMMA CreateForWorkerKeeps ==
  ASSUME AInv, ~killed, NEW id \in Ids, NEW kind \in StreamKinds, NEW dom \in Domains, NEW period \in Periods,
         CreateForWorker(id, kind, dom, period)
  PROVE  AInv'
<1> USE DEF AInv
<1>1. /\ id \notin Streams /\ api = Idle /\ engine.init /\ list \in Seq(Workers)
      /\ stream' = [stream EXCEPT ![id] = NewStream(kind, dom, period)]
      /\ engine' = engine /\ hw' = hw /\ worker' = worker /\ list' = list /\ crashed' = crashed /\ UNCHANGED wdVars
  BY Zenon DEF CreateForWorker, EngineTypes
<1>2. PICK w \in Range(list) : w = MatchingWorker(dom, period) /\ w \in Workers /\ Matches(w, dom, period)
  BY <1>1, MatchingIsListed DEF CreateForWorker
<1>3. /\ stream' \in [Ids -> StreamTypes] /\ Streams' = Streams \cup {id}
      /\ stream'[id].dom = dom /\ stream'[id].period = period /\ ~stream'[id].active
      /\ \A i \in Ids : i # id => stream'[i] = stream[i]
  <2>1. PICK new \in StreamTypes : /\ new = NewStream(kind, dom, period)
                                   /\ new.kind = kind /\ new.dom = dom /\ new.period = period /\ ~new.active
    BY NewStreamIs, SMT
  <2>2. stream' = [stream EXCEPT ![id] = new]
    BY <1>1, <2>1, Zenon
  <2>3. /\ stream' \in [Ids -> StreamTypes] /\ Streams' = Streams \cup {id} /\ stream'[id] = new
        /\ \A i \in Ids : i # id => stream'[i] = stream[i]
    BY <1>1, <2>1, <2>2, OneMore, Zenon
  <2> QED
    BY <2>1, <2>3
<1> DEFINE r == [pc |-> "add", op |-> "create", id |-> id, w |-> w, todo |-> <<>>]
<1>4. api' = r
  BY <1>2, Zenon DEF CreateForWorker, Idle
<1>5. r \in ApiTypes /\ r.pc = "add" /\ r.op = "create" /\ r.id = id /\ r.w = w /\ r.todo = <<>>
  <2>1. "add" \in Places /\ "create" \in Operations
    BY DEF Places, Operations
  <2> QED
    BY <1>2, <2>1, CallRecord
<1> HIDE DEF r
<1>6. api' \in ApiTypes /\ api'.pc = "add" /\ api'.op = "create" /\ api'.id = id /\ api'.w = w /\ api'.todo = <<>>
  BY <1>4, <1>5, Zenon
<1>7. Detached' = {id} /\ Emptied' = {} /\ Detached = {} /\ Emptied = {} /\ Stopping = {}
  BY <1>1, <1>6, IdleIs DEF Detached, Emptied, Removing
<1>8. WatchInv' /\ interfaces' = interfaces
  BY <1>1, WatchSteps, Zenon
<1>9. EngineTypes'
  BY <1>1, <1>3, <1>6, Zenon DEF EngineTypes
<1>10. \A v \in Workers : \A i \in Serving(v) : i \in Streams /\ i # id /\ i \in Ids /\ stream'[i] = stream[i]
  BY <1>1, <1>3 DEF ServedInv, ServesOnlyStreams, Streams
<1>11. \A v \in Workers : Serving(v)' = Serving(v) /\ (Alive(v)' <=> Alive(v))
  BY <1>1, Zenon DEF Serving, Alive
<1>12. ServedInv'
  <2>1. \A i \in Serving(w)' : i \in Streams' /\ i \notin Detached' /\ Matches(w, stream[i].dom, stream[i].period)'
    <3> SUFFICES ASSUME NEW i \in Serving(w)'
                 PROVE  i \in Streams' /\ i \notin Detached' /\ Matches(w, stream[i].dom, stream[i].period)'
      OBVIOUS
    <3>1. i \in Serving(w) /\ i \in Streams /\ i # id /\ stream'[i] = stream[i]
      BY <1>2, <1>10, <1>11, Zenon
    <3>2. Matches(w, stream[i].dom, stream[i].period)
      BY <1>2, <3>1, Zenon DEF ServedInv, ServesOnlyStreams
    <3>3. Matches(w, stream[i].dom, stream[i].period)'
      BY <1>1, <3>1, <3>2, Zenon DEF Matches
    <3> QED
      BY <1>3, <1>7, <3>1, <3>3, Zenon
  <2>2. \A v \in Workers : v # w => \A i \in Serving(v) : i \notin Serving(w)'
    <3>1. \A u, v \in Workers : \A i \in Serving(u) \cap Serving(v) : u = v
      BY Zenon DEF ServedInv, ServedByOne
    <3>2. Serving(w)' = Serving(w)
      BY <1>2, <1>11, Zenon
    <3> QED
      BY <1>2, <3>1, <3>2, SMT
  <2>3. \A i \in Streams : \E v \in Workers : i \in Serving(v)
    BY <1>7, Zenon DEF ServedInv, ServedByOne
  <2>4. IsInjective(worker'[w].streams)
    BY <1>1, <1>2, Zenon DEF ServedInv, ServedByOne
  <2> QED
    BY <1>1, <1>2, <1>3, <1>7, <1>10, <1>11, <2>1, <2>2, <2>3, <2>4, ServedFrom
<1>13. ListInv'
  BY <1>1, <1>7, <1>8, Zenon DEF ListInv
<1>14. ThreadInv'
  <2>1. \A v \in Workers : ThreadOK(v)'
    BY <1>1, <1>7, <1>10, ThreadKept, Zenon DEF ThreadInv
  <2> QED
    BY <2>1, Zenon DEF ThreadInv
<1>15. StartedInv' /\ CleanInv'
  <2>1. hw' \in [Ids -> {"off", "on", "stopping", "gone"}] /\ api'.op \in {"none", "create"}
    BY <1>1, <1>6 DEF EngineTypes
  <2> QED
    BY <1>1, <1>3, <1>6, <1>11, <2>1, StreamsGrow, Zenon
<1>16. PlaceInv'
  <2>1. Range(<<>>) = {} /\ IsInjective(<<>>)
    BY EmptyList
  <2>2. Range(api'.todo) = {} /\ IsInjective(api'.todo)
    BY <1>6, <2>1, Zenon
  <2>3. api'.id \in Streams' /\ api'.w \in Range(list)' /\ Matches(w, stream[id].dom, stream[id].period)'
    BY <1>1, <1>2, <1>3, <1>6, Zenon DEF Matches
  <2>4. Matches(api.w, stream[api.id].dom, stream[api.id].period)'
    BY <1>6, <2>3, Zenon DEF Matches
  <2> HIDE DEF AInv
  <2> QED
    BY <1>6, <2>2, <2>3, <2>4, SMT DEF PlaceInv
<1>17. HandledInv'
  BY <1>6 DEF HandledInv
<1> QED
  BY <1>8, <1>9, <1>12, <1>13, <1>14, <1>15, <1>16, <1>17, Zenon

\* addAlsaStream()
LEMMA AddKeeps ==
  ASSUME AInv, ~killed, "diagnosis" \in Assume, AddAlsaStream
  PROVE  AInv'
<1> USE DEF AInv
<1>1. PICK w \in Workers : w = api.w
  BY TheWorker DEF AddAlsaStream
<1>2. PICK id \in Ids : id = api.id /\ id \in Streams
  BY DEF AddAlsaStream, PlaceInv, Streams
<1>3. /\ w \in Range(list) /\ worker[w] \in WorkerTypes /\ ThreadOK(w) /\ engine.init /\ worker \in [Workers -> WorkerTypes]
      /\ crashed = FALSE
  BY <1>1, TheWorker DEF AddAlsaStream
<1>4. /\ api.pc = "add" /\ worker[w].pc \notin {"copy", "diagnose"} /\ api' = Idle /\ Created(id)
      /\ worker' = [worker EXCEPT ![w].streams = <<id>> \o @]
      /\ stream' = [stream EXCEPT ![id].active = Alive(w)]
      /\ engine' = engine /\ list' = list /\ crashed' = crashed /\ UNCHANGED wdVars
  BY <1>1, <1>2, Zenon DEF AddAlsaStream, Locked, InDiagnosis, Assumed, AddedActive, Alive
<1>5. api.op = "create" /\ Matches(w, stream[id].dom, stream[id].period)
  BY <1>1, <1>2, <1>4 DEF PlaceInv
<1>6. Detached = {id} /\ Emptied = {} /\ Stopping = {}
  BY <1>2, <1>4, <1>5 DEF Detached, Emptied, Stopping, Removing
<1>7. Detached' = {} /\ Emptied' = {} /\ Stopping' = {} /\ api' \in ApiTypes /\ PlaceInv' /\ HandledInv' /\ NoneConnected'
  BY <1>4, CallOver
<1>8. WatchInv' /\ interfaces' = interfaces
  BY <1>4, WatchSteps, Zenon
<1>9. \A v \in Workers : \A i \in Serving(v) : i \in Streams /\ i # id /\ i \in Ids
  BY <1>6 DEF ServedInv, ServesOnlyStreams, Streams
<1> DEFINE s == <<id>> \o worker[w].streams
           r == [worker[w] EXCEPT !.streams = s]
<1>10. s \in Seq(Ids) /\ s # <<>> /\ Range(s) = {id} \cup Serving(w) /\ IsInjective(s)
  <2>1. worker[w].streams \in Seq(Ids)
    BY <1>3 DEF WorkerTypes
  <2>2. IsInjective(worker[w].streams) /\ id \notin Range(worker[w].streams)
    BY <1>9, Zenon DEF ServedInv, ServedByOne, Serving
  <2> QED
    BY <2>1, <2>2, Prepended, Zenon DEF Serving
<1>11. worker' = [worker EXCEPT ![w] = r]
  BY <1>3, <1>4, Zenon
<1> HIDE DEF s
<1>12. /\ r \in WorkerTypes /\ r.streams = s /\ r.dom = worker[w].dom /\ r.period = worker[w].period /\ r.keep = worker[w].keep
       /\ r.thread = worker[w].thread /\ r.pc = worker[w].pc /\ r.todo = worker[w].todo /\ r.failed = worker[w].failed
  BY <1>3, <1>10, Zenon DEF WorkerTypes
<1> HIDE DEF r
<1>13. worker' \in [Workers -> WorkerTypes] /\ worker'[w] = r /\ \A v \in Workers : v # w => worker'[v] = worker[v]
  BY <1>3, <1>11, <1>12, Zenon
<1>14. /\ Serving(w)' = {id} \cup Serving(w) /\ \A v \in Workers : v # w => Serving(v)' = Serving(v)
       /\ \A v \in Workers : Alive(v)' <=> Alive(v)
  BY <1>10, <1>12, <1>13, Zenon DEF Serving, Alive
<1>15. /\ stream' \in [Ids -> StreamTypes] /\ (stream'[id].active <=> Alive(w))
       /\ \A i \in Ids : i # id => stream'[i] = stream[i]
       /\ \A i \in Ids : stream'[i].kind = stream[i].kind /\ stream'[i].dom = stream[i].dom /\ stream'[i].period = stream[i].period
  <2>1. stream \in [Ids -> StreamTypes] /\ stream[id] \in StreamTypes /\ Alive(w) \in BOOLEAN
    BY Zenon DEF EngineTypes, Alive
  <2>2. stream' = [stream EXCEPT ![id] = [stream[id] EXCEPT !.active = Alive(w)]]
    BY <1>4, <2>1, Zenon
  <2>3. /\ [stream[id] EXCEPT !.active = Alive(w)] \in StreamTypes
        /\ [stream[id] EXCEPT !.active = Alive(w)].kind = stream[id].kind
        /\ [stream[id] EXCEPT !.active = Alive(w)].dom = stream[id].dom
        /\ [stream[id] EXCEPT !.active = Alive(w)].period = stream[id].period
        /\ [stream[id] EXCEPT !.active = Alive(w)].active = Alive(w)
    BY <2>1, Zenon DEF StreamTypes
  <2> QED
    BY <2>1, <2>2, <2>3, Zenon
<1>16. Streams' = Streams
  BY <1>15, Zenon DEF Streams
<1>17. EngineTypes' /\ HwOfStreams'
  <2>1. hw' \in [Ids -> {"off", "on", "stopping", "gone"}] /\ HwOfStreams'
    BY <1>2, <1>4, <1>16, HwStartedKeeps DEF CleanInv
  <2> QED
    BY <1>3, <1>4, <1>7, <1>13, <1>15, <2>1, Zenon DEF EngineTypes
<1>18. ServedInv'
  <2>1. \A i \in Serving(w)' : i \in Streams' /\ i \notin Detached' /\ Matches(w, stream[i].dom, stream[i].period)'
    <3> SUFFICES ASSUME NEW i \in Serving(w)'
                 PROVE  i \in Streams' /\ i \notin Detached' /\ Matches(w, stream[i].dom, stream[i].period)'
      OBVIOUS
    <3>1. i = id \/ i \in Serving(w)
      BY <1>14, Zenon
    <3>2. i \in Streams /\ i \in Ids /\ Matches(w, stream[i].dom, stream[i].period)
      BY <1>2, <1>5, <1>9, <3>1, Zenon DEF ServedInv, ServesOnlyStreams
    <3>3. Matches(w, stream[i].dom, stream[i].period)'
      BY <1>12, <1>13, <1>15, <3>2, Zenon DEF Matches
    <3> QED
      BY <1>7, <1>16, <3>2, <3>3, Zenon
  <2>2. \A v \in Workers : v # w => \A i \in Serving(v) : i \notin Serving(w)'
    BY <1>9, <1>14, Zenon DEF ServedInv, ServedByOne
  <2>3. \A i \in Streams : i = id \/ \E v \in Workers : i \in Serving(v)
    BY <1>6, Zenon DEF ServedInv, ServedByOne
  <2>4. IsInjective(worker'[w].streams)
    BY <1>10, <1>12, <1>13, Zenon
  <2>5. \A v \in Workers : v # w => \A i \in Serving(v) :
           /\ i \in Streams' /\ i \notin Detached' /\ i \notin Serving(w)'
           /\ stream'[i].dom = stream[i].dom /\ stream'[i].period = stream[i].period
    BY <1>7, <1>9, <1>15, <1>16, <2>2
  <2>6. \A i \in Streams' : i \in Detached' \/ i \in Serving(w)' \/ \E v \in Workers : v # w /\ i \in Serving(v)
    BY <1>14, <1>16, <2>3, SMT
  <2> QED
    BY <1>13, <2>1, <2>4, <2>5, <2>6, ServedFrom, Zenon
<1>19. ListInv'
  <2>1. \A v \in Workers \ Range(list)' : worker'[v] = NoWorker
    BY <1>3, <1>4, <1>13, Zenon DEF ListInv
  <2>2. \A v \in Range(list)' : worker'[v].streams # <<>>
    <3>1. Range(list) \subseteq Workers
      BY CalledWorker
    <3> QED
      BY <1>4, <1>6, <1>10, <1>12, <1>13, <3>1 DEF ListInv
  <2> QED
    BY <1>4, <1>8, <2>1, <2>2, Zenon DEF ListInv
<1>20. ThreadInv'
  <2>1. ThreadOK(w)'
    <3>1. ~Alive(w)' => worker'[w].pc = "top"
      BY <1>3, <1>12, <1>13, <1>14, Zenon DEF ThreadOK
    <3>2. Alive(w)' => worker'[w].keep
      BY <1>3, <1>6, <1>12, <1>13, <1>14 DEF ThreadOK
    <3>3. worker'[w].pc \notin {"copy", "diagnose"}
      BY <1>4, <1>12, <1>13, Zenon
    <3>4. \A i \in Serving(w)' : stream'[i].active => Kept(w)'
      <4>1. stream'[id].active => Kept(w)'
        BY <1>14, <1>15, <3>2, Zenon DEF Kept
      <4>2. Kept(w) => Kept(w)'
        BY <1>12, <1>13, <1>14, Zenon DEF Kept
      <4> QED
        BY <1>3, <1>9, <1>14, <1>15, <4>1, <4>2, Zenon DEF ThreadOK
    <3> QED
      BY <3>1, <3>2, <3>3, <3>4 DEF ThreadOK
  <2>2. \A v \in Workers : v # w => \A i \in Serving(v) : stream'[i].active => stream[i].active
    BY <1>9, <1>15, Zenon
  <2> QED
    BY <1>6, <1>7, <1>13, <2>1, <2>2, ThreadsFrom
<1>21. StartedInv' /\ NothingLeft'
  <2>1. ~engine.started => \A v \in Workers : ~Alive(v)
    BY <1>5 DEF StartedInv
  <2> QED
    BY <1>3, <1>4, <1>14, <2>1, IdleIs DEF StartedInv, NothingLeft
<1> QED
  BY <1>7, <1>8, <1>17, <1>18, <1>19, <1>20, <1>21, Zenon DEF CleanInv

\* The worker that is created for a stream.
LEMMA NewWorkerIs ==
  ASSUME NEW id \in Ids, NEW dom \in Domains, NEW period \in Periods
  PROVE  \E r \in WorkerTypes : /\ r = NewWorker(id, dom, period)
                                /\ r.streams = <<id>> /\ r.dom = dom /\ Multiple(period, r.period)
                                /\ r.thread = "none" /\ r.pc = "top"
<1> DEFINE p == IF Multiple(period, BasePeriod) THEN BasePeriod ELSE period
           r == [NoWorker EXCEPT !.dom = dom, !.streams = <<id>>, !.period = p]
<1>1. p \in Nat /\ Multiple(period, p) /\ dom \in Domains \cup {"none"}
  BY EngineConstants, MultipleOfItself
<1>2. <<id>> \in Seq(Ids)
  BY OneInList
<1> HIDE DEF p
<1>3. NoWorker \in WorkerTypes /\ NoWorker.thread = "none" /\ NoWorker.pc = "top"
  BY NoWorkerIs
<1>4. r \in WorkerTypes
  BY <1>1, <1>2, <1>3, Zenon DEF WorkerTypes
<1>5. r.streams = <<id>> /\ r.dom = dom /\ r.period = p /\ r.thread = NoWorker.thread /\ r.pc = NoWorker.pc
  BY <1>3, Zenon DEF WorkerTypes
<1>6. r = NewWorker(id, dom, period)
  BY Zenon DEF NewWorker, p
<1> HIDE DEF r
<1> QED
  BY <1>1, <1>3, <1>4, <1>5, <1>6, Zenon

\* createAlsaStream() creates a worker.
LEMMA CreateWithWorkerKeeps ==
  ASSUME AInv, ~killed, NEW id \in Ids, NEW kind \in StreamKinds, NEW dom \in Domains, NEW period \in Periods,
         CreateWithWorker(id, kind, dom, period)
  PROVE  AInv'
<1> USE DEF AInv
<1>1. PICK w \in Workers :
        /\ w \notin Range(list) /\ api = Idle /\ engine.init /\ id \notin Streams
        /\ stream' = [stream EXCEPT ![id] = NewStream(kind, dom, period)]
        /\ worker' = [worker EXCEPT ![w] = NewWorker(id, dom, period)]
        /\ list' = Append(list, w) /\ CreateWatchdog(w)
        /\ IF engine.started
           THEN api' = [Idle EXCEPT !.pc = "start", !.op = "create", !.id = id, !.w = w] /\ hw' = hw
           ELSE api' = Idle /\ IF kind = "hw" THEN HwStarted(id) ELSE hw' = hw
        /\ engine' = engine /\ crashed' = crashed
  BY Zenon DEF CreateWithWorker
<1>2. /\ stream' \in [Ids -> StreamTypes] /\ Streams' = Streams \cup {id}
      /\ stream'[id].dom = dom /\ stream'[id].period = period /\ ~stream'[id].active
      /\ \A i \in Ids : i # id => stream'[i] = stream[i]
  <2>1. PICK new \in StreamTypes : /\ new = NewStream(kind, dom, period)
                                   /\ new.kind = kind /\ new.dom = dom /\ new.period = period /\ ~new.active
    BY NewStreamIs, SMT
  <2>2. stream' = [stream EXCEPT ![id] = new]
    BY <1>1, <2>1, Zenon
  <2>3. /\ stream' \in [Ids -> StreamTypes] /\ Streams' = Streams \cup {id} /\ stream'[id] = new
        /\ \A i \in Ids : i # id => stream'[i] = stream[i]
    BY <1>1, <2>1, <2>2, OneMore, Zenon
  <2> QED
    BY <2>1, <2>3
<1>3. PICK r \in WorkerTypes : /\ r = NewWorker(id, dom, period)
                               /\ r.streams = <<id>> /\ r.dom = dom /\ Multiple(period, r.period)
                               /\ r.thread = "none" /\ r.pc = "top"
  BY NewWorkerIs, SMT
<1>4. worker' \in [Workers -> WorkerTypes] /\ worker'[w] = r /\ \A v \in Workers : v # w => worker'[v] = worker[v]
  <2>1. worker \in [Workers -> WorkerTypes]
    BY DEF EngineTypes
  <2> QED
    BY <1>1, <1>3, <2>1, Zenon
<1>5. Range(<<id>>) = {id} /\ <<id>> # <<>> /\ IsInjective(<<id>>)
  BY OneInList
<1>6. /\ list' \in Seq(Workers) /\ Range(list)' = Range(list) \cup {w} /\ IsInjective(list')
  <2>1. list \in Seq(Workers) /\ IsInjective(list)
    BY Zenon DEF EngineTypes, ListInv
  <2> QED
    BY <1>1, <2>1, Appended
<1>7. api' \in ApiTypes /\ Detached = {} /\ Emptied = {} /\ Stopping = {} /\ Detached' = {} /\ Emptied' = {} /\ Stopping' = {}
      /\ api'.op \in {"none", "create"} /\ PlaceInv' /\ HandledInv'
  <2>1. Detached = {} /\ Emptied = {} /\ Stopping = {}
    BY <1>1, IdleIs
  <2>2. CASE ~engine.started
    BY <1>1, <2>1, <2>2, CallOver, IdleIs
  <2>3. CASE engine.started
    <3> DEFINE c == [pc |-> "start", op |-> "create", id |-> id, w |-> w, todo |-> <<>>]
    <3>1. api' = c
      BY <1>1, <2>3, Zenon DEF Idle
    <3>2. c \in ApiTypes /\ c.pc = "start" /\ c.op = "create" /\ c.id = id /\ c.w = w /\ c.todo = <<>>
      <4>1. "start" \in Places /\ "create" \in Operations
        BY DEF Places, Operations
      <4> QED
        BY <4>1, CallRecord
    <3> HIDE DEF c
    <3>3. api' \in ApiTypes /\ api'.pc = "start" /\ api'.op = "create" /\ api'.id = id /\ api'.w = w /\ api'.todo = <<>>
      BY <3>1, <3>2, Zenon
    <3>4. Detached' = {} /\ Emptied' = {} /\ Stopping' = {}
      BY <3>3 DEF Detached, Emptied, Stopping, Removing
    <3>5. PlaceInv'
      <4>1. Range(<<>>) = {} /\ IsInjective(<<>>)
        BY EmptyList
      <4>2. Range(api'.todo) = {} /\ IsInjective(api'.todo)
        BY <3>3, <4>1, Zenon
      <4>3. api'.id \in Streams' /\ api'.w \in Range(list)' /\ engine'.started
        BY <1>1, <1>2, <1>6, <2>3, <3>3, Zenon
      <4> HIDE DEF AInv
      <4> QED
        BY <3>3, <4>2, <4>3, SMT DEF PlaceInv
    <3>6. HandledInv'
      <4>1. worker'[api'.w].thread = "none"
        BY <1>3, <1>4, <3>3, Zenon
      <4>2. ~Alive(api.w)'
        BY <4>1 DEF Alive
      <4> QED
        BY <3>3, <4>2 DEF HandledInv
    <3> QED
      BY <2>1, <3>3, <3>4, <3>5, <3>6
  <2> QED
    BY <2>2, <2>3
<1>8. WatchInv' /\ interfaces' \subseteq interfaces \cup {w}
  BY <1>1, WatchSteps, Zenon DEF Workers
<1>9. \A v \in Workers : \A i \in Serving(v) : i \in Streams /\ i # id /\ i \in Ids /\ stream'[i] = stream[i]
  BY <1>1, <1>2 DEF ServedInv, ServesOnlyStreams, Streams
<1>10. /\ Serving(w)' = {id} /\ \A v \in Workers : v # w => Serving(v)' = Serving(v)
       /\ ~Alive(w)' /\ \A v \in Workers : Alive(v)' => Alive(v)
  <2>1. ~Alive(w)'
    BY <1>3, <1>4 DEF Alive
  <2> QED
    BY <1>3, <1>4, <1>5, <2>1, Zenon DEF Serving, Alive
<1>11. hw' \in [Ids -> {"off", "on", "stopping", "gone"}] /\ \A i \in Ids : hw'[i] # "off" => hw[i] # "off" \/ i = id
  <2>1. hw' = hw \/ hw' = [hw EXCEPT ![id] = "on"]
    BY <1>1, Zenon DEF HwStarted
  <2> QED
    BY <2>1 DEF EngineTypes
<1>12. EngineTypes'
  BY <1>1, <1>2, <1>4, <1>6, <1>7, <1>11, Zenon DEF EngineTypes
<1>13. ServedInv'
  <2>1. worker[w] = NoWorker /\ Serving(w) = {}
    <3>1. worker[w] = NoWorker
      BY <1>1, Zenon DEF ListInv
    <3> QED
      BY <3>1, EmptyList DEF Serving, NoWorker
  <2>2. \A i \in Serving(w)' : i \in Streams' /\ i \notin Detached' /\ Matches(w, stream[i].dom, stream[i].period)'
    <3>1. Matches(w, stream[id].dom, stream[id].period)'
      BY <1>2, <1>3, <1>4, Zenon DEF Matches
    <3> QED
      BY <1>2, <1>7, <1>10, <3>1
  <2>3. \A v \in Workers : v # w => \A i \in Serving(v) :
           /\ i \in Streams' /\ i \notin Detached' /\ i \notin Serving(w)'
           /\ stream'[i].dom = stream[i].dom /\ stream'[i].period = stream[i].period
    BY <1>2, <1>7, <1>9, <1>10
  <2>4. \A i \in Streams : \E v \in Workers : i \in Serving(v)
    BY <1>7, Zenon DEF ServedInv, ServedByOne
  <2>5. \A i \in Streams' : i \in Detached' \/ i \in Serving(w)' \/ \E v \in Workers : v # w /\ i \in Serving(v)
    BY <1>2, <1>10, <2>1, <2>4, SMT
  <2>6. IsInjective(worker'[w].streams)
    BY <1>3, <1>4, <1>5, Zenon
  <2> QED
    BY <1>4, <2>2, <2>3, <2>5, <2>6, ServedFrom, Zenon
<1>14. ListInv'
  <2>1. \A v \in Workers \ Range(list)' : worker'[v] = NoWorker
    BY <1>4, <1>6, Zenon DEF ListInv
  <2>2. \A v \in Range(list)' : worker'[v].streams # <<>>
    <3>1. Range(list) \subseteq Workers /\ \A v \in Range(list) : worker[v].streams # <<>>
      BY <1>7, CalledWorker DEF ListInv
    <3> QED
      BY <1>3, <1>4, <1>5, <1>6, <3>1, Zenon
  <2>3. interfaces' \subseteq Range(list)'
    BY <1>6, <1>8, Zenon DEF ListInv
  <2> QED
    BY <1>6, <2>1, <2>2, <2>3, Zenon DEF ListInv
<1>15. ThreadInv'
  <2>1. ThreadOK(w)'
    <3>1. worker'[w].pc = "top" /\ \A i \in Serving(w)' : ~stream'[i].active
      BY <1>2, <1>3, <1>4, <1>10, Zenon
    <3> QED
      BY <1>10, <3>1 DEF ThreadOK
  <2>2. \A v \in Workers : v # w => \A i \in Serving(v) : stream'[i].active => stream[i].active
    BY <1>9, Zenon
  <2> QED
    BY <1>4, <1>7, <2>1, <2>2, ThreadsFrom
<1>16. StartedInv' /\ CleanInv'
  BY <1>1, <1>2, <1>7, <1>10, <1>11, StreamsGrow, Zenon
<1> QED
  BY <1>7, <1>8, <1>12, <1>13, <1>14, <1>15, <1>16, Zenon

----------------------------------------------------------------------------
(* Streams go, and with the last one the worker                            *)

\* Where a removal stands, and what it has left.
LEMMA OnRemoving ==
  ASSUME PlaceInv, ServedInv, EngineTypes, api.pc \in {"remove", "delete", "drop", "drop join"}
  PROVE  /\ api.op \in Removing /\ api.id \in Streams /\ api.id \in Ids /\ Stopping = {}
         /\ api.pc = "remove" => Detached = {} /\ Emptied = {} /\ api.w \in Workers /\ api.id \in Serving(api.w) /\ api.todo = <<>>
         /\ api.pc # "remove" => Detached = {api.id}
         /\ api.pc = "delete" => Emptied = {api.w} /\ api.todo = <<>> /\ worker[api.w].streams = <<>> /\ api.w \in Range(list)
         /\ api.pc \in {"drop", "drop join"} => Emptied = {}
<1>1. api.op \in Removing /\ api.id \in Streams
  BY DEF PlaceInv, Removing
<1>2. api.id \in Ids /\ Stopping = {}
  BY <1>1 DEF Streams, Stopping
<1>3. api.pc = "remove" => api.w \in Workers /\ api.id \in Serving(api.w) /\ api.todo = <<>>
  BY DEF PlaceInv
<1>4. api.pc = "delete" => api.todo = <<>> /\ worker[api.w].streams = <<>> /\ api.w \in Range(list)
  BY <1>1 DEF PlaceInv, Removing
<1> QED
  BY <1>1, <1>2, <1>3, <1>4 DEF Detached, Emptied

\* A stream is taken off its worker's list.
LEMMA RemoveKeeps ==
  ASSUME AInv, ~killed, "diagnosis" \in Assume, RemoveAlsaStream
  PROVE  AInv'
<1> USE DEF AInv
<1>0. api.pc = "remove"
  BY DEF RemoveAlsaStream
<1>1. PICK w \in Workers : w = api.w
  BY <1>0, OnRemoving
<1>2. PICK id \in Ids : id = api.id
  BY <1>0, OnRemoving
<1>3. /\ id \in Streams /\ id \in Serving(w) /\ api.op \in Removing /\ api.todo = <<>>
      /\ Detached = {} /\ Emptied = {} /\ Stopping = {}
  BY <1>0, <1>1, <1>2, OnRemoving
<1>4. worker[w] \in WorkerTypes /\ worker \in [Workers -> WorkerTypes] /\ ThreadOK(w)
  BY Zenon DEF EngineTypes, ThreadInv
<1> DEFINE s == RemoveFirst(worker[w].streams, id)
           r == [worker[w] EXCEPT !.streams = s]
           p == IF s = <<>> THEN "stop" ELSE "drop"
<1>5. /\ worker' = [worker EXCEPT ![w].streams = s] /\ api' = [api EXCEPT !.pc = p]
      /\ worker[w].pc \notin {"copy", "diagnose"}
      /\ stream' = stream /\ engine' = engine /\ hw' = hw /\ list' = list /\ crashed' = crashed /\ UNCHANGED wdVars
  BY <1>1, <1>2, Zenon DEF RemoveAlsaStream, Locked, InDiagnosis, Assumed, RemoveStream, LastStream
<1>6. s \in Seq(Ids) /\ IsInjective(s) /\ Range(s) = Serving(w) \ {id} /\ (s = <<>> <=> Range(s) = {})
  <2>1. worker[w].streams \in Seq(Ids)
    BY <1>4 DEF WorkerTypes
  <2>2. IsInjective(worker[w].streams) /\ id \in Range(worker[w].streams)
    BY <1>3, Zenon DEF ServedInv, ServedByOne, Serving
  <2>3. s \in Seq(Ids) /\ IsInjective(s) /\ Range(s) = Range(worker[w].streams) \ {id}
    BY <2>1, <2>2, Removed1, Zenon
  <2> HIDE DEF s
  <2>4. s = <<>> <=> Range(s) = {}
    BY <2>3, RangeIs
  <2> QED
    BY <2>3, <2>4, Zenon DEF Serving
<1>7. worker' = [worker EXCEPT ![w] = r]
  BY <1>4, <1>5, Zenon
<1> HIDE DEF s
<1>8. /\ r \in WorkerTypes /\ r.streams = s /\ r.dom = worker[w].dom /\ r.period = worker[w].period /\ r.keep = worker[w].keep
      /\ r.thread = worker[w].thread /\ r.pc = worker[w].pc /\ r.todo = worker[w].todo /\ r.failed = worker[w].failed
  BY <1>4, <1>6, Zenon DEF WorkerTypes
<1> HIDE DEF r
<1>9. worker' \in [Workers -> WorkerTypes] /\ worker'[w] = r /\ \A v \in Workers : v # w => worker'[v] = worker[v]
  BY <1>4, <1>7, <1>8, Zenon
<1>10. p \in {"stop", "drop"} /\ p \in Places /\ (p = "stop" <=> s = <<>>)
  BY DEF Places
<1> HIDE DEF p
<1>11. /\ api' \in ApiTypes /\ api'.pc = p /\ api'.op = api.op /\ api'.id = id /\ api'.w = w /\ api'.todo = <<>>
  BY <1>1, <1>2, <1>3, <1>5, <1>10, MovesTo
<1>12. Detached' = {id} /\ Emptied' = (IF s = <<>> THEN {w} ELSE {}) /\ Stopping' = {}
  BY <1>3, <1>10, <1>11 DEF Detached, Emptied, Stopping
<1>13. WatchInv' /\ interfaces' = interfaces
  BY <1>5, WatchSteps, Zenon
<1>14. /\ Serving(w)' = Serving(w) \ {id} /\ \A v \in Workers : v # w => Serving(v)' = Serving(v)
       /\ \A v \in Workers : Alive(v)' <=> Alive(v)
       /\ Streams' = Streams
  BY <1>5, <1>6, <1>8, <1>9, Zenon DEF Serving, Alive, Streams
<1>15. EngineTypes'
  BY <1>5, <1>9, <1>11, Zenon DEF EngineTypes
<1>16. ServedInv'
  <2>1. \A u, v \in Workers : \A i \in Serving(u) \cap Serving(v) : u = v
    BY Zenon DEF ServedInv, ServedByOne
  <2>2. \A v \in Workers : \A i \in Serving(v) : i \in Streams /\ Matches(v, stream[i].dom, stream[i].period)
    BY Zenon DEF ServedInv, ServesOnlyStreams
  <2>3. \A i \in Serving(w)' : i \in Streams' /\ i \notin Detached' /\ Matches(w, stream[i].dom, stream[i].period)'
    <3> SUFFICES ASSUME NEW i \in Serving(w)'
                 PROVE  i \in Streams' /\ i \notin Detached' /\ Matches(w, stream[i].dom, stream[i].period)'
      OBVIOUS
    <3>1. i \in Serving(w) /\ i # id
      BY <1>14
    <3>2. Matches(w, stream[i].dom, stream[i].period)'
      BY <1>5, <1>8, <1>9, <2>2, <3>1, Zenon DEF Matches
    <3> QED
      BY <1>12, <1>14, <2>2, <3>1, <3>2
  <2>4. \A v \in Workers : v # w => \A i \in Serving(v) :
           /\ i \in Streams' /\ i \notin Detached' /\ i \notin Serving(w)'
           /\ stream'[i].dom = stream[i].dom /\ stream'[i].period = stream[i].period
    BY <1>3, <1>5, <1>12, <1>14, <2>1, <2>2
  <2>5. \A i \in Streams : \E v \in Workers : i \in Serving(v)
    BY <1>3, Zenon DEF ServedInv, ServedByOne
  <2>6. \A i \in Streams' : i \in Detached' \/ i \in Serving(w)' \/ \E v \in Workers : v # w /\ i \in Serving(v)
    BY <1>12, <1>14, <2>5, SMT
  <2>7. IsInjective(worker'[w].streams)
    BY <1>6, <1>8, <1>9, Zenon
  <2> QED
    BY <1>9, <2>3, <2>4, <2>6, <2>7, ServedFrom, Zenon
<1>17. w \in Range(list)
  <2>1. worker[w].streams # <<>>
    BY <1>3, EmptyList DEF Serving
  <2> QED
    BY <2>1 DEF ListInv, NoWorker
<1>18. ListInv'
  <2>1. Range(list) \subseteq Workers
    BY CalledWorker
  <2>2. \A v \in Workers \ Range(list)' : worker'[v] = NoWorker
    BY <1>5, <1>9, <1>17, Zenon DEF ListInv
  <2>3. \A v \in Range(list)' : worker'[v].streams = <<>> => v \in Emptied'
    <3>1. \A v \in Range(list) : worker[v].streams # <<>>
      BY <1>3 DEF ListInv
    <3>2. worker'[w].streams = <<>> => w \in Emptied'
      BY <1>8, <1>9, <1>12
    <3> QED
      BY <1>5, <1>9, <2>1, <3>1, <3>2, Zenon
  <2> QED
    BY <1>5, <1>13, <2>2, <2>3, Zenon DEF ListInv
<1>19. ThreadInv'
  <2>1. ThreadOK(w)'
    <3>1. Kept(w)' <=> Kept(w)
      BY <1>8, <1>9, <1>14, Zenon DEF Kept
    <3>2. \A i \in Serving(w)' : stream'[i].active => Kept(w)'
      BY <1>4, <1>5, <1>14, <3>1, Zenon DEF ThreadOK
    <3>3. (Alive(w)' /\ ~worker'[w].keep => w \in Stopping') /\ (~Alive(w)' => worker'[w].pc = "top")
      BY <1>3, <1>4, <1>8, <1>9, <1>12, <1>14, Zenon DEF ThreadOK
    <3>4. worker'[w].pc \notin {"copy", "diagnose"}
      BY <1>5, <1>8, <1>9, Zenon
    <3> QED
      BY <3>2, <3>3, <3>4 DEF ThreadOK
  <2>2. \A v \in Workers : v # w => \A i \in Serving(v) : stream'[i].active => stream[i].active
    BY <1>5, Zenon
  <2> QED
    BY <1>3, <1>9, <1>12, <2>1, <2>2, ThreadsFrom
<1>20. StartedInv'
  BY <1>3, <1>5, <1>11, <1>14 DEF StartedInv, Removing
<1>21. PlaceInv'
  <2>1. Range(<<>>) = {} /\ IsInjective(<<>>)
    BY EmptyList
  <2>2. Range(api'.todo) = {} /\ IsInjective(api'.todo)
    BY <1>11, <2>1, Zenon
  <2>3. api'.id \in Streams' /\ api'.w \in Range(list)' /\ (api'.pc = "stop" => worker'[api'.w].streams = <<>>)
    BY <1>3, <1>5, <1>8, <1>9, <1>10, <1>11, <1>14, <1>17, Zenon
  <2>4. api'.op \in Removing
    BY <1>3, <1>11, Zenon
  <2> HIDE DEF AInv
  <2> QED
    <3>1. CASE api'.pc = "stop"
      BY <1>11, <2>2, <2>3, <2>4, <3>1, SMT DEF PlaceInv
    <3>2. CASE api'.pc = "drop"
      BY <1>11, <2>2, <2>3, <2>4, <3>2, SMT DEF PlaceInv
    <3> QED
      BY <1>10, <1>11, <3>1, <3>2
<1>22. HandledInv'
  <2>1. p = "stop" \/ p = "drop"
    BY <1>10
  <2> QED
    BY <1>11, <2>1 DEF HandledInv
<1>23. CleanInv'
  <2>1. NoneConnected'
    BY <1>5, <1>11, <1>14, Zenon DEF CleanInv, NoneConnected
  <2>2. engine.init
    BY <1>0, InitialisedInCall
  <2> QED
    BY <1>5, <1>14, <2>1, <2>2, Zenon DEF CleanInv, NothingLeft, HwOfStreams
<1> QED
  BY <1>13, <1>15, <1>16, <1>18, <1>19, <1>20, <1>21, <1>22, <1>23, Zenon

\* The worker that has lost its last stream is deleted.
LEMMA DeleteKeeps ==
  ASSUME AInv, ~killed, DeleteWorker
  PROVE  AInv'
<1> USE DEF AInv
<1>0. api.pc = "delete"
  BY DEF DeleteWorker
<1>1. PICK w \in Workers : w = api.w
  BY <1>0, TheWorker
<1>2. PICK id \in Ids : id = api.id
  BY <1>0, OnRemoving
<1>3. /\ id \in Streams /\ api.op \in Removing /\ api.todo = <<>> /\ worker[w].streams = <<>> /\ w \in Range(list)
      /\ Detached = {id} /\ Emptied = {w} /\ Stopping = {}
  BY <1>0, <1>1, <1>2, OnRemoving
<1>4. /\ worker' = [worker EXCEPT ![w] = NoWorker] /\ list' = RemoveFirst(list, w) /\ DestroyWatchdog(w)
      /\ api' = [api EXCEPT !.pc = "drop"] /\ engine' = engine
      /\ stream' = stream /\ hw' = hw /\ crashed' = crashed
  BY <1>1, <1>3 DEF DeleteWorker, Removing
<1>5. /\ api' \in ApiTypes /\ api'.pc = "drop" /\ api'.op = api.op /\ api'.id = id /\ api'.w = w /\ api'.todo = <<>>
  BY <1>1, <1>2, <1>3, <1>4, MovesTo DEF Places
<1>6. Detached' = {id} /\ Emptied' = {} /\ Stopping' = {}
  BY <1>3, <1>5 DEF Detached, Emptied, Stopping
<1>7. NoWorker \in WorkerTypes /\ NoWorker.thread = "none" /\ NoWorker.pc = "top" /\ NoWorker.streams = <<>>
  BY NoWorkerIs
<1>8. worker' \in [Workers -> WorkerTypes] /\ worker'[w] = NoWorker /\ \A v \in Workers : v # w => worker'[v] = worker[v]
  <2>1. worker \in [Workers -> WorkerTypes]
    BY DEF EngineTypes
  <2> QED
    BY <1>4, <1>7, <2>1, Zenon
<1>9. list' \in Seq(Workers) /\ Range(list)' = Range(list) \ {w} /\ IsInjective(list')
  <2>1. list \in Seq(Workers) /\ IsInjective(list)
    BY Zenon DEF EngineTypes, ListInv
  <2> QED
    BY <1>3, <1>4, <2>1, Removed1, Zenon
<1>10. WatchInv' /\ interfaces' = interfaces \ {w}
  BY <1>4, WatchSteps, Zenon DEF Workers
<1>11. /\ Serving(w) = {} /\ Serving(w)' = {} /\ \A v \in Workers : v # w => Serving(v)' = Serving(v)
       /\ ~Alive(w)' /\ \A v \in Workers : Alive(v)' => Alive(v)
       /\ Streams' = Streams
  <2>1. Range(<<>>) = {}
    BY EmptyList
  <2>2. Serving(w) = {} /\ Serving(w)' = {} /\ Streams' = Streams
    BY <1>3, <1>4, <1>7, <1>8, <2>1, Zenon DEF Serving, Streams
  <2>3. ~Alive(w)'
    BY <1>7, <1>8 DEF Alive
  <2> QED
    BY <1>8, <2>2, <2>3, Zenon DEF Serving, Alive
<1>12. EngineTypes'
  BY <1>4, <1>5, <1>8, <1>9, Zenon DEF EngineTypes
<1>13. ServedInv'
  <2>1. \A v \in Workers : \A i \in Serving(v) : i \in Streams /\ i \notin Detached
    BY Zenon DEF ServedInv, ServesOnlyStreams
  <2>2. \A v \in Workers : v # w => \A i \in Serving(v) :
           /\ i \in Streams' /\ i \notin Detached' /\ i \notin Serving(w)'
           /\ stream'[i].dom = stream[i].dom /\ stream'[i].period = stream[i].period
    BY <1>3, <1>4, <1>6, <1>11, <2>1
  <2>3. \A i \in Streams : i \in Detached \/ \E v \in Workers : i \in Serving(v)
    BY Zenon DEF ServedInv, ServedByOne
  <2>4. \A i \in Streams' : i \in Detached' \/ i \in Serving(w)' \/ \E v \in Workers : v # w /\ i \in Serving(v)
    BY <1>3, <1>6, <1>11, <2>3, SMT
  <2>5. IsInjective(worker'[w].streams)
    BY <1>7, <1>8, EmptyList, Zenon
  <2>6. \A i \in Serving(w)' : i \in Streams' /\ i \notin Detached' /\ Matches(w, stream[i].dom, stream[i].period)'
    BY <1>11
  <2> QED
    BY <1>8, <2>2, <2>4, <2>5, <2>6, ServedFrom, Zenon
<1>14. ListInv'
  <2>1. \A v \in Workers \ Range(list)' : worker'[v] = NoWorker
    BY <1>8, <1>9, Zenon DEF ListInv
  <2>2. \A v \in Range(list)' : worker'[v].streams # <<>>
    <3>1. Range(list) \subseteq Workers /\ \A v \in Range(list) : v # w => worker[v].streams # <<>>
      BY <1>3, CalledWorker DEF ListInv
    <3> QED
      BY <1>8, <1>9, <3>1
  <2>3. interfaces' \subseteq Range(list)'
    BY <1>9, <1>10 DEF ListInv
  <2> QED
    BY <1>9, <2>1, <2>2, <2>3, Zenon DEF ListInv
<1>15. ThreadInv'
  <2>1. ThreadOK(w)'
    BY <1>7, <1>8, <1>11 DEF ThreadOK
  <2>2. \A v \in Workers : v # w => \A i \in Serving(v) : stream'[i].active => stream[i].active
    BY <1>4, Zenon
  <2> QED
    BY <1>3, <1>6, <1>8, <2>1, <2>2, ThreadsFrom
<1>16. StartedInv'
  BY <1>3, <1>4, <1>5, <1>11 DEF StartedInv, Removing
<1>17. PlaceInv'
  <2>1. Range(<<>>) = {} /\ IsInjective(<<>>)
    BY EmptyList
  <2>2. Range(api'.todo) = {} /\ IsInjective(api'.todo)
    BY <1>5, <2>1, Zenon
  <2>3. api'.id \in Streams' /\ api'.op \in Removing
    BY <1>3, <1>5, <1>11, Zenon
  <2> HIDE DEF AInv
  <2> QED
    BY <1>5, <2>2, <2>3, SMT DEF PlaceInv
<1>18. HandledInv'
  BY <1>5 DEF HandledInv
<1>19. CleanInv'
  <2>1. NoneConnected'
    BY <1>4, <1>5, <1>11, Zenon DEF CleanInv, NoneConnected
  <2>2. engine.init
    BY <1>0, InitialisedInCall
  <2> QED
    BY <1>4, <1>11, <2>1, <2>2, Zenon DEF CleanInv, NothingLeft, HwOfStreams
<1> QED
  BY <1>10, <1>12, <1>13, <1>14, <1>15, <1>16, <1>17, <1>18, <1>19, Zenon

\* The call that goes on with the next stream.
LEMMA AfterDropIs ==
  ASSUME api' = AfterDrop, PlaceInv
  PROVE  /\ api' \in ApiTypes /\ PlaceInv' /\ HandledInv' /\ Detached' = {} /\ Emptied' = {} /\ Stopping' = {} /\ Pending' = {}
         /\ \/ api'.op = "none"
            \/ api.op = "purge" /\ api'.op = "cleanup"
<1>1. CASE api.op # "purge"
  BY <1>1, CallOver, IdleIs DEF AfterDrop
<1>2. CASE api.op = "purge"
  <2> DEFINE c == [pc |-> "next", op |-> "cleanup", id |-> 0, w |-> 0, todo |-> <<>>]
  <2>1. api' = c
    BY <1>2, Zenon DEF AfterDrop, Idle
  <2>2. c \in ApiTypes /\ c.pc = "next" /\ c.op = "cleanup" /\ c.w = 0 /\ c.todo = <<>>
    <3>1. "next" \in Places /\ "cleanup" \in Operations /\ 0 \in Ids \cup {0} /\ 0 \in Workers \cup {0} /\ <<>> \in Seq(Workers)
      BY SMT DEF Places, Operations
    <3>2. c \in ApiTypes
      BY <3>1, SMT DEF ApiTypes
    <3> QED
      BY <3>2
  <2> HIDE DEF c
  <2>3. api' \in ApiTypes /\ api'.pc = "next" /\ api'.op = "cleanup" /\ api'.w = 0 /\ api'.todo = <<>>
    BY <2>1, <2>2, Zenon
  <2>4. Detached' = {} /\ Emptied' = {} /\ Stopping' = {} /\ Pending' = {}
    BY <2>3 DEF Detached, Emptied, Stopping, Pending, Removing
  <2>5. PlaceInv'
    <3>1. Range(<<>>) = {} /\ IsInjective(<<>>)
      BY EmptyList
    <3>2. Range(api'.todo) = {} /\ IsInjective(api'.todo)
      BY <2>3, <3>1, Zenon
    <3>3. /\ Range(api'.todo) \subseteq Range(list)' /\ api'.w \notin Range(api'.todo)
          /\ api'.pc = "next" /\ api'.op = "cleanup"
      BY <2>3, <3>2
    <3> QED
      BY <3>2, <3>3 DEF PlaceInv
  <2>6. HandledInv'
    BY <2>3 DEF HandledInv
  <2> QED
    BY <1>2, <2>3, <2>4, <2>5, <2>6
<1> QED
  BY <1>1, <1>2

\* The stream is deleted.
LEMMA DropKeeps ==
  ASSUME AInv, ~killed, DropStream \/ DropJoins
  PROVE  AInv'
<1> USE DEF AInv
<1>0. api.pc \in {"drop", "drop join"}
  BY DEF DropStream, DropJoins
<1>1. PICK id \in Ids : id = api.id
  BY <1>0, OnRemoving
<1>2. id \in Streams /\ api.op \in Removing /\ Detached = {id} /\ Emptied = {} /\ Stopping = {}
  BY <1>0, <1>1, OnRemoving
<1>3. /\ stream' = [stream EXCEPT ![id] = NoStream] /\ hw' = [hw EXCEPT ![id] = "off"] /\ api' = AfterDrop
      /\ engine' = engine /\ worker' = worker /\ list' = list /\ crashed' = crashed /\ UNCHANGED wdVars
  BY <1>1, Zenon DEF DropStream, DropJoins
<1>4. /\ api' \in ApiTypes /\ PlaceInv' /\ HandledInv' /\ Detached' = {} /\ Emptied' = {} /\ Stopping' = {} /\ Pending' = {}
      /\ api'.op = "none" \/ (api.op = "purge" /\ api'.op = "cleanup")
  BY <1>3, AfterDropIs
<1>5. NoStream \in StreamTypes /\ NoStream.kind = "none"
  BY NoStreamIs
<1>6. stream' \in [Ids -> StreamTypes] /\ stream'[id] = NoStream /\ \A i \in Ids : i # id => stream'[i] = stream[i]
  <2>1. stream \in [Ids -> StreamTypes]
    BY DEF EngineTypes
  <2> QED
    BY <1>3, <1>5, <2>1, Zenon
<1>7. Streams' = Streams \ {id}
  BY <1>5, <1>6, SMT DEF Streams
<1>8. WatchInv' /\ interfaces' = interfaces
  BY <1>3, WatchSteps, Zenon
<1>9. /\ hw' \in [Ids -> {"off", "on", "stopping", "gone"}] /\ hw'[id] = "off" /\ \A i \in Ids : i # id => hw'[i] = hw[i]
  BY <1>3 DEF EngineTypes
<1>10. EngineTypes'
  BY <1>3, <1>4, <1>6, <1>9, Zenon DEF EngineTypes
<1>11. \A v \in Workers : /\ Serving(v)' = Serving(v) /\ (Alive(v)' <=> Alive(v)) /\ worker'[v] = worker[v]
                          /\ \A i \in Serving(v) : i \in Streams /\ i # id /\ i \in Ids /\ stream'[i] = stream[i]
  <2>1. \A v \in Workers : \A i \in Serving(v) : i \in Streams /\ i # id /\ i \in Ids
    BY <1>2 DEF ServedInv, ServesOnlyStreams, Streams
  <2> QED
    BY <1>3, <1>6, <2>1, Zenon DEF Serving, Alive
<1>12. ServedInv'
  <2>1. ServesOnlyStreams'
    <3> SUFFICES ASSUME NEW v \in Workers, NEW i \in Serving(v)'
                 PROVE  i \in Streams' /\ i \notin Detached' /\ Matches(v, stream[i].dom, stream[i].period)'
      BY Zenon DEF ServesOnlyStreams
    <3>1. i \in Serving(v) /\ i \in Streams /\ i # id /\ stream'[i] = stream[i]
      BY <1>11, Zenon
    <3>2. Matches(v, stream[i].dom, stream[i].period)
      BY <3>1, Zenon DEF ServedInv, ServesOnlyStreams
    <3>3. Matches(v, stream[i].dom, stream[i].period)'
      BY <1>3, <3>1, <3>2, Zenon DEF Matches
    <3> QED
      BY <1>4, <1>7, <3>1, <3>3
  <2>2. \A i \in Streams' : \E v \in Workers : i \in Serving(v)'
    <3>1. \A i \in Streams : i \in {id} \/ \E v \in Workers : i \in Serving(v)
      BY <1>2, Zenon DEF ServedInv, ServedByOne
    <3> QED
      BY <1>7, <1>11, <3>1, SMT
  <2>3. /\ \A u, v \in Workers : \A i \in Serving(u)' \cap Serving(v)' : u = v
        /\ \A v \in Workers : IsInjective(worker'[v].streams)
    BY <1>3, <1>11, Zenon DEF ServedInv, ServedByOne
  <2> QED
    BY <2>1, <2>2, <2>3, Zenon DEF ServedInv, ServedByOne
<1>13. ListInv'
  BY <1>2, <1>3, <1>4, <1>8, Zenon DEF ListInv
<1>14. ThreadInv'
  <2>1. \A v \in Workers : ThreadOK(v)'
    BY <1>2, <1>4, <1>11, ThreadKept, Zenon DEF ThreadInv
  <2> QED
    BY <2>1, Zenon DEF ThreadInv
<1>15. engine.init
  BY <1>0, InitialisedInCall
<1>16. CleanInv'
  <2>1. NoneConnected'
    <3>1. api.op = "purge" => \A i \in Streams' : ~stream'[i].connected
      BY <1>6, <1>7 DEF CleanInv, NoneConnected, Streams
    <3> QED
      BY <1>4, <3>1 DEF NoneConnected
  <2> QED
    BY <1>3, <1>7, <1>9, <1>15, <2>1 DEF CleanInv, NothingLeft, HwOfStreams
<1>17. StartedInv'
  <2>1. api.op = "purge" => \A v \in Workers : ~Alive(v)
    BY DEF StartedInv
  <2>2. ~engine.started => \A v \in Workers : ~Alive(v)
    BY <1>2 DEF StartedInv, Removing
  <2> QED
    BY <1>3, <1>4, <1>11, <2>1, <2>2 DEF StartedInv
<1> QED
  BY <1>4, <1>8, <1>10, <1>12, <1>13, <1>14, <1>16, <1>17, Zenon

\* A stream is to be removed.
LEMMA DestroyCallKeeps ==
  ASSUME AInv, ~killed, (\E id \in Ids : DestroyAlsaStream(id)) \/ CleanupDestroys
  PROVE  AInv'
<1>1. CASE \E id \in Ids : DestroyAlsaStream(id)
  <2>1. PICK id \in Ids : DestroyAlsaStream(id)
    BY <1>1
  <2>2. /\ id \in Streams /\ "destroy" \in Removing /\ api = Idle /\ engine.init
        /\ UNCHANGED <<engine, stream, hw, worker, list, crashed, wdVars>>
        /\ api' = [Idle EXCEPT !.pc = "remove", !.op = "destroy", !.id = id, !.w = WorkerOf(id)]
    BY <2>1, Zenon DEF DestroyAlsaStream, Removing
  <2> QED
    BY <2>2, DestroyKeeps, Zenon
<1>2. CASE CleanupDestroys
  <2>1. PICK id \in Streams : id = NextToDestroy
    BY <1>2, NextIsStream, Zenon DEF CleanupDestroys, Destroyable
  <2>2. api.pc = "next"
    BY <1>2, Zenon DEF CleanupDestroys
  <2>3. engine.init
    BY <2>2, InitialisedInCall
  <2>4. /\ "purge" \in Removing /\ UNCHANGED <<engine, stream, hw, worker, list, crashed, wdVars>>
        /\ api' = [Idle EXCEPT !.pc = "remove", !.op = "purge", !.id = id, !.w = WorkerOf(id)]
    BY <1>2, <2>1, Zenon DEF CleanupDestroys, Removing
  <2> QED
    BY <2>2, <2>3, <2>4, DestroyKeeps, Zenon
<1> QED
  BY <1>1, <1>2

\* cleanup() has destroyed all streams.
LEMMA ClearsKeeps ==
  ASSUME AInv, ~killed, CleanupClears
  PROVE  AInv'
<1> USE DEF AInv
<1>1. api.pc = "next" /\ api.op = "cleanup"
  BY DEF CleanupClears, PlaceInv
<1>2. Detached = {} /\ Emptied = {} /\ Stopping = {}
  BY <1>1 DEF Detached, Emptied, Stopping, Removing
<1>3. Streams = {}
  <2>1. \A id \in Streams : ~stream[id].connected
    BY <1>1 DEF CleanInv, NoneConnected
  <2>2. ~(Streams # {} /\ ~stream[NextToDestroy].connected)
    BY Zenon DEF CleanupClears, Destroyable
  <2> QED
    BY <2>1, <2>2, NextIsStream, Zenon
<1>4. list = <<>> /\ \A w \in Workers : worker[w] = NoWorker
  <2>1. \A w \in Workers : Serving(w) = {}
    BY <1>3 DEF ServedInv, ServesOnlyStreams
  <2>2. \A w \in Workers : worker[w].streams = <<>>
    <3> SUFFICES ASSUME NEW w \in Workers PROVE worker[w].streams = <<>>
      OBVIOUS
    <3>1. worker[w].streams \in Seq(Ids)
      BY DEF EngineTypes, WorkerTypes
    <3>2. Range(worker[w].streams) = {}
      BY <2>1, Zenon DEF Serving
    <3> QED
      BY <3>1, <3>2, RangeIs
  <2>3. Range(list) \subseteq Workers /\ list \in Seq(Workers)
    BY CalledWorker DEF EngineTypes
  <2>4. Range(list) = {}
    BY <1>2, <2>2, <2>3 DEF ListInv
  <2>5. list = <<>>
    BY <2>3, <2>4, RangeIs
  <2> QED
    BY <2>4, <2>5 DEF ListInv
<1>5. /\ stream' = [i \in Ids |-> NoStream] /\ api' = Idle /\ engine' = [init |-> FALSE, started |-> FALSE]
      /\ hw' = hw /\ worker' = worker /\ list' = list /\ crashed' = crashed /\ UNCHANGED wdVars
  BY <1>4, Zenon DEF CleanupClears, AllWorkers
<1>6. /\ api' \in ApiTypes /\ PlaceInv' /\ HandledInv' /\ NoneConnected' /\ Detached' = {} /\ Emptied' = {} /\ Stopping' = {}
  BY <1>5, CallOver
<1>7. stream' \in [Ids -> StreamTypes] /\ Streams' = {}
  BY <1>5, NoStreamIs DEF Streams
<1>8. engine' \in [init : BOOLEAN, started : BOOLEAN] /\ ~engine'.init /\ ~engine'.started
  BY <1>5
<1>9. WatchInv' /\ interfaces' = interfaces
  BY <1>5, WatchSteps, Zenon
<1>10. EngineTypes'
  BY <1>5, <1>6, <1>7, <1>8, Zenon DEF EngineTypes
<1>11. \A w \in Workers : Serving(w)' = {} /\ ~Alive(w)' /\ worker'[w].pc = "top" /\ worker'[w].streams = <<>>
  BY <1>4, <1>5, EmptyList DEF Serving, Alive, NoWorker
<1>12. ServedInv'
  BY <1>7, <1>11, EmptyList DEF ServedInv, ServesOnlyStreams, ServedByOne
<1>13. ListInv'
  BY <1>2, <1>5, <1>6, <1>9, Zenon DEF ListInv
<1>14. ThreadInv'
  BY <1>11 DEF ThreadInv, ThreadOK
<1>15. StartedInv'
  BY <1>5, <1>11, IdleIs DEF StartedInv
<1>16. CleanInv'
  BY <1>3, <1>4, <1>5, <1>6, <1>7, <1>8 DEF CleanInv, NothingLeft, HwOfStreams
<1> QED
  BY <1>6, <1>9, <1>10, <1>12, <1>13, <1>14, <1>15, <1>16, Zenon

\* The invariant holds at the start.
LEMMA AInvInit == Init => AInv
<1> SUFFICES ASSUME Init PROVE AInv
  OBVIOUS
<1>1. /\ engine = [init |-> FALSE, started |-> FALSE] /\ stream = [id \in Ids |-> NoStream]
      /\ hw = [id \in Ids |-> "off"] /\ worker = [w \in Workers |-> NoWorker]
      /\ list = <<>> /\ api = Idle /\ crashed = FALSE /\ InitWatchdog
  BY DEF Init
<1>2. NoStream \in StreamTypes /\ NoStream.kind = "none"
  BY NoStreamIs
<1>3. NoWorker \in WorkerTypes /\ NoWorker.thread = "none" /\ NoWorker.pc = "top" /\ NoWorker.streams = <<>>
  BY NoWorkerIs
<1>4. stream \in [Ids -> StreamTypes] /\ Streams = {}
  BY <1>1, <1>2 DEF Streams
<1>5. worker \in [Workers -> WorkerTypes] /\ \A w \in Workers : worker[w] = NoWorker
  BY <1>1, <1>3, Zenon
<1>6. engine \in [init : BOOLEAN, started : BOOLEAN] /\ ~engine.init /\ ~engine.started /\ list \in Seq(Workers)
  BY <1>1
<1>7. /\ Idle \in ApiTypes /\ api.pc = "idle" /\ api.op = "none" /\ api.todo = <<>>
      /\ Detached = {} /\ Emptied = {} /\ Stopping = {} /\ Pending = {}
  BY <1>1, IdleIs
<1>8. EngineTypes
  BY <1>1, <1>4, <1>5, <1>6, <1>7 DEF EngineTypes
<1>9. Range(<<>>) = {} /\ IsInjective(<<>>)
  BY EmptyList
<1>10. \A w \in Workers : Serving(w) = {} /\ ~Alive(w) /\ worker[w].pc = "top" /\ worker[w].streams = <<>>
  BY <1>3, <1>5, <1>9 DEF Serving, Alive
<1>11. ServedInv
  BY <1>4, <1>9, <1>10 DEF ServedInv, ServesOnlyStreams, ServedByOne
<1>12. WatchInv /\ interfaces = {}
  <2>1. due \in [Clients -> {Unarmed} \union 0 .. Limit]
    BY <1>1 DEF InitWatchdog
  <2>2. enabled \in BOOLEAN /\ killed \in BOOLEAN
    BY <1>1, Zenon DEF InitWatchdog
  <2>3. /\ interfaces = {} /\ registered = {} /\ sleep \in 0 .. Interval
        /\ silence \in 0 .. Limit /\ silence < Limit
    BY <1>1, WatchdogConstants, SMT DEF InitWatchdog
  <2> QED
    BY <2>1, <2>2, <2>3, Zenon DEF WatchInv, WatchdogTypeOK
<1>13. ListInv
  BY <1>1, <1>5, <1>9, <1>12 DEF ListInv
<1>14. ThreadInv
  BY <1>10 DEF ThreadInv, ThreadOK
<1>15. StartedInv
  BY <1>7, <1>10 DEF StartedInv
<1>16. PlaceInv
  BY <1>1, <1>7, <1>9 DEF PlaceInv, Idle
<1>17. HandledInv
  BY <1>7 DEF HandledInv
<1>18. CleanInv
  BY <1>1, <1>4, <1>6, <1>7 DEF CleanInv, NoneConnected, NothingLeft, HwOfStreams
<1> QED
  BY <1>8, <1>11, <1>12, <1>13, <1>14, <1>15, <1>16, <1>17, <1>18 DEF AInv

----------------------------------------------------------------------------
(* The specification                                                       *)

\* Every step keeps the invariant.
LEMMA AInvNext ==
  ASSUME AInv, [Next]_vars, {"start", "diagnosis", "restart", "connected"} \subseteq Assume
  PROVE  AInv'
<1>0. "start" \in Assume /\ "diagnosis" \in Assume /\ "restart" \in Assume /\ "connected" \in Assume
  OBVIOUS
<1>1. CASE UNCHANGED vars
  <2>1. UNCHANGED engineVars /\ UNCHANGED wdVars
    BY <1>1, Zenon DEF vars
  <2> QED
    BY <2>1, TimeKeeps, Zenon
<1>2. CASE Next
  <2>0. ~killed
    BY <1>2, Zenon DEF Next
  <2>1. CASE ApiStep
    <3>1. CASE AddAlsaStream
      BY <1>0, <2>0, <3>1, AddKeeps, Zenon
    <3>2. CASE StartWorker
      BY <1>0, <2>0, <3>2, StartWorkerKeeps, Zenon
    <3>3. CASE ThreadStarts
      BY <2>0, <3>3, ThreadStartsKeeps, Zenon
    <3>4. CASE ThreadFails
      BY <1>0, <2>0, <3>4, ThreadFailsKeeps, Zenon
    <3>5. CASE StopWorker
      BY <2>0, <3>5, StopWorkerKeeps, Zenon
    <3>6. CASE StopIdleWorker
      BY <2>0, <3>6, StopIdleWorkerKeeps, Zenon
    <3>7. CASE Join
      BY <2>0, <3>7, JoinKeeps, Zenon
    <3>8. CASE RemoveAlsaStream
      BY <1>0, <2>0, <3>8, RemoveKeeps, Zenon
    <3>9. CASE DeleteWorker
      BY <2>0, <3>9, DeleteKeeps, Zenon
    <3>10. CASE DropStream \/ DropJoins
      BY <2>0, <3>10, DropKeeps, Zenon
    <3>11. CASE DropStopsHw
      <4>1. PICK id \in Ids : id = api.id
        BY <3>11, OnRemoving DEF DropStopsHw, AInv
      <4> QED
        BY <2>0, <3>11, <4>1, HwStepKeeps, Zenon
    <3>12. CASE CleanupDestroys
      BY <2>0, <3>12, DestroyCallKeeps, Zenon
    <3>13. CASE CleanupClears
      BY <2>0, <3>13, ClearsKeeps, Zenon
    <3> QED
      BY <2>1, <3>1, <3>2, <3>3, <3>4, <3>5, <3>6, <3>7, <3>8, <3>9, <3>10, <3>11, <3>12, <3>13, Zenon DEF ApiStep
  <2>2. CASE ApiCall
    <3>1. CASE InitEngine
      BY <2>0, <3>1, InitEngineKeeps, Zenon
    <3>2. CASE StartEngine
      BY <2>0, <3>2, StartEngineKeeps, Zenon
    <3>3. CASE StopEngine
      BY <2>0, <3>3, StopEngineKeeps, Zenon
    <3>4. CASE Cleanup
      BY <1>0, <2>0, <3>4, CleanupKeeps, Zenon
    <3>5. CASE \E id \in Ids : \E kind \in {"virtual", "hw"} : \E dom \in Domains : \E period \in Periods :
                 CreateForWorker(id, kind, dom, period) \/ CreateWithWorker(id, kind, dom, period)
      <4>1. PICK id \in Ids, kind \in StreamKinds, dom \in Domains, period \in Periods :
              CreateForWorker(id, kind, dom, period) \/ CreateWithWorker(id, kind, dom, period)
        BY <3>5, Zenon DEF StreamKinds
      <4> QED
        BY <2>0, <4>1, CreateForWorkerKeeps, CreateWithWorkerKeeps, Zenon
    <3>6. CASE \E id \in Ids : DestroyAlsaStream(id)
      BY <2>0, <3>6, DestroyCallKeeps, Zenon
    <3>7. CASE \E id \in Ids : \E connected \in BOOLEAN : SetConnected(id, connected)
      BY <2>0, <3>7, SetConnectedKeeps, Zenon
    <3> QED
      BY <2>2, <3>1, <3>2, <3>3, <3>4, <3>5, <3>6, <3>7, Zenon DEF ApiCall
  <2>3. CASE \E w \in Workers : WorkerStep(w) \/ ClockFails(w) \/ Hang(w)
    BY <2>0, <2>3, WorkerStepKeeps, Zenon
  <2>4. CASE \E id \in Ids : HwEnds(id)
    BY <2>0, <2>4, HwStepKeeps, Zenon
  <2>5. CASE (NotifyTimedOut \/ Tick) /\ UNCHANGED engineVars
    BY <2>0, <2>5, TimeKeeps, Zenon
  <2> QED
    BY <1>2, <2>1, <2>2, <2>3, <2>4, <2>5, Zenon DEF Next
<1> QED
  BY <1>1, <1>2, Zenon

----------------------------------------------------------------------------
\* Between two calls every stream has its worker, and only that.
LEMMA AInvServes ==
  ASSUME AInv, api = Idle, NEW id \in Ids
  PROVE  /\ id \in Streams => \E w \in Range(list) : /\ id \in Range(worker[w].streams)
                                                     /\ Matches(w, stream[id].dom, stream[id].period)
         /\ Cardinality({w \in Workers : id \in Range(worker[w].streams)}) = IF id \in Streams THEN 1 ELSE 0
<1> USE DEF AInv
<1>1. Detached = {}
  BY IdleIs
<1>2. CASE id \in Streams
  <2>1. PICK w \in Workers : id \in Serving(w)
    BY <1>1, <1>2, Zenon DEF ServedInv, ServedByOne
  <2>2. Matches(w, stream[id].dom, stream[id].period)
    BY <2>1, Zenon DEF ServedInv, ServesOnlyStreams
  <2>3. w \in Range(list)
    <3>1. worker[w].streams # <<>>
      BY <2>1, EmptyList DEF Serving
    <3> QED
      BY <3>1 DEF ListInv, NoWorker
  <2>4. {v \in Workers : id \in Range(worker[v].streams)} = {w}
    <3>1. \A v \in Workers : id \in Serving(v) => v = w
      BY <2>1, Zenon DEF ServedInv, ServedByOne
    <3>2. id \in Range(worker[w].streams) /\ \A v \in Workers : id \in Range(worker[v].streams) => v = w
      BY <2>1, <3>1, Zenon DEF Serving
    <3> QED
      BY <3>2
  <2>5. Cardinality({w}) = 1
    BY FS_Singleton
  <2> QED
    BY <1>2, <2>1, <2>2, <2>3, <2>4, <2>5, Zenon DEF Serving
<1>3. CASE id \notin Streams
  <2>1. \A w \in Workers : id \notin Serving(w)
    BY <1>3, Zenon DEF ServedInv, ServesOnlyStreams
  <2>2. {v \in Workers : id \in Range(worker[v].streams)} = {}
    BY <2>1, Zenon DEF Serving
  <2>3. Cardinality({}) = 0
    BY FS_EmptySet
  <2> QED
    BY <1>3, <2>2, <2>3
<1> QED
  BY <1>2, <1>3

\* What the run checks follows from the invariant.
LEMMA AInvLists == AInv => ListsExact
<1> SUFFICES ASSUME AInv PROVE ListsExact
  OBVIOUS
<1> USE DEF AInv
<1>0. Range(list) \subseteq Workers
  BY CalledWorker
<1>1. TypeOK
  <2>1. \A id \in Ids : stream[id].kind \in {"none", "virtual", "hw"}
    BY Zenon DEF EngineTypes, StreamTypes
  <2>2. \A w \in Workers : worker[w].streams \in Seq(Ids) /\ worker[w].thread \in {"none", "alive", "leaving", "gone"}
    BY Zenon DEF EngineTypes, WorkerTypes
  <2> QED
    BY <1>0, <2>1, <2>2, Zenon DEF TypeOK, EngineTypes, WatchInv
<1>2. ~crashed
  BY DEF EngineTypes
<1>3. ASSUME api = Idle
      PROVE  \A w \in Workers : IF w \in Range(list) THEN worker[w].streams # <<>> ELSE worker[w] = NoWorker
  <2>1. Emptied = {}
    BY <1>3, IdleIs
  <2> QED
    BY <2>1 DEF ListInv
<1>4. ~engine.init => /\ list = <<>> /\ interfaces = {} /\ \A w \in Workers : worker[w] = NoWorker
                      /\ \A id \in Ids : hw[id] = "off"
  <2>1. ~engine.init => list = <<>> /\ Streams = {}
    BY DEF CleanInv, NothingLeft
  <2> QED
    BY <2>1, EmptyList DEF CleanInv, HwOfStreams, ListInv
<1> QED
  BY <1>1, <1>2, <1>3, <1>4, AInvServes, Zenon DEF ListsExact

\* So does what the streams are told.
LEMMA AInvActive == AInv => ActiveMeansServed
<1> SUFFICES ASSUME AInv, api = Idle
             PROVE  /\ \A id \in Streams : stream[id].active =>
                         (worker[WorkerOf(id)].thread = "alive" /\ worker[WorkerOf(id)].keep) \/ worker[WorkerOf(id)].failed
                    /\ ~engine.started => \A w \in Workers : worker[w].thread # "alive"
  BY Zenon DEF ActiveMeansServed
<1> USE DEF AInv
<1>1. Detached = {} /\ api.op = "none"
  BY IdleIs
<1>2. \A id \in Streams : stream[id].active => Kept(WorkerOf(id))
  <2> SUFFICES ASSUME NEW id \in Streams, stream[id].active PROVE Kept(WorkerOf(id))
    OBVIOUS
  <2>1. PICK w \in Workers : w = WorkerOf(id) /\ id \in Serving(w)
    BY <1>1, WorkerOfServes, Zenon
  <2> QED
    BY <2>1, Zenon DEF ThreadInv, ThreadOK
<1>3. ~engine.started => \A w \in Workers : ~Alive(w)
  BY <1>1 DEF StartedInv
<1> QED
  BY <1>2, <1>3, Zenon DEF Kept, Alive

----------------------------------------------------------------------------
\* The invariant always holds.
LEMMA AInvAlways == {"start", "diagnosis", "restart", "connected"} \subseteq Assume => (Spec => []AInv)
<1> SUFFICES ASSUME {"start", "diagnosis", "restart", "connected"} \subseteq Assume PROVE Spec => []AInv
  OBVIOUS
<1>1. Init => AInv
  BY AInvInit
<1>2. AInv /\ [Next]_vars => AInv'
  BY AInvNext
<1> QED
  BY <1>1, <1>2, PTL DEF Spec

\* Between two calls every stream is served by exactly one worker, of its clock domain and with a
\* period that divides its own, every worker has a stream, and nothing that has been deleted is used:
\* createAlsaStream(), destroyAlsaStream(), start(), stop() and cleanup() with every worker in any place.
THEOREM ListsStayExact == {"start", "diagnosis", "restart", "connected"} \subseteq Assume => (Spec => []ListsExact)
<1>1. AInv => ListsExact
  BY AInvLists
<1> QED
  BY <1>1, AInvAlways, PTL

\* Between two calls a stream that is told that its worker is active is one of a worker whose thread is
\* in its loop and will stay there, or has ended by itself; without start() no worker's thread runs.
THEOREM ActiveIsServed == {"start", "diagnosis", "restart", "connected"} \subseteq Assume => (Spec => []ActiveMeansServed)
<1>1. AInv => ActiveMeansServed
  BY AInvActive
<1> QED
  BY <1>1, AInvAlways, PTL
=============================================================================
