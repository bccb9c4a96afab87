------------------------- MODULE EncoderLocksProofs --------------------------
(***************************************************************************)
(* That the locks of the streamer are taken in one order, and what follows   *)
(* from it, for any number of tracks, callers, encoders and operations.      *)
(*                                                                         *)
(* What a thread has still to do is a path: there is a point (the locks held *)
(* there, and whether the streamer is known to be disposed of) in front of   *)
(* each of its steps such that every step may be done at the point before    *)
(* it and leads to the one after it, down to a point without locks.          *)
(***************************************************************************)
EXTENDS EncoderLocks, SequenceTheorems, FiniteSetTheorems, WellFoundedInduction, TLAPS

-----------------------------------------------------------------------------
(* Every lock has a rank; but for the request of a callback a thread takes   *)
(* only locks above those it holds.                                          *)
Kinds == {"lifecycle", "relay", "stream", "encode", "mutex"}
Locks == {l \in Kinds \X Nat \X Nat : l[1] = "encode" => l[2] \in Tracks}

Top == 3 + TrackCount
Rank(l) ==
  CASE l[1] = "lifecycle" -> 0
    [] l[1] = "relay" -> 1
    [] l[1] = "stream" -> 2
    [] l[1] = "encode" -> 2 + l[2]
    [] OTHER -> Top

HoldsIn(locks, l) == \E i \in 1 .. Len(locks) : locks[i] = l
HasMutex(locks) == \E i \in 1 .. Len(locks) : locks[i][1] = "mutex"
Below(locks, r) == \A i \in 1 .. Len(locks) : Rank(locks[i]) < r

(* A point of an operation: the locks held there, and whether the streamer is *)
(* known to be disposed of.                                                  *)
Points == [locks : Seq(Locks), over : BOOLEAN]
Point(locks, over) == [locks |-> locks, over |-> over]

Verbs == {"enter", "exit", "call", "create", "null", "frame", "ensure", "deliver", "set", "over",
          "each", "native", "close", "delete"}
LoopNames == {"Initialize", "Invalidate", "Flush", "Dispose", "SetBitrate", "SetFps", "Refused",
              "Request", "Stop"}
CallNames == {"Encode", "SetBitrate", "SetFps", "Flush", "Dispose"}
ModeNames == {"relay", "workers", "disposed", "tracks"}
Names == Kinds \cup LoopNames \cup CallNames \cup ModeNames
         \cup {"encoder", "frame", "closed", "freed"}
Steps == [do : Verbs, name : Names, track : Nat, number : Nat]
         \cup [do : Verbs, name : Names, rest : SUBSET Tracks]

(* The point after l has been taken at p.                                    *)
Held(p, l) == Point(Append(p.locks, l), p.over)

(* The encoder of t may be disposed of at p.                                 *)
Safe(p, t) == p.over \/ HoldsIn(p.locks, EncodeLock(t))
AllFrozen(p) == \A t \in Tracks : HoldsIn(p.locks, EncodeLock(t))

(* A loop may go on at p with the tracks of T.                               *)
LoopLimit(name) ==
  CASE name \in {"Request", "SetFps"} -> 2
    [] name \in {"Flush", "Dispose"} -> Top
    [] OTHER -> 3

MayLoop(p, name, T) ==
  /\ name \in LoopNames
  /\ name = "Dispose" => p.over
  /\ IF name = "Stop"
     THEN /\ \A u \in T : Below(p.locks, 2 + u)
          /\ \A u \in Tracks \ T : HoldsIn(p.locks, EncodeLock(u))
          /\ Below(p.locks, Top)
     ELSE Below(p.locks, LoopLimit(name))

(* What a step needs at the point a and what it makes of it.                 *)
MayTake(p, l) == Below(p.locks, Rank(l)) \/ (l = StreamLock /\ HasMutex(p.locks))
MayCall(p, name, t) == t \in Tracks /\ Below(p.locks, Top) /\ (name = "Dispose" => Safe(p, t))
MayEncode(p, t) == t \in Tracks /\ Below(p.locks, Top) /\ HoldsIn(p.locks, EncodeLock(t))
MaySet(p, name, number) ==
  /\ name \in ModeNames
  /\ name = "relay" /\ number # 1 => Below(p.locks, Top) /\ (p.over \/ AllFrozen(p))
  /\ name = "tracks" => p.over
  /\ name = "disposed" => number = 1

Effect(a, step, b) ==
  \/ /\ step.do = "enter" /\ LockOf(step) \in Locks /\ MayTake(a, LockOf(step))
     /\ b = Held(a, LockOf(step))
  \/ step.do = "exit" /\ LockOf(step) \in Locks /\ a = Held(b, LockOf(step))
  \/ step.do = "call" /\ MayCall(a, step.name, step.track) /\ b = a
  \/ step.do \in {"create", "null"} /\ step.track \in Tracks /\ b = a
  \/ step.do \in {"frame", "ensure"} /\ MayEncode(a, step.track) /\ b = a
  \/ step.do = "deliver" /\ step.track \in Tracks /\ HasMutex(a.locks) /\ b = a
  \/ /\ step.do = "set" /\ MaySet(a, step.name, step.number)
     /\ b = Point(a.locks, a.over \/ step.name = "disposed")
  \/ /\ step.do = "over" /\ MayLoop(b, step.name, Tracks)
     /\ a = IF step.name \in Copied THEN Held(b, StreamLock) ELSE b
  \/ /\ step.do = "each" /\ step.rest # {} /\ step.rest \in SUBSET Tracks
     /\ MayLoop(a, step.name, step.rest) /\ b = a

(* The steps s lead from the point a to the point b.                         *)
Leads(L, s) == \A i \in 1 .. Len(s) : Effect(L[i], s[i], L[i + 1])
Fragment(a, s, b) ==
  /\ s \in Seq(Steps)
  /\ \E L \in [1 .. Len(s) + 1 -> Points] : L[1] = a /\ L[Len(s) + 1] = b /\ Leads(L, s)

(* They lead from it to the end of an operation, where no lock is held.      *)
Ends(a, s) == \E over \in BOOLEAN : Fragment(a, s, Point(<< >>, over))

-----------------------------------------------------------------------------
(* The steps inside a native function are only ever the first of a thread.   *)
Serving == {"native", "close", "delete"}
Serves(s) == s # << >> /\ s[1].do \in Serving

MayServe(p, step) ==
  /\ step.track \in Tracks /\ Below(p.locks, Top)
  /\ step.do \in {"close", "delete"} => Safe(p, step.track) /\ step.name \in {"closed", "freed"}

(* A thread that stands at p may do the steps s.                             *)
Stands(p, s) ==
  IF Serves(s) THEN MayServe(p, s[1]) /\ Ends(p, Tail(s)) ELSE Ends(p, s)

(* The encoder of a native function is one that has been made; with the      *)
(* EncodeLock held it has not been destroyed.                                *)
Meets(p, step, made) ==
  /\ step.number \in 1 .. Len(made[step.track])
  /\ step.do # "delete" /\ ~ p.over /\ HoldsIn(p.locks, EncodeLock(step.track)) =>
       made[step.track][step.number] \in {"live", "disposing"}

Now(th) == Point(held[th], mode.disposed)

Queues == todo \in [Threads -> Seq(Steps)] /\ held \in [Threads -> Seq(Locks)]

Encoders ==
  /\ encoder \in [Tracks -> 0 .. MaxEncoders] /\ context \in [Tracks -> Seq(States)]
  /\ \A t \in Tracks : encoder[t] <= Len(context[t]) /\ Len(context[t]) <= MaxEncoders
  /\ tracks \in {{}, Tracks} /\ calls \in 0 .. MaxCalls
  /\ mode \in [relay : BOOLEAN, workers : BOOLEAN, disposed : BOOLEAN]
  /\ tracks = {} => mode.disposed

(* No lock is held by two threads.                                           *)
Exclusive ==
  \A th, other \in Threads, l \in Locks :
    HoldsIn(held[th], l) /\ HoldsIn(held[other], l) => th = other

AllStand ==
  \A th \in Threads : /\ Stands(Now(th), todo[th])
                      /\ Serves(todo[th]) => Meets(Now(th), todo[th][1], context)

IInv == Queues /\ Encoders /\ Exclusive /\ AllStand

-----------------------------------------------------------------------------
(* Every set of natural numbers has a least one.                            *)
LEMMA LeastExists ==
  ASSUME NEW T \in SUBSET Nat, T # {}
  PROVE  \E m \in T : \A k \in T : m <= k
<1> DEFINE F == {1 .. k : k \in T}
           R == StrictSubsetOrdering(Nat)
<1>1. F \subseteq FiniteSubsetsOf(Nat) /\ F # {}
  <2>1. ASSUME NEW k \in T PROVE 1 .. k \in SUBSET Nat /\ IsFiniteSet(1 .. k)
    <3>1. 1 \in Int /\ k \in Int
      OBVIOUS
    <3> QED BY <3>1, FS_Interval
  <2>2. ASSUME NEW k \in T PROVE 1 .. k \in FiniteSubsetsOf(Nat)
    BY <2>1 DEF FiniteSubsetsOf
  <2> QED BY <2>2
<1>2. IsWellFoundedOn(R, FiniteSubsetsOf(Nat))
  BY FS_StrictSubsetOrderingWellFounded
<1>3. \E x \in F : \A y \in F : ~ (<<y, x>> \in R)
  <2> HIDE DEF F, R
  <2> QED BY <1>1, <1>2, WFMin
<1>4. PICK m \in T : \A k \in T : <<1 .. k, 1 .. m>> \notin R
  BY <1>3
<1>5. ASSUME NEW k \in T, k < m PROVE FALSE
  <2>1. 1 .. k \subseteq 1 .. m /\ 1 .. k # 1 .. m
    <3>1. m \in 1 .. m /\ m \notin 1 .. k
      BY <1>5
    <3> QED BY <1>5, <3>1
  <2>2. 1 .. k \in SUBSET Nat /\ 1 .. m \in SUBSET Nat
    OBVIOUS
  <2> DEFINE A == 1 .. k
             B == 1 .. m
  <2>3. <<A, B>> \in R
    <3> HIDE DEF A, B
    <3>1. A \in SUBSET Nat /\ B \in SUBSET Nat /\ A \subseteq B /\ A # B
      BY <2>1, <2>2 DEF A, B
    <3> QED BY <3>1, Zenon DEF StrictSubsetOrdering
  <2> QED BY <1>4, <2>3, Zenon
<1> QED BY <1>5

-----------------------------------------------------------------------------
(* A fragment goes from a point to a point.                                 *)
LEMMA FragmentPoints ==
  ASSUME NEW a, NEW s, NEW b, Fragment(a, s, b)
  PROVE  a \in Points /\ b \in Points /\ s \in Seq(Steps)
BY DEF Fragment

(* No steps lead from a point to itself.                                    *)
LEMMA EmptyFragment ==
  ASSUME NEW a \in Points
  PROVE  Fragment(a, << >>, a)
<1> DEFINE L == [i \in 1 .. 1 |-> a]
<1>1. L \in [1 .. Len(<< >>) + 1 -> Points] /\ L[1] = a /\ L[Len(<< >>) + 1] = a
  OBVIOUS
<1>2. Leads(L, << >>)
  BY DEF Leads
<1> QED BY <1>1, <1>2 DEF Fragment

(* A step with that effect leads from a to b.                               *)
LEMMA SingleStep ==
  ASSUME NEW a \in Points, NEW step \in Steps, NEW b \in Points, Effect(a, step, b)
  PROVE  Fragment(a, <<step>>, b)
<1> DEFINE L == [i \in 1 .. 2 |-> IF i = 1 THEN a ELSE b]
           s == <<step>>
<1>1. s \in Seq(Steps) /\ Len(s) = 1 /\ s[1] = step
  OBVIOUS
<1>2. L \in [1 .. 2 -> Points] /\ L[1] = a /\ L[2] = b
  OBVIOUS
<1> HIDE DEF L, s
<1>3. Leads(L, s)
  BY <1>1, <1>2 DEF Leads
<1>4. Fragment(a, s, b)
  BY <1>1, <1>2, <1>3 DEF Fragment
<1> QED BY <1>4 DEF s

(* Fragments that meet make one fragment.                                   *)
LEMMA ConcatFragments ==
  ASSUME NEW a, NEW s, NEW b, NEW t, NEW c, Fragment(a, s, b), Fragment(b, t, c)
  PROVE  Fragment(a, s \o t, c)
<1>1. PICK K \in [1 .. Len(s) + 1 -> Points] : K[1] = a /\ K[Len(s) + 1] = b /\ Leads(K, s)
  BY DEF Fragment
<1>2. PICK M \in [1 .. Len(t) + 1 -> Points] : M[1] = b /\ M[Len(t) + 1] = c /\ Leads(M, t)
  BY DEF Fragment
<1> DEFINE w == s \o t
           L == [i \in 1 .. Len(s) + Len(t) + 1 |-> IF i <= Len(s) THEN K[i] ELSE M[i - Len(s)]]
<1>3. s \in Seq(Steps) /\ t \in Seq(Steps) /\ Len(s) \in Nat /\ Len(t) \in Nat
  BY DEF Fragment
<1>4. /\ w \in Seq(Steps) /\ Len(w) = Len(s) + Len(t)
      /\ \A i \in 1 .. Len(s) + Len(t) : w[i] = IF i <= Len(s) THEN s[i] ELSE t[i - Len(s)]
  BY <1>3, ConcatProperties
<1>5. L \in [1 .. Len(w) + 1 -> Points]
  BY <1>3, <1>4
<1>6. L[1] = a /\ L[Len(w) + 1] = c
  BY <1>1, <1>2, <1>3, <1>4
<1> HIDE DEF w
<1>7. ASSUME NEW i \in 1 .. Len(w) PROVE Effect(L[i], w[i], L[i + 1])
  <2>1. CASE i < Len(s)
    <3>1. w[i] = s[i] /\ L[i] = K[i] /\ L[i + 1] = K[i + 1] /\ i \in 1 .. Len(s)
      BY <1>3, <1>4, <2>1
    <3> QED BY <3>1, <1>1 DEF Leads
  <2>2. CASE i = Len(s)
    <3>1. w[i] = s[i] /\ L[i] = K[i] /\ L[i + 1] = K[i + 1] /\ i \in 1 .. Len(s)
      <4>1. L[i + 1] = M[1]
        BY <1>3, <1>4, <2>2
      <4> QED BY <1>1, <1>2, <1>3, <1>4, <2>2, <4>1
    <3> QED BY <3>1, <1>1 DEF Leads
  <2>3. CASE i > Len(s)
    <3> DEFINE j == i - Len(s)
    <3>1. w[i] = t[j] /\ L[i] = M[j] /\ L[i + 1] = M[j + 1] /\ j \in 1 .. Len(t)
      BY <1>3, <1>4, <2>3
    <3> HIDE DEF j, L
    <3> QED BY <3>1, <1>2 DEF Leads
  <2> QED BY <2>1, <2>2, <2>3, <1>3, <1>4
<1> HIDE DEF L
<1>8. Fragment(a, w, c)
  BY <1>4, <1>5, <1>6, <1>7 DEF Fragment, Leads
<1> QED BY <1>8 DEF w

(* A fragment is its first step and what is left of it.                     *)
LEMMA SplitFragment ==
  ASSUME NEW a, NEW s, NEW b, Fragment(a, s, b), s # << >>
  PROVE  \E c \in Points : Effect(a, s[1], c) /\ Fragment(c, Tail(s), b)
<1>1. PICK L \in [1 .. Len(s) + 1 -> Points] : L[1] = a /\ L[Len(s) + 1] = b /\ Leads(L, s)
  BY DEF Fragment
<1>2. s \in Seq(Steps) /\ Len(s) \in Nat /\ Len(s) >= 1
  BY DEF Fragment
<1> DEFINE w == Tail(s)
           M == [i \in 1 .. Len(s) |-> L[i + 1]]
<1>3. w \in Seq(Steps) /\ Len(w) = Len(s) - 1 /\ \A i \in 1 .. Len(w) : w[i] = s[i + 1]
  BY <1>2
<1>4. M \in [1 .. Len(w) + 1 -> Points] /\ M[1] = L[2] /\ M[Len(w) + 1] = b
  BY <1>1, <1>2, <1>3
<1>5. ASSUME NEW i \in 1 .. Len(w) PROVE Effect(M[i], w[i], M[i + 1])
  <2>1. M[i] = L[i + 1] /\ M[i + 1] = L[i + 2] /\ w[i] = s[i + 1] /\ i + 1 \in 1 .. Len(s)
    BY <1>2, <1>3
  <2>2. Effect(L[i + 1], s[i + 1], L[(i + 1) + 1])
    BY <1>1, <2>1 DEF Leads
  <2>3. (i + 1) + 1 = i + 2
    OBVIOUS
  <2> HIDE DEF M, w
  <2> QED BY <2>1, <2>2, <2>3
<1> HIDE DEF M, w
<1>6. Fragment(L[2], w, b)
  BY <1>3, <1>4, <1>5 DEF Fragment, Leads
<1>7. L[2] \in Points /\ Effect(a, s[1], L[2])
  <2>1. 1 \in 1 .. Len(s) /\ 2 \in 1 .. Len(s) + 1 /\ 1 + 1 = 2
    BY <1>2
  <2> QED BY <1>1, <2>1 DEF Leads
<1> QED BY <1>6, <1>7 DEF w

(* A step that gives back a lock gives back the last one taken.             *)
LEMMA ExitEffect ==
  ASSUME NEW a \in Points, NEW step, NEW b \in Points, Effect(a, step, b), step.do = "exit"
  PROVE  LockOf(step) \in Locks /\ a = Held(b, LockOf(step))
BY DEF Effect

(* Without the lock just taken the locks are those held before it.          *)
LEMMA LockTaken ==
  ASSUME NEW b \in Points, NEW l \in Locks, NEW a, a = Held(b, l)
  PROVE  /\ a.over = b.over /\ Len(a.locks) = Len(b.locks) + 1
         /\ b.locks = SubSeq(a.locks, 1, Len(a.locks) - 1)
<1> DEFINE s == b.locks
           w == Append(s, l)
<1>1. s \in Seq(Locks) /\ Len(s) \in Nat
  BY DEF Points
<1>2. w \in Seq(Locks) /\ Len(w) = Len(s) + 1 /\ \A i \in 1 .. Len(s) : w[i] = s[i]
  BY <1>1
<1>3. a.locks = w /\ a.over = b.over
  BY DEF Held, Point
<1> HIDE DEF s, w
<1>4. s = SubSeq(w, 1, Len(w) - 1)
  <2> DEFINE u == SubSeq(w, 1, Len(w) - 1)
  <2>1. u \in Seq(Locks) /\ Len(u) = Len(s) /\ \A i \in 1 .. Len(s) : u[i] = w[i]
    BY <1>1, <1>2
  <2> HIDE DEF u
  <2>2. u = s
    BY <1>1, <1>2, <2>1, SeqEqual
  <2> QED BY <2>2 DEF u
<1> QED BY <1>2, <1>3, <1>4 DEF s

(* A prefix without its last lock is the next shorter prefix.               *)
LEMMA PrefixOfPrefix ==
  ASSUME NEW s \in Seq(Locks), NEW k \in 0 .. Len(s), k >= 1
  PROVE  LET p == SubSeq(s, 1, k) IN Len(p) = k /\ SubSeq(p, 1, Len(p) - 1) = SubSeq(s, 1, k - 1)
<1> DEFINE p == SubSeq(s, 1, k)
           u == SubSeq(p, 1, Len(p) - 1)
           v == SubSeq(s, 1, k - 1)
<1>1. p \in Seq(Locks) /\ Len(p) = k /\ \A i \in 1 .. k : p[i] = s[i]
  OBVIOUS
<1>2. v \in Seq(Locks) /\ Len(v) = k - 1 /\ \A i \in 1 .. k - 1 : v[i] = s[i]
  OBVIOUS
<1> HIDE DEF p, v
<1>3. u \in Seq(Locks) /\ Len(u) = k - 1 /\ \A i \in 1 .. k - 1 : u[i] = p[i]
  BY <1>1
<1> HIDE DEF u
<1>4. \A i \in 1 .. Len(u) : u[i] = v[i]
  BY <1>1, <1>2, <1>3
<1>5. u = v
  BY <1>2, <1>3, <1>4, SeqEqual
<1> QED BY <1>1, <1>5 DEF p, u, v

(* What is left of a fragment whose first steps give back locks.             *)
LEMMA SuffixOfFragment ==
  ASSUME NEW s \in Seq(Steps), NEW L \in [1 .. Len(s) + 1 -> Points], Leads(L, s),
         NEW n \in 0 .. Len(s)
  PROVE  Fragment(L[n + 1], SubSeq(s, n + 1, Len(s)), L[Len(s) + 1])
<1> DEFINE w == SubSeq(s, n + 1, Len(s))
           M == [i \in 1 .. Len(s) - n + 1 |-> L[i + n]]
<1>1. w \in Seq(Steps) /\ Len(w) = Len(s) - n /\ \A i \in 1 .. Len(w) : w[i] = s[i + n]
  OBVIOUS
<1>2. M \in [1 .. Len(w) + 1 -> Points] /\ M[1] = L[n + 1] /\ M[Len(w) + 1] = L[Len(s) + 1]
  BY <1>1
<1>3. ASSUME NEW i \in 1 .. Len(w) PROVE Effect(M[i], w[i], M[i + 1])
  <2>1. M[i] = L[i + n] /\ M[i + 1] = L[(i + n) + 1] /\ w[i] = s[i + n] /\ i + n \in 1 .. Len(s)
    BY <1>1
  <2> HIDE DEF M, w
  <2> QED BY <2>1 DEF Leads
<1> HIDE DEF M, w
<1>4. Fragment(L[n + 1], w, L[Len(s) + 1])
  BY <1>1, <1>2, <1>3 DEF Fragment, Leads
<1> QED BY <1>4 DEF w

Stripped(a, n) == Point(SubSeq(a.locks, 1, Len(a.locks) - n), a.over)

(* A point that gives back no lock is as it was.                            *)
LEMMA StrippedZero ==
  ASSUME NEW a \in Points
  PROVE  Stripped(a, 0) = a
<1>1. SubSeq(a.locks, 1, Len(a.locks)) = a.locks
  BY SubSeqFull DEF Points
<1>2. Len(a.locks) - 0 = Len(a.locks)
  BY DEF Points
<1> QED BY <1>1, <1>2 DEF Stripped, Point, Points

(* After n exits the n locks taken last are gone, and the rest leads on.    *)
LEMMA ExitsStrip ==
  ASSUME NEW a, NEW s, NEW b, Fragment(a, s, b),
         NEW n \in 0 .. Len(s), \A i \in 1 .. n : s[i].do = "exit"
  PROVE  /\ n <= Len(a.locks) /\ Fragment(Stripped(a, n), SubSeq(s, n + 1, Len(s)), b)
<1>1. PICK L \in [1 .. Len(s) + 1 -> Points] : L[1] = a /\ L[Len(s) + 1] = b /\ Leads(L, s)
  BY DEF Fragment
<1>2. s \in Seq(Steps) /\ Len(s) \in Nat /\ n \in Nat /\ n <= Len(s) /\ a \in Points
  BY FragmentPoints
<1> DEFINE Right(i) == i <= Len(a.locks) /\ L[i + 1] = Stripped(a, i)
           Wrong == {i \in 0 .. n : ~ Right(i)}
<1>3. Len(a.locks) \in Nat /\ a.locks \in Seq(Locks)
  BY <1>2 DEF Points
<1>4. Right(0)
  BY <1>1, <1>2, <1>3, StrippedZero
<1>5. ASSUME NEW i \in 1 .. n, Right(i - 1) PROVE Right(i)
  <2>1. i \in 1 .. Len(s) /\ s[i].do = "exit" /\ L[i] \in Points /\ L[i + 1] \in Points
    BY <1>2
  <2>2. LockOf(s[i]) \in Locks /\ L[i] = Held(L[i + 1], LockOf(s[i]))
    BY <1>1, <2>1, ExitEffect DEF Leads
  <2>3. /\ L[i].over = L[i + 1].over /\ Len(L[i].locks) = Len(L[i + 1].locks) + 1
        /\ L[i + 1].locks = SubSeq(L[i].locks, 1, Len(L[i].locks) - 1)
    BY <2>1, <2>2, LockTaken
  <2> DEFINE k == Len(a.locks) - (i - 1)
             p == SubSeq(a.locks, 1, k)
  <2>4. L[i] = Point(p, a.over) /\ k \in 0 .. Len(a.locks)
    <3>1. i - 1 + 1 = i /\ i - 1 >= 0
      OBVIOUS
    <3> QED BY <1>3, <1>5, <3>1 DEF Stripped
  <2>5. L[i].locks = p /\ L[i].over = a.over
    BY <2>4 DEF Point
  <2>6. k >= 1
    <3>1. Len(p) = k
      BY <1>3, <2>4
    <3>2. Len(L[i + 1].locks) \in Nat
      BY <2>1 DEF Points
    <3> QED BY <2>3, <2>5, <3>1, <3>2
  <2>7. Len(p) = k /\ SubSeq(p, 1, Len(p) - 1) = SubSeq(a.locks, 1, k - 1)
    BY <1>3, <2>4, <2>6, PrefixOfPrefix
  <2>8. k - 1 = Len(a.locks) - i /\ i <= Len(a.locks)
    BY <1>3, <2>6
  <2>9. L[i + 1].locks = SubSeq(a.locks, 1, Len(a.locks) - i) /\ L[i + 1].over = a.over
    BY <2>3, <2>5, <2>7, <2>8
  <2>10. L[i + 1] = Stripped(a, i)
    BY <2>1, <2>9 DEF Stripped, Point, Points
  <2> QED BY <2>8, <2>10
<1>6. Wrong = {}
  <2>1. SUFFICES ASSUME Wrong # {} PROVE FALSE
    OBVIOUS
  <2>2. Wrong \in SUBSET Nat
    BY <1>2
  <2>3. PICK m \in Wrong : \A k \in Wrong : m <= k
    <3> HIDE DEF Wrong
    <3> QED BY <2>1, <2>2, LeastExists
  <2>4. m \in 0 .. n /\ ~ Right(m)
    BY <2>3
  <2> HIDE DEF Right
  <2>5. m # 0
    BY <1>4, <2>4
  <2>6. m \in 1 .. n /\ m - 1 \in 0 .. n /\ ~ (m <= m - 1)
    BY <2>4, <2>5, <1>2
  <2>7. Right(m - 1)
    BY <2>3, <2>6
  <2> QED BY <1>5, <2>4, <2>6, <2>7
<1>7. Right(n)
  <2> HIDE DEF Right
  <2> QED BY <1>2, <1>6
<1>8. Fragment(L[n + 1], SubSeq(s, n + 1, Len(s)), L[Len(s) + 1])
  BY <1>1, <1>2, SuffixOfFragment
<1> QED BY <1>1, <1>7, <1>8

(* Once the streamer is disposed of, what is left leads there too.           *)
Raised(p) == Point(p.locks, TRUE)

(* What a step may do it may do when the streamer has been disposed of.     *)
LEMMA EffectRaised ==
  ASSUME NEW a \in Points, NEW step, NEW b \in Points, Effect(a, step, b)
  PROVE  Effect(Raised(a), step, Raised(b))
<1>1. /\ Raised(a).locks = a.locks /\ Raised(a).over = TRUE
      /\ Raised(b).locks = b.locks /\ Raised(b).over = TRUE
  BY DEF Raised, Point
<1>2. CASE step.do = "enter"
  <2>1. LockOf(step) \in Locks /\ MayTake(a, LockOf(step)) /\ b = Held(a, LockOf(step))
    BY <1>2 DEF Effect
  <2>2. Raised(b) = Held(Raised(a), LockOf(step))
    BY <2>1 DEF Raised, Point, Held
  <2> QED BY <1>1, <1>2, <2>1, <2>2 DEF Effect, MayTake
<1>3. CASE step.do = "exit"
  <2>1. LockOf(step) \in Locks /\ a = Held(b, LockOf(step))
    BY <1>3 DEF Effect
  <2>2. Raised(a) = Held(Raised(b), LockOf(step))
    BY <2>1 DEF Raised, Point, Held
  <2> QED BY <1>3, <2>1, <2>2 DEF Effect
<1>4. CASE step.do = "call"
  BY <1>1, <1>4 DEF Effect, MayCall, Safe
<1>5. CASE step.do \in {"create", "null"}
  BY <1>1, <1>5 DEF Effect
<1>6. CASE step.do \in {"frame", "ensure"}
  BY <1>1, <1>6 DEF Effect, MayEncode
<1>7. CASE step.do = "deliver"
  BY <1>1, <1>7 DEF Effect
<1>8. CASE step.do = "set"
  <2>1. MaySet(a, step.name, step.number) /\ b = Point(a.locks, a.over \/ step.name = "disposed")
    BY <1>8 DEF Effect
  <2>2. MaySet(Raised(a), step.name, step.number)
    BY <1>1, <2>1 DEF MaySet, AllFrozen
  <2>3. Raised(b) = Point(Raised(a).locks, Raised(a).over \/ step.name = "disposed")
    BY <2>1 DEF Raised, Point
  <2> QED BY <1>8, <2>2, <2>3 DEF Effect
<1>9. CASE step.do = "over"
  <2>1. /\ MayLoop(b, step.name, Tracks)
        /\ a = IF step.name \in Copied THEN Held(b, StreamLock) ELSE b
    BY <1>9 DEF Effect
  <2>2. MayLoop(Raised(b), step.name, Tracks)
    BY <1>1, <2>1 DEF MayLoop
  <2>3. Raised(a) = IF step.name \in Copied THEN Held(Raised(b), StreamLock) ELSE Raised(b)
    BY <2>1 DEF Raised, Point, Held
  <2> QED BY <1>9, <2>2, <2>3 DEF Effect
<1>10. CASE step.do = "each"
  <2>1. step.rest # {} /\ step.rest \in SUBSET Tracks /\ MayLoop(a, step.name, step.rest) /\ b = a
    BY <1>10 DEF Effect
  <2>2. MayLoop(Raised(a), step.name, step.rest)
    BY <1>1, <2>1 DEF MayLoop
  <2> QED BY <1>10, <2>1, <2>2 DEF Effect
<1> QED BY <1>2, <1>3, <1>4, <1>5, <1>6, <1>7, <1>8, <1>9, <1>10 DEF Effect

(* And the point where that is known is a point.                            *)
LEMMA RaisedIsPoint ==
  ASSUME NEW p \in Points
  PROVE  Raised(p) \in Points
BY DEF Raised, Point, Points

(* So what is left of an operation is still one.                            *)
LEMMA EndsRaised ==
  ASSUME NEW a, NEW s, Ends(a, s)
  PROVE  Ends(Raised(a), s)
<1>1. PICK over \in BOOLEAN : Fragment(a, s, Point(<< >>, over))
  BY DEF Ends
<1>2. PICK L \in [1 .. Len(s) + 1 -> Points] :
        L[1] = a /\ L[Len(s) + 1] = Point(<< >>, over) /\ Leads(L, s)
  BY <1>1 DEF Fragment
<1>3. s \in Seq(Steps) /\ Len(s) \in Nat
  BY <1>1 DEF Fragment
<1> DEFINE M == [i \in 1 .. Len(s) + 1 |-> Raised(L[i])]
<1>4. M \in [1 .. Len(s) + 1 -> Points]
  BY RaisedIsPoint
<1>5. M[1] = Raised(a) /\ M[Len(s) + 1] = Point(<< >>, TRUE)
  <2>1. M[1] = Raised(L[1]) /\ M[Len(s) + 1] = Raised(L[Len(s) + 1])
    BY <1>3
  <2>2. Raised(Point(<< >>, over)) = Point(<< >>, TRUE)
    BY DEF Raised, Point
  <2> QED BY <1>2, <2>1, <2>2
<1>6. ASSUME NEW i \in 1 .. Len(s) PROVE Effect(M[i], s[i], M[i + 1])
  <2>1. M[i] = Raised(L[i]) /\ M[i + 1] = Raised(L[i + 1]) /\ L[i] \in Points /\ L[i + 1] \in Points
    BY <1>3
  <2>2. Effect(L[i], s[i], L[i + 1])
    BY <1>2 DEF Leads
  <2> HIDE DEF M
  <2> QED BY <2>1, <2>2, EffectRaised
<1> HIDE DEF M
<1>7. Fragment(Raised(a), s, Point(<< >>, TRUE))
  BY <1>3, <1>4, <1>5, <1>6 DEF Fragment, Leads
<1> QED BY <1>7 DEF Ends

-----------------------------------------------------------------------------
(* Ranks are natural numbers up to that of the mutexes.                     *)
LEMMA RankType ==
  ASSUME NEW l \in Locks
  PROVE  Rank(l) \in 0 .. Top
BY EncoderLocksAssumption DEF Locks, Kinds, Rank, Top, Tracks

(* The locks of the streamer, of its handler and of its tracks have their   *)
(* ranks.                                                                   *)
LEMMA LockTypes ==
  /\ StreamLock \in Locks /\ Rank(StreamLock) = 2
  /\ RelayBitrateLock \in Locks /\ Rank(RelayBitrateLock) = 1
  /\ RelayLifecycle \in Locks /\ Rank(RelayLifecycle) = 0
  /\ \A t \in Tracks : EncodeLock(t) \in Locks /\ Rank(EncodeLock(t)) = 2 + t
  /\ \A t \in Tracks, n \in Nat : EncodeMutex(t, n) \in Locks /\ Rank(EncodeMutex(t, n)) = Top
BY EncoderLocksAssumption
   DEF Locks, Kinds, Rank, Tracks, StreamLock, RelayBitrateLock, RelayLifecycle, EncodeLock, EncodeMutex

(* The EncodeLocks lie between the lock of the streamer and the mutexes.    *)
LEMMA TrackTypes == /\ Top \in Nat /\ Top > 3 /\ Tracks \subseteq Nat /\ Tracks # {}
                    /\ \A t \in Tracks : 2 + t < Top /\ t >= 1
BY EncoderLocksAssumption DEF Top, Tracks

(* Taking a lock leads to a point.                                          *)
LEMMA HeldIsPoint ==
  ASSUME NEW p \in Points, NEW l \in Locks
  PROVE  Held(p, l) \in Points
BY DEF Held, Point, Points

(* There the lock is held, and those held before are.                       *)
LEMMA HeldLocks ==
  ASSUME NEW p \in Points, NEW l \in Locks
  PROVE  /\ Held(p, l).over = p.over
         /\ HoldsIn(Held(p, l).locks, l)
         /\ \A k : HoldsIn(p.locks, k) => HoldsIn(Held(p, l).locks, k)
         /\ \A r \in Nat : Below(p.locks, r) /\ Rank(l) < r => Below(Held(p, l).locks, r)
         /\ l[1] = "mutex" => HasMutex(Held(p, l).locks)
<1> DEFINE s == p.locks
           w == Append(s, l)
<1>1. s \in Seq(Locks) /\ Len(s) \in Nat
  BY DEF Points
<1>2. Len(w) = Len(s) + 1 /\ w[Len(s) + 1] = l /\ \A i \in 1 .. Len(s) : w[i] = s[i]
  BY <1>1
<1>3. Held(p, l).locks = w /\ Held(p, l).over = p.over
  BY DEF Held, Point
<1> HIDE DEF w
<1>4. HoldsIn(w, l)
  BY <1>1, <1>2 DEF HoldsIn
<1>5. ASSUME NEW k, HoldsIn(s, k) PROVE HoldsIn(w, k)
  BY <1>1, <1>2, <1>5 DEF HoldsIn
<1>6. ASSUME NEW r \in Nat, Below(s, r), Rank(l) < r PROVE Below(w, r)
  BY <1>1, <1>2, <1>6 DEF Below
<1>7. l[1] = "mutex" => HasMutex(w)
  BY <1>1, <1>2 DEF HasMutex
<1> QED BY <1>3, <1>4, <1>5, <1>6, <1>7

(* Locks below a rank are below a higher one.                               *)
LEMMA BelowMore ==
  ASSUME NEW p \in Points, NEW r \in Nat, NEW q \in Nat, r <= q, Below(p.locks, r)
  PROVE  Below(p.locks, q)
<1>1. ASSUME NEW i \in 1 .. Len(p.locks) PROVE Rank(p.locks[i]) < q
  <2>1. p.locks[i] \in Locks
    BY DEF Points
  <2>2. Rank(p.locks[i]) \in Int /\ Rank(p.locks[i]) < r
    BY <2>1, RankType, TrackTypes DEF Below
  <2> QED BY <2>2
<1> QED BY <1>1 DEF Below

(* The steps that take and give back a lock name that lock.                 *)
LEMMA EnterAndExit ==
  ASSUME NEW l \in Locks
  PROVE  /\ Enter(l) \in Steps /\ Enter(l).do = "enter" /\ LockOf(Enter(l)) = l
         /\ Exit(l) \in Steps /\ Exit(l).do = "exit" /\ LockOf(Exit(l)) = l
<1>1. l = <<l[1], l[2], l[3]>> /\ l[1] \in Names /\ l[2] \in Nat /\ l[3] \in Nat
  BY DEF Locks, Names
<1> DEFINE i == Do("enter", l[1], l[2], l[3])
           o == Do("exit", l[1], l[2], l[3])
<1>2. i \in Steps /\ i.do = "enter" /\ i.name = l[1] /\ i.track = l[2] /\ i.number = l[3]
  BY <1>1 DEF Do, Steps, Verbs
<1>3. o \in Steps /\ o.do = "exit" /\ o.name = l[1] /\ o.track = l[2] /\ o.number = l[3]
  BY <1>1 DEF Do, Steps, Verbs
<1>4. Enter(l) = i /\ Exit(l) = o
  BY DEF Enter, Exit
<1> HIDE DEF i, o
<1>5. LockOf(i) = l /\ LockOf(o) = l
  BY <1>1, <1>2, <1>3 DEF LockOf
<1> QED BY <1>2, <1>3, <1>4, <1>5

(* A lock that may be taken is held after the step that takes it.           *)
LEMMA Entering ==
  ASSUME NEW a \in Points, NEW l \in Locks, MayTake(a, l)
  PROVE  Fragment(a, <<Enter(l)>>, Held(a, l))
<1>1. Effect(a, Enter(l), Held(a, l))
  BY EnterAndExit DEF Effect
<1> QED BY <1>1, EnterAndExit, HeldIsPoint, SingleStep

(* And no longer after the step that gives it back.                         *)
LEMMA Leaving ==
  ASSUME NEW a \in Points, NEW l \in Locks
  PROVE  Fragment(Held(a, l), <<Exit(l)>>, a)
<1>1. Effect(Held(a, l), Exit(l), a)
  BY EnterAndExit DEF Effect
<1> QED BY <1>1, EnterAndExit, HeldIsPoint, SingleStep

(* A fragment in a lock that may be taken is one around it.                 *)
LEMMA WithLock ==
  ASSUME NEW a \in Points, NEW l \in Locks, MayTake(a, l),
         NEW s, Fragment(Held(a, l), s, Held(a, l))
  PROVE  Fragment(a, With(l, s), a)
<1>1. Fragment(a, <<Enter(l)>> \o s, Held(a, l))
  BY Entering, ConcatFragments
<1>2. Fragment(a, <<Enter(l)>> \o s \o <<Exit(l)>>, a)
  BY <1>1, Leaving, ConcatFragments
<1> QED BY <1>2 DEF With

(* A lock may be taken and given back at once.                              *)
LEMMA WithLockOnly ==
  ASSUME NEW a \in Points, NEW l \in Locks, MayTake(a, l)
  PROVE  Fragment(a, With(l, << >>), a)
BY WithLock, HeldIsPoint, EmptyFragment

(* The steps that are not locks.                                             *)
LEMMA DoType ==
  ASSUME NEW what \in Verbs, NEW name \in Names, NEW t \in Nat, NEW n \in Nat
  PROVE  /\ Do(what, name, t, n) \in Steps
         /\ Do(what, name, t, n).do = what /\ Do(what, name, t, n).name = name
         /\ Do(what, name, t, n).track = t /\ Do(what, name, t, n).number = n
BY DEF Do, Steps

(* A call of the wrapper leads back to its point.                           *)
LEMMA CallFragment ==
  ASSUME NEW a \in Points, NEW name \in Names, NEW t \in Tracks, MayCall(a, name, t)
  PROVE  Fragment(a, Call(name, t), a)
<1> DEFINE step == Do("call", name, t, 0)
<1>1. "call" \in Verbs /\ t \in Nat /\ 0 \in Nat
  BY TrackTypes DEF Verbs, Names
<1>2. step \in Steps /\ step.do = "call" /\ step.name = name /\ step.track = t
  BY <1>1, DoType
<1> HIDE DEF step
<1>3. Effect(a, step, a)
  BY <1>2 DEF Effect
<1>4. Fragment(a, <<step>>, a)
  BY <1>2, <1>3, SingleStep
<1> QED BY <1>4 DEF Call, step

(* So do making an encoder and forgetting it,                               *)
LEMMA EncoderFragment ==
  ASSUME NEW a \in Points, NEW t \in Tracks
  PROVE  Fragment(a, Create(t), a) /\ Fragment(a, Forget(t), a)
<1>1. "create" \in Verbs /\ "null" \in Verbs /\ "encoder" \in Names /\ t \in Nat /\ 0 \in Nat
  BY TrackTypes DEF Verbs, Names
<1> DEFINE c == Do("create", "encoder", t, 0)
           f == Do("null", "encoder", t, 0)
<1>2. c \in Steps /\ c.do = "create" /\ c.track = t /\ f \in Steps /\ f.do = "null" /\ f.track = t
  BY <1>1, DoType
<1> HIDE DEF c, f
<1>3. Effect(a, c, a) /\ Effect(a, f, a)
  BY <1>2 DEF Effect
<1>4. Fragment(a, <<c>>, a) /\ Fragment(a, <<f>>, a)
  BY <1>2, <1>3, SingleStep
<1> QED BY <1>4 DEF Create, Forget, c, f

(* a frame, and the look at the size of an encoder, under the EncodeLock,   *)
LEMMA FrameFragment ==
  ASSUME NEW a \in Points, NEW t \in Tracks, MayEncode(a, t)
  PROVE  /\ Fragment(a, <<Do("frame", "encoder", t, 0)>>, a)
         /\ Fragment(a, <<Do("ensure", "encoder", t, 0)>>, a)
<1>1. "frame" \in Verbs /\ "ensure" \in Verbs /\ "encoder" \in Names /\ t \in Nat /\ 0 \in Nat
  BY TrackTypes DEF Verbs, Names
<1> DEFINE c == Do("frame", "encoder", t, 0)
           f == Do("ensure", "encoder", t, 0)
<1>2. c \in Steps /\ c.do = "frame" /\ c.track = t /\ f \in Steps /\ f.do = "ensure" /\ f.track = t
  BY <1>1, DoType
<1> HIDE DEF c, f
<1>3. Effect(a, c, a) /\ Effect(a, f, a)
  BY <1>2 DEF Effect
<1>4. Fragment(a, <<c>>, a) /\ Fragment(a, <<f>>, a)
  BY <1>2, <1>3, SingleStep
<1> QED BY <1>4 DEF c, f

(* and the delivery of a frame by a callback.                               *)
LEMMA DeliverFragment ==
  ASSUME NEW a \in Points, NEW t \in Tracks, HasMutex(a.locks)
  PROVE  Fragment(a, <<Do("deliver", "frame", t, 0)>>, a)
<1>1. "deliver" \in Verbs /\ "frame" \in Names /\ t \in Nat /\ 0 \in Nat
  BY TrackTypes DEF Verbs, Names
<1> DEFINE c == Do("deliver", "frame", t, 0)
<1>2. c \in Steps /\ c.do = "deliver" /\ c.track = t
  BY <1>1, DoType
<1> HIDE DEF c
<1>3. Effect(a, c, a)
  BY <1>2 DEF Effect
<1>4. Fragment(a, <<c>>, a)
  BY <1>2, <1>3, SingleStep
<1> QED BY <1>4 DEF c

(* Setting a mode changes nothing but what is known of the disposal,        *)
LEMMA SetFragment ==
  ASSUME NEW a \in Points, NEW name \in Names, NEW value \in BOOLEAN,
         MaySet(a, name, IF value THEN 1 ELSE 0)
  PROVE  Fragment(a, Set(name, value), Point(a.locks, a.over \/ name = "disposed"))
<1> DEFINE n == IF value THEN 1 ELSE 0
           step == Do("set", name, 0, n)
           b == Point(a.locks, a.over \/ name = "disposed")
<1>1. "set" \in Verbs /\ 0 \in Nat /\ n \in Nat
  BY DEF Verbs
<1>2. step \in Steps /\ step.do = "set" /\ step.name = name /\ step.number = n
  <2> HIDE DEF n
  <2> QED BY <1>1, DoType
<1>3. b \in Points
  BY DEF Point, Points
<1> HIDE DEF step, b
<1>4. Effect(a, step, b)
  BY <1>2 DEF Effect, b
<1>5. Fragment(a, <<step>>, b)
  BY <1>2, <1>3, <1>4, SingleStep
<1> QED BY <1>5 DEF Set, step, b

(* which only one of the modes does.                                        *)
LEMMA SetKeeps ==
  ASSUME NEW a \in Points, NEW name \in Names, NEW value \in BOOLEAN, name # "disposed",
         MaySet(a, name, IF value THEN 1 ELSE 0)
  PROVE  Fragment(a, Set(name, value), a)
<1>1. Point(a.locks, a.over \/ name = "disposed") = a
  <2>1. (a.over \/ name = "disposed") = a.over
    BY DEF Points
  <2> QED BY <2>1 DEF Point, Points
<1> QED BY <1>1, SetFragment

(* A loop gives back the lock under which the tracks were copied.           *)
LEMMA OverFragment ==
  ASSUME NEW a \in Points, NEW name \in Names, MayLoop(a, name, Tracks)
  PROVE  Fragment(IF name \in Copied THEN Held(a, StreamLock) ELSE a, Over(name), a)
<1>1. "over" \in Verbs /\ 0 \in Nat
  BY DEF Verbs
<1> DEFINE step == Do("over", name, 0, 0)
           b == IF name \in Copied THEN Held(a, StreamLock) ELSE a
<1>2. step \in Steps /\ step.do = "over" /\ step.name = name
  BY <1>1, DoType
<1>3. b \in Points
  BY LockTypes, HeldIsPoint
<1> HIDE DEF step
<1>4. Effect(b, step, a)
  BY <1>2 DEF Effect
<1> HIDE DEF b
<1>5. Fragment(b, <<step>>, a)
  BY <1>2, <1>3, <1>4, SingleStep
<1> QED BY <1>5 DEF Over, step, b

(* And goes on where it stands.                                             *)
LEMMA EachFragment ==
  ASSUME NEW a \in Points, NEW name \in Names, NEW T \in SUBSET Tracks, T # {}, MayLoop(a, name, T)
  PROVE  Fragment(a, Each(name, T), a)
<1> DEFINE step == [do |-> "each", name |-> name, rest |-> T]
<1>1. step \in Steps /\ step.do = "each" /\ step.name = name /\ step.rest = T
  BY DEF Steps, Verbs
<1> HIDE DEF step
<1>2. Effect(a, step, a)
  BY <1>1 DEF Effect
<1>3. Fragment(a, <<step>>, a)
  BY <1>1, <1>2, SingleStep
<1> QED BY <1>3 DEF Each, step

-----------------------------------------------------------------------------
(* The operations keep the order of the locks.                               *)
LEMMA RequestFragment ==
  ASSUME NEW a \in Points, MayTake(a, StreamLock)
  PROVE  Fragment(a, RequestKeyframe, a)
BY LockTypes, WithLockOnly DEF RequestKeyframe

(* Copying the tracks takes the lock of the streamer and gives it back.     *)
LEMMA SnapshotFragment ==
  ASSUME NEW a \in Points, NEW name \in Copied, MayTake(a, StreamLock), MayLoop(a, name, Tracks)
  PROVE  Fragment(a, Snapshot(name), a)
<1>1. name \in Names
  BY DEF Copied, Names, LoopNames
<1>2. Fragment(Held(a, StreamLock), Over(name), a)
  BY <1>1, OverFragment
<1>3. Fragment(a, <<Enter(StreamLock)>>, Held(a, StreamLock))
  BY LockTypes, Entering
<1> QED BY <1>2, <1>3, ConcatFragments DEF Snapshot

(* A loop that has all tracks to do may go on where the limit of its locks  *)
(* allows it.                                                               *)
LEMMA WholeLoop ==
  ASSUME NEW p, NEW name \in LoopNames, name = "Dispose" => p.over,
         IF name = "Stop" THEN (\A u \in Tracks : Below(p.locks, 2 + u)) /\ Below(p.locks, Top)
         ELSE Below(p.locks, LoopLimit(name))
  PROVE  MayLoop(p, name, Tracks)
BY DEF MayLoop

(* The loops that run under the lock of the streamer.                       *)
LEMMA LoopUnderLock ==
  ASSUME NEW a \in Points, NEW name \in {"Initialize", "Invalidate", "Flush", "Dispose"},
         Below(a.locks, 2), name = "Dispose" => a.over
  PROVE  Fragment(a, With(StreamLock, Over(name)), a)
<1> DEFINE h == Held(a, StreamLock)
<1>1. name \in Names /\ name \notin Copied /\ name \in LoopNames /\ name # "Stop"
  BY DEF Copied, Names, LoopNames
<1>2. Below(h.locks, 3) /\ h.over = a.over /\ h \in Points
  <2>1. Below(a.locks, 3)
    BY BelowMore
  <2> QED BY <2>1, LockTypes, HeldLocks, HeldIsPoint
<1>3. Below(h.locks, Top)
  BY <1>2, BelowMore, TrackTypes
<1>4. MayLoop(h, name, Tracks)
  <2> HIDE DEF h
  <2>1. Below(h.locks, LoopLimit(name))
    BY <1>2, <1>3 DEF LoopLimit
  <2> QED BY <1>1, <1>2, <2>1, WholeLoop
<1>5. Fragment(h, Over(name), h)
  <2> HIDE DEF h
  <2> QED BY <1>1, <1>2, <1>4, OverFragment
<1>6. MayTake(a, StreamLock)
  BY LockTypes DEF MayTake
<1> QED BY <1>5, <1>6, LockTypes, WithLock

(* An encoder may be disposed of where its EncodeLock is held.              *)
LEMMA DisposeEncoderFragment ==
  ASSUME NEW a \in Points, NEW t \in Tracks, Below(a.locks, Top), Safe(a, t)
  PROVE  Fragment(a, DisposeEncoder(t), a)
<1>1. MayCall(a, "Dispose", t) /\ "Dispose" \in Names
  BY DEF MayCall, Names, CallNames
<1> QED BY <1>1, CallFragment, EncoderFragment, ConcatFragments DEF DisposeEncoder

(* And made anew.                                                           *)
LEMMA RecreateFragment ==
  ASSUME NEW a \in Points, NEW t \in Tracks, MayEncode(a, t)
  PROVE  Fragment(a, Recreate(t), a)
<1>1. Below(a.locks, Top) /\ Safe(a, t)
  BY DEF MayEncode, Safe
<1> QED BY <1>1, DisposeEncoderFragment, EncoderFragment, ConcatFragments DEF Recreate

(* The other calls need no EncodeLock.                                      *)
LEMMA OpenCall ==
  ASSUME NEW a \in Points, NEW t \in Tracks, Below(a.locks, Top),
         NEW name \in {"Encode", "SetBitrate", "SetFps", "Flush"}
  PROVE  Fragment(a, Call(name, t), a)
<1>1. MayCall(a, name, t) /\ name \in Names
  BY DEF MayCall, Names, CallNames
<1> QED BY <1>1, CallFragment

(* What a frame does it may do under the EncodeLock of its track.           *)
LEMMA FrameStepsFragment ==
  ASSUME NEW a \in Points, NEW t \in Tracks, MayEncode(a, t), NEW fits \in BOOLEAN, NEW pending \in BOOLEAN
  PROVE  Fragment(a, FrameSteps(t, fits, pending), a)
<1> DEFINE f == IF fits THEN << >> ELSE Recreate(t)
           b == IF pending THEN Call("SetBitrate", t) ELSE << >>
<1>1. Below(a.locks, Top)
  BY DEF MayEncode
<1>2. Fragment(a, f, a)
  BY RecreateFragment, EmptyFragment
<1>3. Fragment(a, b, a)
  BY <1>1, OpenCall, EmptyFragment
<1>4. Fragment(a, Call("Encode", t), a)
  BY <1>1, OpenCall
<1> HIDE DEF f, b
<1>5. Fragment(a, (f \o b) \o Call("Encode", t), a)
  BY <1>2, <1>3, <1>4, ConcatFragments
<1> QED BY <1>5 DEF FrameSteps, f, b

(* What happens under the EncodeLock of a track.                             *)
LEMMA EncodeLockTaken ==
  ASSUME NEW a \in Points, NEW t \in Tracks, Below(a.locks, 3)
  PROVE  /\ MayTake(a, EncodeLock(t)) /\ EncodeLock(t) \in Locks
         /\ Held(a, EncodeLock(t)) \in Points /\ MayEncode(Held(a, EncodeLock(t)), t)
<1>1. EncodeLock(t) \in Locks /\ Rank(EncodeLock(t)) = 2 + t /\ 2 + t >= 3 /\ 2 + t < Top /\ 2 + t \in Nat
  BY LockTypes, TrackTypes
<1>2. Below(a.locks, 2 + t) /\ Below(a.locks, Top)
  BY <1>1, BelowMore, TrackTypes
<1>3. Below(Held(a, EncodeLock(t)).locks, Top) /\ HoldsIn(Held(a, EncodeLock(t)).locks, EncodeLock(t))
  BY <1>1, <1>2, HeldLocks, TrackTypes
<1> QED BY <1>1, <1>2, <1>3, HeldIsPoint DEF MayTake, MayEncode

(* The steps that take the EncodeLock of one track are fragments.           *)
LEMMA UnderEncodeLock ==
  ASSUME NEW a \in Points, NEW t \in Tracks, Below(a.locks, 3)
  PROVE  /\ Fragment(a, EnsureEncoder(t), a)
         /\ Fragment(a, PushTexture(t), a)
         /\ Fragment(a, With(EncodeLock(t), << >>), a)
         /\ Fragment(a, With(EncodeLock(t), Call("SetBitrate", t)), a)
         /\ Fragment(a, With(EncodeLock(t), Call("SetFps", t)), a)
         /\ Fragment(a, DisposeRefusing(t), a)
<1> DEFINE l == EncodeLock(t)
           h == Held(a, l)
<1>1. MayTake(a, l) /\ l \in Locks /\ h \in Points /\ MayEncode(h, t)
  BY EncodeLockTaken
<1>2. Below(h.locks, Top) /\ Safe(h, t)
  BY <1>1 DEF MayEncode, Safe
<1> HIDE DEF h
<1>3. /\ Fragment(h, <<Do("ensure", "encoder", t, 0)>>, h)
      /\ Fragment(h, <<Do("frame", "encoder", t, 0)>>, h)
  BY <1>1, FrameFragment
<1>4. Fragment(h, << >>, h)
  BY <1>1, EmptyFragment
<1>5. Fragment(h, Call("SetBitrate", t), h) /\ Fragment(h, Call("SetFps", t), h)
  BY <1>1, <1>2, OpenCall
<1>6. Fragment(h, DisposeEncoder(t), h)
  BY <1>1, <1>2, DisposeEncoderFragment
<1>7. ASSUME NEW s, Fragment(h, s, h) PROVE Fragment(a, With(l, s), a)
  BY <1>1, <1>7, WithLock DEF h
<1> HIDE DEF l
<1>8. /\ Fragment(a, With(l, <<Do("ensure", "encoder", t, 0)>>), a)
      /\ Fragment(a, With(l, <<Do("frame", "encoder", t, 0)>>), a)
  BY <1>3, <1>7
<1>9. /\ Fragment(a, With(l, << >>), a) /\ Fragment(a, With(l, Call("SetBitrate", t)), a)
      /\ Fragment(a, With(l, Call("SetFps", t)), a) /\ Fragment(a, With(l, DisposeEncoder(t)), a)
  BY <1>4, <1>5, <1>6, <1>7
<1> QED BY <1>8, <1>9 DEF EnsureEncoder, PushTexture, DisposeRefusing, l

-----------------------------------------------------------------------------
(* The loops.                                                                *)
LEMMA BodyFragment ==
  ASSUME NEW a \in Points, NEW name, NEW T \in SUBSET Tracks, NEW t \in T,
         MayLoop(a, name, T), name # "Stop", NEW body \in Body(name, t)
  PROVE  Fragment(a, body, a)
<1>1. t \in Tracks /\ name \in LoopNames /\ Below(a.locks, LoopLimit(name)) /\ (name = "Dispose" => a.over)
  BY DEF MayLoop
<1>2. Top \in Nat /\ Top > 3
  BY TrackTypes
<1>3. CASE name \in {"Flush", "Dispose"}
  <2>1. Below(a.locks, Top)
    BY <1>1, <1>3 DEF LoopLimit
  <2>2. Fragment(a, Call("Flush", t), a)
    BY <1>1, <2>1, OpenCall
  <2>3. name = "Dispose" => Fragment(a, DisposeEncoder(t), a)
    BY <1>1, <2>1, DisposeEncoderFragment DEF Safe
  <2> QED BY <1>3, <2>2, <2>3 DEF Body
<1>4. CASE name = "Request"
  <2>1. Below(a.locks, 2)
    BY <1>1, <1>4 DEF LoopLimit
  <2>2. Fragment(a, RequestKeyframe, a)
    BY <2>1, LockTypes, RequestFragment DEF MayTake
  <2> QED BY <1>4, <2>2 DEF Body
<1>5. CASE name \in {"Initialize", "Invalidate", "SetBitrate", "SetFps", "Refused"}
  <2>1. Below(a.locks, 3)
    <3>1. LoopLimit(name) \in {2, 3}
      BY <1>5 DEF LoopLimit
    <3> QED BY <1>1, <3>1, BelowMore
  <2>2. /\ Fragment(a, EnsureEncoder(t), a)
        /\ Fragment(a, With(EncodeLock(t), << >>), a)
        /\ Fragment(a, With(EncodeLock(t), Call("SetBitrate", t)), a)
        /\ Fragment(a, With(EncodeLock(t), Call("SetFps", t)), a)
        /\ Fragment(a, DisposeRefusing(t), a)
        /\ Fragment(a, << >>, a)
    BY <1>1, <2>1, UnderEncodeLock, EmptyFragment
  <2> QED BY <1>5, <2>2 DEF Body
<1> QED BY <1>1, <1>3, <1>4, <1>5 DEF LoopNames, MayLoop

(* The bitrate of all tracks may be set where no lock above _lock is held.  *)
LEMMA SetBitrateFragment ==
  ASSUME NEW a \in Points, Below(a.locks, 2)
  PROVE  Fragment(a, Snapshot("SetBitrate"), a)
<1>1. MayTake(a, StreamLock) /\ Below(a.locks, 3)
  BY LockTypes, BelowMore DEF MayTake
<1>2. MayLoop(a, "SetBitrate", Tracks)
  BY <1>1 DEF MayLoop, LoopLimit, LoopNames
<1>3. "SetBitrate" \in Copied
  BY DEF Copied
<1> QED BY <1>1, <1>2, <1>3, SnapshotFragment

(* A loop whose tracks have been copied is a fragment.                      *)
LEMMA WholeEach ==
  ASSUME NEW a \in Points, NEW name \in LoopNames, MayLoop(a, name, Tracks)
  PROVE  Fragment(a, Each(name, Tracks), a)
<1>1. name \in Names /\ Tracks \in SUBSET Tracks /\ Tracks # {}
  BY TrackTypes DEF Names
<1> QED BY <1>1, EachFragment

(* The tracks are cleared when the streamer is disposed of.                 *)
LEMMA TracksFragment ==
  ASSUME NEW a \in Points, a.over
  PROVE  Fragment(a, Set("tracks", FALSE), a)
<1> DEFINE no == FALSE
           n == IF no THEN 1 ELSE 0
<1>1. MaySet(a, "tracks", n) /\ "tracks" \in Names /\ "tracks" # "disposed" /\ no \in BOOLEAN
  BY DEF MaySet, ModeNames, Names
<1> HIDE DEF no
<1>2. Fragment(a, Set("tracks", no), a)
  BY <1>1, SetKeeps
<1> QED BY <1>2 DEF no

(* Relay mode is left by a disposed streamer or with all EncodeLocks held.  *)
LEMMA DirectFragment ==
  ASSUME NEW a \in Points, Below(a.locks, Top), a.over \/ AllFrozen(a)
  PROVE  Fragment(a, Set("relay", FALSE), a)
<1> DEFINE no == FALSE
           n == IF no THEN 1 ELSE 0
<1>1. MaySet(a, "relay", n) /\ "relay" \in Names /\ "relay" # "disposed" /\ no \in BOOLEAN
  BY DEF MaySet, ModeNames, Names
<1> HIDE DEF no
<1>2. Fragment(a, Set("relay", no), a)
  BY <1>1, SetKeeps
<1> QED BY <1>2 DEF no

(* What comes behind a loop is a fragment.                                  *)
LEMMA BehindFragment ==
  ASSUME NEW a \in Points, NEW name, NEW T, MayLoop(a, name, T), name # "Stop", NEW next \in Behind(name)
  PROVE  Fragment(a, next, a)
<1>1. name \in LoopNames /\ Below(a.locks, LoopLimit(name)) /\ (name = "Dispose" => a.over)
  BY DEF MayLoop
<1>2. CASE name = "Dispose"
  <2>1. next = Set("tracks", FALSE)
    BY <1>2 DEF Behind
  <2> QED BY <1>1, <1>2, <2>1, TracksFragment
<1>3. CASE name = "SetFps"
  <2> DEFINE r == Each("Refused", Tracks)
             b == Snapshot("SetBitrate")
  <2>1. Below(a.locks, 2)
    BY <1>1, <1>3 DEF LoopLimit
  <2>2. Fragment(a, b, a)
    BY <2>1, SetBitrateFragment
  <2>3. Fragment(a, r, a)
    <3>1. MayLoop(a, "Refused", Tracks) /\ "Refused" \in LoopNames
      BY <2>1, BelowMore DEF MayLoop, LoopLimit, LoopNames
    <3> QED BY <3>1, WholeEach
  <2>4. next \in {<< >>, b, r, r \o b}
    BY <1>3 DEF Behind
  <2> HIDE DEF r, b
  <2> QED BY <2>2, <2>3, <2>4, EmptyFragment, ConcatFragments
<1>4. CASE name \notin {"Dispose", "SetFps"}
  <2>1. next = << >>
    BY <1>4 DEF Behind
  <2> QED BY <2>1, EmptyFragment
<1> QED BY <1>2, <1>3, <1>4

(* When the EncodeLocks of all tracks are held relay mode is left.           *)
LEMMA LeavingRelay ==
  ASSUME NEW a \in Points, Below(a.locks, Top), AllFrozen(a)
  PROVE  Fragment(a, Each("Flush", Tracks) \o Set("relay", FALSE), a)
<1>1. MayLoop(a, "Flush", Tracks) /\ "Flush" \in LoopNames
  BY DEF MayLoop, LoopLimit, LoopNames
<1> QED BY <1>1, WholeEach, DirectFragment, ConcatFragments

(* So is the rest of a loop within the next EncodeLock, the tracks in       *)
(* order.                                                                   *)
LEMMA FrozenFragment ==
  ASSUME NEW a \in Points, NEW T \in SUBSET Tracks, NEW t \in T, \A u \in T : t <= u,
         MayLoop(a, "Stop", T),
         NEW next \in IF T \ {t} = {} THEN Behind("Stop") ELSE {Each("Stop", T \ {t})}
  PROVE  Fragment(a, Frozen(t, next), a)
<1> DEFINE l == EncodeLock(t)
           h == Held(a, l)
           rest == T \ {t}
<1>1. /\ \A u \in T : Below(a.locks, 2 + u)
      /\ \A u \in Tracks \ T : HoldsIn(a.locks, EncodeLock(u))
      /\ Below(a.locks, Top)
  BY DEF MayLoop
<1>2. t \in Tracks /\ l \in Locks /\ Rank(l) = 2 + t /\ 2 + t < Top /\ t \in Nat /\ Top \in Nat
  BY LockTypes, TrackTypes
<1>3. MayTake(a, l) /\ h \in Points
  BY <1>1, <1>2, HeldIsPoint DEF MayTake
<1>4. Below(h.locks, Top) /\ HoldsIn(h.locks, l) /\ \A k : HoldsIn(a.locks, k) => HoldsIn(h.locks, k)
  BY <1>1, <1>2, HeldLocks
<1>5. \A u \in rest : Below(h.locks, 2 + u)
  <2>1. ASSUME NEW u \in rest PROVE Below(h.locks, 2 + u)
    <3>1. u \in Nat /\ t < u /\ 2 + u \in Nat /\ Below(a.locks, 2 + u)
      BY <1>1, <1>2, TrackTypes
    <3> QED BY <1>2, <3>1, HeldLocks
  <2> QED BY <2>1
<1> HIDE DEF h
<1>6. \A u \in Tracks \ rest : HoldsIn(h.locks, EncodeLock(u))
  BY <1>1, <1>4
<1>7. Fragment(h, next, h)
  <2>1. CASE rest = {}
    <3>1. next = Each("Flush", Tracks) \o Set("relay", FALSE)
      BY <2>1 DEF Behind
    <3>2. AllFrozen(h)
      BY <1>6, <2>1 DEF AllFrozen
    <3> QED BY <1>3, <1>4, <3>1, <3>2, LeavingRelay
  <2>2. CASE rest # {}
    <3>1. MayLoop(h, "Stop", rest) /\ "Stop" \in Names /\ rest \in SUBSET Tracks
      BY <1>4, <1>5, <1>6 DEF MayLoop, LoopNames, Names
    <3>2. next = Each("Stop", rest)
      BY <2>2
    <3> HIDE DEF rest
    <3> QED BY <1>3, <2>2, <3>1, <3>2, EachFragment
  <2> QED BY <2>1, <2>2
<1>8. Fragment(a, With(l, next), a)
  BY <1>2, <1>3, <1>7, WithLock DEF h
<1> QED BY <1>8 DEF Frozen

-----------------------------------------------------------------------------
(* ApplyRelayBitratePolicy takes its lock before that of the streamer.      *)
LEMMA ApplyFragment ==
  ASSUME NEW a \in Points, Below(a.locks, 1)
  PROVE  Fragment(a, ApplyRelayBitratePolicy, a)
<1> DEFINE h == Held(a, RelayBitrateLock)
<1>1. h \in Points /\ Below(h.locks, 2) /\ MayTake(a, RelayBitrateLock)
  <2>1. Below(a.locks, 2)
    BY BelowMore
  <2> QED BY <2>1, LockTypes, HeldLocks, HeldIsPoint DEF MayTake
<1> HIDE DEF h
<1>2. Fragment(h, ForceSetBitrate, h)
  BY <1>1, SetBitrateFragment DEF ForceSetBitrate
<1> QED BY <1>1, <1>2, LockTypes, WithLock DEF ApplyRelayBitratePolicy, h

(* InitializeEncoders and ResetSyncState take _lock first.                  *)
LEMMA InitializeFragment ==
  ASSUME NEW a \in Points, Below(a.locks, 2)
  PROVE  Fragment(a, InitializeEncoders, a) /\ Fragment(a, ResetSyncState, a)
BY LoopUnderLock DEF InitializeEncoders, ResetSyncState

(* The requests of key frames for all tracks take _lock alone.              *)
LEMMA RequestsFragment ==
  ASSUME NEW a \in Points, Below(a.locks, 2)
  PROVE  Fragment(a, Each("Request", Tracks), a)
<1>1. MayLoop(a, "Request", Tracks) /\ "Request" \in LoopNames
  BY DEF MayLoop, LoopLimit, LoopNames
<1> QED BY <1>1, WholeEach

(* The relay workers and relay mode are switched on in any order of locks.  *)
LEMMA RelayOnFragment ==
  ASSUME NEW a \in Points
  PROVE  /\ Fragment(a, Set("workers", TRUE), a) /\ Fragment(a, Set("relay", TRUE), a)
         /\ Fragment(a, Set("workers", FALSE), a)
<1> DEFINE no == FALSE
           yes == TRUE
           z == IF no THEN 1 ELSE 0
           n == IF yes THEN 1 ELSE 0
<1>1. /\ MaySet(a, "workers", z) /\ MaySet(a, "workers", n) /\ MaySet(a, "relay", n)
      /\ "workers" \in Names /\ "relay" \in Names /\ "workers" # "disposed" /\ "relay" # "disposed"
      /\ no \in BOOLEAN /\ yes \in BOOLEAN
  BY DEF MaySet, ModeNames, Names
<1> HIDE DEF no, yes
<1>2. Fragment(a, Set("workers", no), a) /\ Fragment(a, Set("workers", yes), a) /\ Fragment(a, Set("relay", yes), a)
  BY <1>1, SetKeeps
<1> QED BY <1>2 DEF no, yes

(* The loop that freezes all tracks may begin below _lock.                  *)
LEMMA StopLoopFragment ==
  ASSUME NEW a \in Points, Below(a.locks, 2)
  PROVE  Fragment(a, Snapshot("Stop"), a)
<1>1. MayTake(a, StreamLock) /\ Below(a.locks, Top)
  BY LockTypes, BelowMore, TrackTypes DEF MayTake
<1>2. ASSUME NEW u \in Tracks PROVE Below(a.locks, 2 + u)
  <2>1. u \in Nat /\ 2 + u \in Nat /\ 2 <= 2 + u
    BY TrackTypes
  <2> QED BY <2>1, BelowMore
<1>3. MayLoop(a, "Stop", Tracks) /\ "Stop" \in Copied
  BY <1>1, <1>2 DEF MayLoop, LoopNames, Copied
<1> QED BY <1>1, <1>3, SnapshotFragment

(* StartRelayMediaMode keeps the order of the locks.                        *)
LEMMA StartFragment ==
  ASSUME NEW a \in Points, Below(a.locks, 0)
  PROVE  Fragment(a, StartRelayMediaMode, a)
<1> DEFINE h == Held(a, RelayLifecycle)
<1>1. h \in Points /\ Below(h.locks, 1) /\ MayTake(a, RelayLifecycle)
  <2>1. Below(a.locks, 1)
    BY BelowMore
  <2> QED BY <2>1, LockTypes, HeldLocks, HeldIsPoint DEF MayTake
<1> HIDE DEF h
<1>2. Below(h.locks, 2)
  BY <1>1, BelowMore
<1> DEFINE s1 == Set("workers", TRUE)
           s2 == Set("relay", TRUE)
           s6 == Each("Request", Tracks)
<1>3. /\ Fragment(h, s1, h) /\ Fragment(h, s2, h) /\ Fragment(h, InitializeEncoders, h)
      /\ Fragment(h, ApplyRelayBitratePolicy, h) /\ Fragment(h, ResetSyncState, h) /\ Fragment(h, s6, h)
  BY <1>1, <1>2, RelayOnFragment, InitializeFragment, ApplyFragment, RequestsFragment
<1> HIDE DEF s1, s2, s6
<1>4. Fragment(h, s1 \o s2, h)
  BY <1>3, ConcatFragments
<1>5. Fragment(h, s1 \o s2 \o InitializeEncoders, h)
  BY <1>3, <1>4, ConcatFragments
<1>6. Fragment(h, s1 \o s2 \o InitializeEncoders \o ApplyRelayBitratePolicy, h)
  BY <1>3, <1>5, ConcatFragments
<1>7. Fragment(h, s1 \o s2 \o InitializeEncoders \o ApplyRelayBitratePolicy \o ResetSyncState, h)
  BY <1>3, <1>6, ConcatFragments
<1> DEFINE s == s1 \o s2 \o InitializeEncoders \o ApplyRelayBitratePolicy \o ResetSyncState \o s6
<1>8. Fragment(h, s, h)
  BY <1>3, <1>7, ConcatFragments
<1> HIDE DEF s
<1>9. Fragment(a, With(RelayLifecycle, s), a)
  BY <1>1, <1>8, LockTypes, WithLock DEF h
<1> QED BY <1>9 DEF StartRelayMediaMode, s, s1, s2, s6

(* So does StopRelayMediaMode,                                              *)
LEMMA StopFragment ==
  ASSUME NEW a \in Points, Below(a.locks, 0)
  PROVE  Fragment(a, StopRelayMediaMode, a)
<1> DEFINE h == Held(a, RelayLifecycle)
<1>1. h \in Points /\ Below(h.locks, 1) /\ MayTake(a, RelayLifecycle)
  <2>1. Below(a.locks, 1)
    BY BelowMore
  <2> QED BY <2>1, LockTypes, HeldLocks, HeldIsPoint DEF MayTake
<1> HIDE DEF h
<1>2. Below(h.locks, 2)
  BY <1>1, BelowMore
<1> DEFINE s1 == Set("workers", FALSE)
           s2 == Snapshot("Stop")
           s3 == Each("Request", Tracks)
<1>3. /\ Fragment(h, s1, h) /\ Fragment(h, s2, h) /\ Fragment(h, s3, h)
      /\ Fragment(h, ApplyRelayBitratePolicy, h)
  BY <1>1, <1>2, RelayOnFragment, StopLoopFragment, RequestsFragment, ApplyFragment
<1> HIDE DEF s1, s2, s3
<1>4. Fragment(h, s1 \o s2, h)
  BY <1>3, ConcatFragments
<1>5. Fragment(h, s1 \o s2 \o s3, h)
  BY <1>3, <1>4, ConcatFragments
<1> DEFINE s == s1 \o s2 \o s3 \o ApplyRelayBitratePolicy
<1>6. Fragment(h, s, h)
  BY <1>3, <1>5, ConcatFragments
<1> HIDE DEF s
<1>7. Fragment(a, With(RelayLifecycle, s), a)
  BY <1>1, <1>6, LockTypes, WithLock DEF h
<1> QED BY <1>7 DEF StopRelayMediaMode, s, s1, s2, s3

(* Dispose, after which the streamer is known to be disposed of,            *)
LEMMA DisposeFragment ==
  ASSUME NEW a \in Points, Below(a.locks, 0)
  PROVE  Fragment(a, Dispose, Raised(a))
<1> DEFINE yes == TRUE
           n == IF yes THEN 1 ELSE 0
           b == Raised(a)
<1>1. Fragment(a, Set("disposed", TRUE), b)
  <2>1. MaySet(a, "disposed", n) /\ "disposed" \in Names /\ yes \in BOOLEAN
    BY DEF MaySet, ModeNames, Names
  <2>2. Point(a.locks, a.over \/ "disposed" = "disposed") = b
    BY DEF Raised
  <2> HIDE DEF yes, b
  <2>3. Fragment(a, Set("disposed", yes), Point(a.locks, a.over \/ "disposed" = "disposed"))
    BY <2>1, SetFragment
  <2> QED BY <2>2, <2>3 DEF yes
<1>2. b \in Points /\ b.over /\ Below(b.locks, 0)
  BY RaisedIsPoint DEF Raised, Point
<1> HIDE DEF b
<1>3. Below(b.locks, 2) /\ MayTake(b, StreamLock)
  BY <1>2, BelowMore, LockTypes DEF MayTake
<1>4. Fragment(b, RequestKeyframe, b)
  BY <1>2, <1>3, RequestFragment
<1>5. Fragment(b, With(StreamLock, Over("Dispose")), b)
  BY <1>2, <1>3, LoopUnderLock
<1>6. Fragment(a, Set("disposed", TRUE) \o RequestKeyframe, b)
  BY <1>1, <1>4, ConcatFragments
<1>7. Fragment(a, Set("disposed", TRUE) \o RequestKeyframe \o With(StreamLock, Over("Dispose")), b)
  BY <1>5, <1>6, ConcatFragments
<1> QED BY <1>7 DEF Dispose, b

(* UpdateConfig,                                                            *)
LEMMA UpdateFragment ==
  ASSUME NEW a \in Points, Below(a.locks, 2)
  PROVE  Fragment(a, UpdateConfig, a)
<1>1. MayLoop(a, "SetFps", Tracks) /\ "SetFps" \in Copied
  BY DEF MayLoop, LoopLimit, LoopNames, Copied
<1>2. MayTake(a, StreamLock)
  BY LockTypes DEF MayTake
<1> QED BY <1>1, <1>2, SnapshotFragment DEF UpdateConfig

(* and ForceReinitializeEncoders.                                           *)
LEMMA ReinitializeFragment ==
  ASSUME NEW a \in Points, Below(a.locks, 2)
  PROVE  Fragment(a, ForceReinitializeEncoders, a)
<1>1. Fragment(a, With(StreamLock, Over("Invalidate")), a)
  BY LoopUnderLock
<1> QED BY <1>1, InitializeFragment, ConcatFragments DEF ForceReinitializeEncoders

(* A thread that holds nothing may begin each of them.                       *)
LEMMA OperationsEnd ==
  ASSUME NEW over \in BOOLEAN, NEW op \in {ForceReinitializeEncoders, ResetSyncState, ForceSetBitrate,
           UpdateConfig, StartRelayMediaMode, StopRelayMediaMode, Dispose}
  PROVE  Ends(Point(<< >>, over), op)
<1> DEFINE a == Point(<< >>, over)
<1>1. a \in Points /\ Below(a.locks, 0) /\ Below(a.locks, 2) /\ Raised(a) = Point(<< >>, TRUE)
  BY DEF Point, Points, Below, Raised
<1> HIDE DEF a
<1>2. /\ Fragment(a, ForceReinitializeEncoders, a) /\ Fragment(a, ResetSyncState, a)
      /\ Fragment(a, ForceSetBitrate, a) /\ Fragment(a, UpdateConfig, a)
      /\ Fragment(a, StartRelayMediaMode, a) /\ Fragment(a, StopRelayMediaMode, a)
      /\ Fragment(a, Dispose, Point(<< >>, TRUE))
  BY <1>1, ReinitializeFragment, InitializeFragment, SetBitrateFragment, UpdateFragment, StartFragment,
     StopFragment, DisposeFragment DEF ForceSetBitrate
<1>3. Fragment(a, op, Point(<< >>, TRUE)) \/ Fragment(a, op, a)
  BY <1>2
<1> QED BY <1>3 DEF Ends, a

(* So may a capture thread begin its frame.                                 *)
LEMMA CaptureEnds ==
  ASSUME NEW over \in BOOLEAN, NEW t \in Tracks
  PROVE  Ends(Point(<< >>, over), PushTexture(t))
<1> DEFINE a == Point(<< >>, over)
<1>1. a \in Points /\ Below(a.locks, 3)
  BY DEF Point, Points, Below
<1> HIDE DEF a
<1>2. Fragment(a, PushTexture(t), a)
  BY <1>1, UnderEncodeLock
<1> QED BY <1>2 DEF Ends, a

-----------------------------------------------------------------------------
(* A fragment in front of what is left of an operation.                     *)
LEMMA ConcatEnds ==
  ASSUME NEW a, NEW s, NEW b, NEW t, Fragment(a, s, b), Ends(b, t)
  PROVE  Ends(a, s \o t)
BY ConcatFragments DEF Ends

(* And its first step taken away.                                           *)
LEMMA SplitEnds ==
  ASSUME NEW a, NEW s, Ends(a, s), s # << >>
  PROVE  \E c \in Points : Effect(a, s[1], c) /\ Ends(c, Tail(s))
BY SplitFragment DEF Ends

(* What is left of an operation does not begin inside a native function.    *)
LEMMA EndsPlain ==
  ASSUME NEW a, NEW s, Ends(a, s)
  PROVE  ~ Serves(s) /\ Stands(a, s) /\ s \in Seq(Steps) /\ a \in Points
<1>1. ~ Serves(s)
  <2>1. SUFFICES ASSUME s # << >>, s[1].do \in Serving PROVE FALSE
    BY DEF Serves
  <2>2. PICK c : Effect(a, s[1], c)
    BY <2>1, SplitEnds
  <2> QED BY <2>1, <2>2 DEF Effect, Serving
<1> QED BY <1>1, FragmentPoints DEF Stands, Ends

(* Where nothing is left no lock is held.                                   *)
LEMMA EndsIdle ==
  ASSUME NEW a, Ends(a, << >>)
  PROVE  a.locks = << >>
<1>1. PICK over \in BOOLEAN : Fragment(a, << >>, Point(<< >>, over))
  BY DEF Ends
<1>2. PICK L \in [1 .. Len(<< >>) + 1 -> Points] : L[1] = a /\ L[Len(<< >>) + 1] = Point(<< >>, over)
  BY <1>1 DEF Fragment
<1>3. Len(<< >>) + 1 = 1
  OBVIOUS
<1> QED BY <1>2, <1>3 DEF Point

(* What is left when the locks that come first have been given back.         *)
LEMMA GivenBack ==
  ASSUME NEW a, NEW s, Ends(a, s), NEW n \in 0 .. Len(s), \A i \in 1 .. n : s[i].do = "exit"
  PROVE  /\ Ends(Stripped(a, n), SubSeq(s, n + 1, Len(s)))
         /\ SubSeq(a.locks, 1, Len(a.locks) - n) \in Seq(Locks)
         /\ \A k : HoldsIn(SubSeq(a.locks, 1, Len(a.locks) - n), k) => HoldsIn(a.locks, k)
<1>1. PICK over \in BOOLEAN : Fragment(a, s, Point(<< >>, over))
  BY DEF Ends
<1>2. n <= Len(a.locks) /\ Fragment(Stripped(a, n), SubSeq(s, n + 1, Len(s)), Point(<< >>, over))
  BY <1>1, ExitsStrip
<1>3. a.locks \in Seq(Locks) /\ Len(a.locks) \in Nat
  BY <1>1, FragmentPoints DEF Points
<1> DEFINE w == SubSeq(a.locks, 1, Len(a.locks) - n)
<1>4. w \in Seq(Locks) /\ Len(w) = Len(a.locks) - n /\ \A i \in 1 .. Len(w) : w[i] = a.locks[i]
  BY <1>2, <1>3
<1> HIDE DEF w
<1>5. \A k : HoldsIn(w, k) => HoldsIn(a.locks, k)
  BY <1>2, <1>3, <1>4 DEF HoldsIn
<1> QED BY <1>2, <1>4, <1>5 DEF Ends, w

-----------------------------------------------------------------------------
(* A disposed streamer asks less of the encoder that is met.                *)
LEMMA MeetsRaised ==
  ASSUME NEW locks, NEW over \in BOOLEAN, NEW d \in BOOLEAN, over => d, NEW step, NEW made,
         Meets(Point(locks, over), step, made)
  PROVE  Meets(Point(locks, d), step, made)
BY DEF Meets, Point

(* A thread that may do its steps may do them after the disposal.           *)
LEMMA StandsRaised ==
  ASSUME NEW locks, NEW over \in BOOLEAN, NEW d \in BOOLEAN, over => d, NEW s,
         Stands(Point(locks, over), s)
  PROVE  Stands(Point(locks, d), s)
<1>1. CASE d = over
  BY <1>1
<1>2. CASE d # over
  <2>1. over = FALSE /\ d = TRUE
    BY <1>2
  <2>2. Raised(Point(locks, over)) = Point(locks, d)
    BY <2>1 DEF Raised, Point
  <2>3. CASE Serves(s)
    <3>1. MayServe(Point(locks, over), s[1]) /\ Ends(Point(locks, over), Tail(s))
      BY <2>3 DEF Stands
    <3>2. Ends(Point(locks, d), Tail(s))
      BY <3>1, <2>2, EndsRaised
    <3>3. MayServe(Point(locks, d), s[1])
      BY <3>1, <2>1 DEF MayServe, Safe, Point
    <3> QED BY <2>3, <3>2, <3>3 DEF Stands
  <2>4. CASE ~ Serves(s)
    BY <2>2, <2>4, EndsRaised DEF Stands
  <2> QED BY <2>3, <2>4
<1> QED BY <1>1, <1>2

(* A lock of h that th does not hold yet is free.                            *)
NewLocksFree(th, h) ==
  \A l \in Locks : HoldsIn(h, l) =>
    HoldsIn(held[th], l) \/ \A other \in Threads \ {th} : ~ HoldsIn(held[other], l)

(* The encoders that the others are about to use are still those.            *)
OthersMeet(th, made, over) ==
  \A other \in Threads \ {th} :
    Serves(todo[other]) => Meets(Point(held[other], over), todo[other][1], made)

(* A step of one thread keeps what holds of all, if it keeps it for this    *)
(* one.                                                                     *)
LEMMA StepKeeps ==
  ASSUME IInv, NEW th \in Threads, NEW s \in Seq(Steps), NEW h \in Seq(Locks),
         mode'.disposed \in BOOLEAN, mode.disposed => mode'.disposed,
         todo' = [todo EXCEPT ![th] = s], held' = [held EXCEPT ![th] = h],
         Stands(Point(h, mode'.disposed), s),
         Serves(s) => Meets(Point(h, mode'.disposed), s[1], context'),
         NewLocksFree(th, h), OthersMeet(th, context', mode'.disposed)
  PROVE  Queues' /\ Exclusive' /\ AllStand'
<1>1. Queues'
  BY DEF IInv, Queues
<1>2. /\ todo'[th] = s /\ held'[th] = h
      /\ \A other \in Threads \ {th} : todo'[other] = todo[other] /\ held'[other] = held[other]
  BY DEF IInv, Queues
<1>3. Exclusive'
  <2>1. SUFFICES ASSUME NEW x \in Threads, NEW y \in Threads, NEW l \in Locks,
                        HoldsIn(held'[x], l), HoldsIn(held'[y], l), x # y
                 PROVE  FALSE
    BY DEF Exclusive
  <2>2. ASSUME NEW z \in Threads, z # th, HoldsIn(h, l), HoldsIn(held[z], l) PROVE FALSE
    <3>1. HoldsIn(held[th], l)
      BY <2>2 DEF NewLocksFree
    <3> QED BY <2>2, <3>1 DEF IInv, Exclusive
  <2>3. CASE x = th
    <3>1. HoldsIn(h, l) /\ y # th /\ HoldsIn(held[y], l)
      BY <1>2, <2>1, <2>3
    <3> QED BY <2>2, <3>1
  <2>4. CASE y = th
    <3>1. HoldsIn(h, l) /\ x # th /\ HoldsIn(held[x], l)
      BY <1>2, <2>1, <2>4
    <3> QED BY <2>2, <3>1
  <2>5. CASE x # th /\ y # th
    <3>1. HoldsIn(held[x], l) /\ HoldsIn(held[y], l)
      BY <1>2, <2>1, <2>5
    <3> QED BY <2>1, <3>1 DEF IInv, Exclusive
  <2> QED BY <2>3, <2>4, <2>5
<1>4. ASSUME NEW o \in Threads
      PROVE  /\ Stands(Point(held'[o], mode'.disposed), todo'[o])
             /\ Serves(todo'[o]) => Meets(Point(held'[o], mode'.disposed), todo'[o][1], context')
  <2>1. CASE o = th
    BY <1>2, <2>1
  <2>2. CASE o # th
    <3>1. Stands(Point(held[o], mode.disposed), todo[o])
      BY DEF IInv, AllStand, Now
    <3>2. mode.disposed \in BOOLEAN
      BY DEF IInv, Encoders
    <3>3. Stands(Point(held[o], mode'.disposed), todo[o])
      BY <3>1, <3>2, StandsRaised
    <3> QED BY <1>2, <2>2, <3>3 DEF OthersMeet
  <2> QED BY <2>1, <2>2
<1>5. AllStand'
  BY <1>4 DEF AllStand, Now
<1> QED BY <1>1, <1>3, <1>5

(* The types of what a thread has to do and of where it stands.             *)
LEMMA QueueTypes ==
  ASSUME IInv, NEW th \in Threads
  PROVE  /\ todo[th] \in Seq(Steps) /\ held[th] \in Seq(Locks) /\ Now(th) \in Points
         /\ Now(th).locks = held[th] /\ Now(th).over = mode.disposed /\ mode.disposed \in BOOLEAN
         /\ todo[th] # << >> => Tail(todo[th]) \in Seq(Steps) /\ First(th) \in Steps
BY DEF IInv, Queues, Encoders, Now, Point, Points, First

(* A step that leaves th with plain steps.                                   *)
LEMMA PlainStep ==
  ASSUME IInv, NEW th \in Threads, NEW steps, NEW locks, Goes(th, steps, locks),
         mode'.disposed \in BOOLEAN, mode.disposed => mode'.disposed,
         Ends(Point(locks, mode'.disposed), steps \o Tail(todo[th])),
         NewLocksFree(th, locks), OthersMeet(th, context', mode'.disposed)
  PROVE  Queues' /\ Exclusive' /\ AllStand'
<1> DEFINE rest == steps \o Tail(todo[th])
           a == Point(locks, mode'.disposed)
<1>1. PICK n \in 0 .. Len(rest) :
        /\ \A i \in 1 .. n : rest[i].do = "exit"
        /\ todo' = [todo EXCEPT ![th] = SubSeq(rest, n + 1, Len(rest))]
        /\ held' = [held EXCEPT ![th] = SubSeq(locks, 1, Len(locks) - n)]
  BY DEF Goes
<1> DEFINE s == SubSeq(rest, n + 1, Len(rest))
           h == SubSeq(locks, 1, Len(locks) - n)
<1>2. a.locks = locks /\ a.over = mode'.disposed
  BY DEF Point
<1>3. /\ Ends(Stripped(a, n), SubSeq(rest, n + 1, Len(rest)))
      /\ SubSeq(a.locks, 1, Len(a.locks) - n) \in Seq(Locks)
      /\ \A k : HoldsIn(SubSeq(a.locks, 1, Len(a.locks) - n), k) => HoldsIn(a.locks, k)
  <2> HIDE DEF rest, a
  <2>1. Ends(a, rest)
    BY DEF a, rest
  <2> QED BY <1>1, <2>1, GivenBack
<1>4. Stripped(a, n) = Point(h, mode'.disposed)
  BY <1>2 DEF Stripped
<1>5. Ends(Point(h, mode'.disposed), s) /\ h \in Seq(Locks) /\ \A k : HoldsIn(h, k) => HoldsIn(locks, k)
  BY <1>2, <1>3, <1>4
<1>6. todo' = [todo EXCEPT ![th] = s] /\ held' = [held EXCEPT ![th] = h]
  BY <1>1
<1> HIDE DEF s, h, rest, a
<1>7. ~ Serves(s) /\ Stands(Point(h, mode'.disposed), s) /\ s \in Seq(Steps)
  BY <1>5, EndsPlain
<1>8. NewLocksFree(th, h)
  BY <1>5 DEF NewLocksFree
<1> QED BY <1>5, <1>6, <1>7, <1>8, StepKeeps

(* A step that leaves th in front of a native function.                      *)
LEMMA ServingStep ==
  ASSUME IInv, NEW th \in Threads, NEW step \in Steps, step.do \in Serving, Doing(th, <<step>>),
         mode'.disposed = mode.disposed, todo[th] # << >>,
         MayServe(Now(th), step), Ends(Now(th), Tail(todo[th])),
         Meets(Now(th), step, context'), OthersMeet(th, context', mode'.disposed)
  PROVE  Queues' /\ Exclusive' /\ AllStand'
<1> DEFINE t == Tail(todo[th])
           rest == <<step>> \o t
<1>1. t \in Seq(Steps) /\ held[th] \in Seq(Locks) /\ mode.disposed \in BOOLEAN
  BY QueueTypes
<1>2. rest \in Seq(Steps) /\ Len(rest) = Len(t) + 1 /\ rest[1] = step /\ rest # << >> /\ Tail(rest) = t
  <2> HIDE DEF t
  <2> QED BY <1>1
<1>3. PICK n \in 0 .. Len(rest) :
        /\ \A i \in 1 .. n : rest[i].do = "exit"
        /\ todo' = [todo EXCEPT ![th] = SubSeq(rest, n + 1, Len(rest))]
        /\ held' = [held EXCEPT ![th] = SubSeq(held[th], 1, Len(held[th]) - n)]
  BY DEF Goes, Doing
<1> HIDE DEF t, rest
<1>4. n = 0
  <2>1. rest[1].do # "exit"
    BY <1>2 DEF Serving
  <2>2. n >= 1 => 1 \in 1 .. n
    BY <1>2
  <2> QED BY <1>2, <1>3, <2>1, <2>2
<1>5. SubSeq(rest, n + 1, Len(rest)) = rest
  <2>1. n + 1 = 1
    BY <1>4
  <2> QED BY <1>2, <2>1, SubSeqFull
<1>6. SubSeq(held[th], 1, Len(held[th]) - n) = held[th]
  <2>1. Len(held[th]) - n = Len(held[th])
    BY <1>1, <1>4
  <2> QED BY <1>1, <2>1, SubSeqFull
<1>7. todo' = [todo EXCEPT ![th] = rest] /\ held' = [held EXCEPT ![th] = held[th]]
  BY <1>3, <1>5, <1>6
<1>8. Serves(rest) /\ Stands(Now(th), rest)
  BY <1>2 DEF Serves, Stands, t
<1>9. Now(th) = Point(held[th], mode'.disposed)
  BY DEF Now
<1>10. NewLocksFree(th, held[th])
  BY DEF NewLocksFree
<1> QED BY <1>1, <1>2, <1>7, <1>8, <1>9, <1>10, StepKeeps

(* Where no encoder changes the others still meet theirs.                   *)
LEMMA OthersKeep ==
  ASSUME IInv, NEW th \in Threads, mode'.disposed \in BOOLEAN, mode.disposed => mode'.disposed
  PROVE  OthersMeet(th, context, mode'.disposed)
<1>1. SUFFICES ASSUME NEW o \in Threads \ {th}, Serves(todo[o])
               PROVE  Meets(Point(held[o], mode'.disposed), todo[o][1], context)
  BY DEF OthersMeet
<1>2. Meets(Point(held[o], mode.disposed), todo[o][1], context) /\ mode.disposed \in BOOLEAN
  BY <1>1 DEF IInv, AllStand, Now, Encoders
<1> QED BY <1>2, MeetsRaised

(* What the first step of th needs, and where it leads.                      *)
LEMMA FirstStep ==
  ASSUME IInv, NEW th \in Threads, todo[th] # << >>, First(th).do \notin Serving
  PROVE  \E c \in Points : Effect(Now(th), First(th), c) /\ Ends(c, Tail(todo[th]))
<1>1. Ends(Now(th), todo[th])
  BY DEF IInv, AllStand, Stands, Serves, First
<1> QED BY <1>1, SplitEnds DEF First

(* What a thread in front of a native function may do.                      *)
LEMMA ServingFirst ==
  ASSUME IInv, NEW th \in Threads, todo[th] # << >>, First(th).do \in Serving
  PROVE  /\ MayServe(Now(th), First(th)) /\ Ends(Now(th), Tail(todo[th]))
         /\ Meets(Now(th), First(th), context)
BY DEF IInv, AllStand, Stands, Serves, First

(* Most steps change nothing but what their thread has still to do.          *)
LEMMA QuietStep ==
  ASSUME IInv, NEW th \in Threads, UNCHANGED <<context, mode>>, NEW steps, NEW c,
         Doing(th, steps), Fragment(Now(th), steps, c), Ends(c, Tail(todo[th]))
  PROVE  Queues' /\ Exclusive' /\ AllStand'
<1>1. Ends(Now(th), steps \o Tail(todo[th]))
  BY ConcatEnds
<1>2. mode' = mode /\ context' = context /\ mode.disposed \in BOOLEAN
  BY QueueTypes
<1>3. Goes(th, steps, held[th]) /\ Now(th) = Point(held[th], mode'.disposed)
  BY <1>2 DEF Doing, Now
<1>4. NewLocksFree(th, held[th])
  BY DEF NewLocksFree
<1>5. OthersMeet(th, context', mode'.disposed)
  BY <1>2, OthersKeep
<1> QED BY <1>1, <1>2, <1>3, <1>4, <1>5, PlainStep

-----------------------------------------------------------------------------
(* Steps that leave the encoders alone keep their types.                    *)
LEMMA EncodersKept ==
  ASSUME IInv, UNCHANGED <<encoder, context, tracks, mode, calls>>
  PROVE  Encoders'
BY DEF IInv, Encoders

(* Only the lock just taken is new.                                         *)
LEMMA AddedLock ==
  ASSUME NEW s \in Seq(Locks), NEW l \in Locks, NEW k, HoldsIn(Append(s, l), k), ~ HoldsIn(s, k)
  PROVE  k = l
<1> DEFINE w == Append(s, l)
<1>1. PICK i \in 1 .. Len(w) : w[i] = k
  BY DEF HoldsIn
<1>2. Len(w) = Len(s) + 1 /\ Len(s) \in Nat
  OBVIOUS
<1>3. CASE i = Len(s) + 1
  BY <1>1, <1>3
<1>4. CASE i # Len(s) + 1
  <2>1. i \in 1 .. Len(s) /\ s[i] = k
    BY <1>1, <1>2, <1>4
  <2> QED BY <2>1 DEF HoldsIn
<1> QED BY <1>3, <1>4

(* And no other thread holds it.                                            *)
LEMMA TakenIsFree ==
  ASSUME IInv, NEW th \in Threads, NEW l \in Locks, Free(th, l)
  PROVE  NewLocksFree(th, Append(held[th], l))
<1>1. SUFFICES ASSUME NEW k \in Locks, HoldsIn(Append(held[th], l), k), ~ HoldsIn(held[th], k)
               PROVE  \A other \in Threads \ {th} : ~ HoldsIn(held[other], k)
  BY DEF NewLocksFree
<1>2. k = l
  BY <1>1, QueueTypes, AddedLock
<1> QED BY <1>2 DEF Free, Holds, HoldsIn

(* Taking a lock keeps the invariant.                                       *)
LEMMA TakeLockKeeps ==
  ASSUME IInv, NEW th \in Threads, TakeLock(th)
  PROVE  IInv'
<1> DEFINE l == LockOf(First(th))
<1>1. /\ todo[th] # << >> /\ First(th).do = "enter" /\ Free(th, l)
      /\ Goes(th, << >>, Append(held[th], l)) /\ UNCHANGED <<encoder, context, tracks, mode, calls>>
  BY DEF TakeLock, Is
<1>2. PICK c \in Points : Effect(Now(th), First(th), c) /\ Ends(c, Tail(todo[th]))
  BY <1>1, FirstStep DEF Serving
<1>3. l \in Locks /\ c = Held(Now(th), l)
  BY <1>1, <1>2 DEF Effect
<1> HIDE DEF l
<1>4. c = Point(Append(held[th], l), mode'.disposed)
  BY <1>1, <1>3 DEF Held, Now, Point
<1>5. Tail(todo[th]) \in Seq(Steps) /\ held[th] \in Seq(Locks) /\ mode.disposed \in BOOLEAN
  BY <1>1, QueueTypes
<1>6. << >> \o Tail(todo[th]) = Tail(todo[th])
  BY <1>5
<1>7. NewLocksFree(th, Append(held[th], l))
  BY <1>1, <1>3, TakenIsFree
<1>8. OthersMeet(th, context', mode'.disposed)
  <2>1. mode'.disposed \in BOOLEAN /\ (mode.disposed => mode'.disposed) /\ context' = context
    BY <1>1, <1>5
  <2> QED BY <2>1, OthersKeep
<1>9. Queues' /\ Exclusive' /\ AllStand'
  <2>1. mode'.disposed \in BOOLEAN /\ (mode.disposed => mode'.disposed)
    BY <1>1, <1>5
  <2> QED BY <1>1, <1>2, <1>4, <1>6, <1>7, <1>8, <2>1, PlainStep
<1> QED BY <1>1, <1>9, EncodersKept DEF IInv

-----------------------------------------------------------------------------
(* A loop over the tracks of a disposed streamer does nothing but what      *)
(* follows it.                                                              *)
LEMMA EmptyLoop ==
  ASSUME IInv, NEW th \in Threads, NEW name, NEW a \in Points, MayLoop(a, name, Tracks), a.over,
         NEW before, Fragment(Now(th), before, a), Ends(a, Tail(todo[th])),
         Iterate(th, before, name, {})
  PROVE  IInv'
<1>1. Doing(th, before \o Without(name)) /\ UNCHANGED <<encoder, context, tracks, mode, calls>>
  BY DEF Iterate
<1>2. Fragment(a, Without(name), a)
  <2>1. CASE name = "Dispose"
    BY <2>1, TracksFragment DEF Without
  <2>2. CASE name = "Stop"
    <3>1. Below(a.locks, Top)
      BY <2>2 DEF MayLoop
    <3> QED BY <2>2, <3>1, DirectFragment DEF Without
  <2>3. CASE name \notin {"Dispose", "Stop"}
    BY <2>3, EmptyFragment DEF Without
  <2> QED BY <2>1, <2>2, <2>3
<1>3. Fragment(Now(th), before \o Without(name), a)
  BY <1>2, ConcatFragments
<1>4. UNCHANGED <<context, mode>>
  BY <1>1
<1>5. Queues' /\ Exclusive' /\ AllStand'
  BY <1>1, <1>3, <1>4, QuietStep
<1> QED BY <1>1, <1>5, EncodersKept DEF IInv

(* The next track of a loop keeps the invariant,                            *)
LEMMA IterateKeeps ==
  ASSUME IInv, NEW th \in Threads, NEW name, NEW a \in Points,
         NEW T \in SUBSET Tracks, T # {}, MayLoop(a, name, T),
         NEW before, Fragment(Now(th), before, a), Ends(a, Tail(todo[th])),
         Iterate(th, before, name, T)
  PROVE  IInv'
<1> DEFINE t == CHOOSE u \in T : \A v \in T : u <= v
           rest == T \ {t}
           Nexts == IF rest = {} THEN Behind(name) ELSE {Each(name, rest)}
<1>1. t \in T /\ \A v \in T : t <= v
  <2>1. T \in SUBSET Nat
    BY TrackTypes
  <2>2. \E u \in T : \A v \in T : u <= v
    BY <2>1, LeastExists
  <2> QED BY <2>2
<1>2. UNCHANGED <<encoder, context, tracks, mode, calls>> /\ UNCHANGED <<context, mode>>
  BY DEF Iterate
<1>3. PICK next \in Nexts :
        IF name = "Stop" THEN Doing(th, before \o Frozen(t, next))
        ELSE \E body \in Body(name, t) : Doing(th, before \o body \o next)
  BY DEF Iterate
<1> HIDE DEF t
<1>4. name \in Names /\ rest \in SUBSET Tracks
  BY DEF MayLoop, Names
<1>5. CASE name = "Stop"
  <2>1. next \in IF T \ {t} = {} THEN Behind("Stop") ELSE {Each("Stop", T \ {t})}
    BY <1>3, <1>5
  <2>2. Fragment(a, Frozen(t, next), a)
    BY <1>1, <1>5, <2>1, FrozenFragment
  <2>3. Fragment(Now(th), before \o Frozen(t, next), a)
    BY <2>2, ConcatFragments
  <2>4. Queues' /\ Exclusive' /\ AllStand'
    BY <1>2, <1>3, <1>5, <2>3, QuietStep
  <2> QED BY <1>2, <2>4, EncodersKept DEF IInv
<1>6. CASE name # "Stop"
  <2>1. PICK body \in Body(name, t) : Doing(th, before \o body \o next)
    BY <1>3, <1>6
  <2>2. Fragment(a, body, a)
    BY <1>1, <1>6, <2>1, BodyFragment
  <2>3. Fragment(a, next, a)
    <3>1. CASE rest = {}
      <4>1. next \in Behind(name)
        BY <1>3, <3>1
      <4> QED BY <1>6, <4>1, BehindFragment
    <3>2. CASE rest # {}
      <4>1. next = Each(name, rest)
        BY <1>3, <3>2
      <4>2. MayLoop(a, name, rest)
        BY <1>6 DEF MayLoop
      <4> HIDE DEF rest
      <4> QED BY <1>4, <3>2, <4>1, <4>2, EachFragment
    <3> QED BY <3>1, <3>2
  <2>4. Fragment(Now(th), before \o body, a)
    BY <2>2, ConcatFragments
  <2>5. Fragment(Now(th), before \o body \o next, a)
    BY <2>3, <2>4, ConcatFragments
  <2>6. Queues' /\ Exclusive' /\ AllStand'
    BY <1>2, <2>1, <2>5, QuietStep
  <2> QED BY <1>2, <2>6, EncodersKept DEF IInv
<1> QED BY <1>5, <1>6

(* where the loop begins                                                    *)
LEMMA LoopOverKeeps ==
  ASSUME IInv, NEW th \in Threads, LoopOver(th)
  PROVE  IInv'
<1> DEFINE name == First(th).name
           before == IF name \in Copied THEN <<Exit(StreamLock)>> ELSE << >>
<1>1. todo[th] # << >> /\ First(th).do = "over" /\ Iterate(th, before, name, tracks)
  BY DEF LoopOver, Is
<1>2. PICK c \in Points : Effect(Now(th), First(th), c) /\ Ends(c, Tail(todo[th]))
  BY <1>1, FirstStep DEF Serving
<1>3. /\ MayLoop(c, name, Tracks)
      /\ Now(th) = IF name \in Copied THEN Held(c, StreamLock) ELSE c
  BY <1>1, <1>2 DEF Effect
<1> HIDE DEF name
<1>4. Fragment(Now(th), before, c)
  BY <1>3, LockTypes, Leaving, EmptyFragment
<1>5. c.over = mode.disposed
  BY <1>3, LockTypes, HeldLocks, QueueTypes
<1> HIDE DEF before
<1>6. CASE tracks = {}
  <2>1. c.over
    BY <1>5, <1>6 DEF IInv, Encoders
  <2> QED BY <1>1, <1>2, <1>3, <1>4, <1>6, <2>1, EmptyLoop
<1>7. CASE tracks # {}
  <2>1. tracks = Tracks /\ tracks \in SUBSET Tracks
    BY <1>7 DEF IInv, Encoders
  <2> QED BY <1>1, <1>2, <1>3, <1>4, <1>7, <2>1, IterateKeeps
<1> QED BY <1>6, <1>7

(* and where it goes on.                                                    *)
LEMMA GoOnKeeps ==
  ASSUME IInv, NEW th \in Threads, GoOn(th)
  PROVE  IInv'
<1> DEFINE name == First(th).name
           T == First(th).rest
<1>1. todo[th] # << >> /\ First(th).do = "each" /\ Iterate(th, << >>, name, T)
  BY DEF GoOn, Is
<1>2. PICK c \in Points : Effect(Now(th), First(th), c) /\ Ends(c, Tail(todo[th]))
  BY <1>1, FirstStep DEF Serving
<1>3. MayLoop(Now(th), name, T) /\ c = Now(th) /\ T # {} /\ T \in SUBSET Tracks
  BY <1>1, <1>2 DEF Effect
<1>4. Fragment(Now(th), << >>, c)
  BY <1>2, <1>3, EmptyFragment
<1> HIDE DEF name, T
<1> QED BY <1>1, <1>2, <1>3, <1>4, IterateKeeps

-----------------------------------------------------------------------------
(* A frame keeps the invariant.                                             *)
LEMMA HandleFrameKeeps ==
  ASSUME IInv, NEW th \in Threads, HandleFrame(th)
  PROVE  IInv'
<1> DEFINE t == First(th).track
<1>1. /\ todo[th] # << >> /\ First(th).do = "frame" /\ UNCHANGED <<encoder, context, tracks, mode, calls>>
      /\ \/ Doing(th, Call("SetBitrate", t))
         \/ \E fits, pending \in BOOLEAN : Doing(th, FrameSteps(t, fits, pending))
  BY DEF HandleFrame, Is
<1>2. PICK c \in Points : Effect(Now(th), First(th), c) /\ Ends(c, Tail(todo[th]))
  BY <1>1, FirstStep DEF Serving
<1>3. MayEncode(Now(th), t) /\ c = Now(th) /\ t \in Tracks /\ Below(Now(th).locks, Top)
  BY <1>1, <1>2 DEF Effect, MayEncode
<1> HIDE DEF t
<1>4. Fragment(Now(th), Call("SetBitrate", t), c)
  BY <1>2, <1>3, OpenCall
<1>5. \A fits, pending \in BOOLEAN : Fragment(Now(th), FrameSteps(t, fits, pending), c)
  BY <1>2, <1>3, FrameStepsFragment
<1>6. UNCHANGED <<context, mode>>
  BY <1>1
<1>7. Queues' /\ Exclusive' /\ AllStand'
  <2>1. CASE Doing(th, Call("SetBitrate", t))
    BY <1>2, <1>4, <1>6, <2>1, QuietStep
  <2>2. ASSUME NEW fits \in BOOLEAN, NEW pending \in BOOLEAN, Doing(th, FrameSteps(t, fits, pending))
        PROVE  Queues' /\ Exclusive' /\ AllStand'
    BY <1>2, <1>5, <1>6, <2>2, QuietStep
  <2> QED BY <1>1, <2>1, <2>2
<1> QED BY <1>1, <1>7, EncodersKept DEF IInv

(* So does the look at the size of the encoder,                             *)
LEMMA EnsureKeeps ==
  ASSUME IInv, NEW th \in Threads, EnsureEncoderMatchesResolution(th)
  PROVE  IInv'
<1> DEFINE t == First(th).track
<1>1. /\ todo[th] # << >> /\ First(th).do = "ensure" /\ UNCHANGED <<encoder, context, tracks, mode, calls>>
      /\ Doing(th, << >>) \/ Doing(th, Recreate(t))
  BY DEF EnsureEncoderMatchesResolution, Is
<1>2. PICK c \in Points : Effect(Now(th), First(th), c) /\ Ends(c, Tail(todo[th]))
  BY <1>1, FirstStep DEF Serving
<1>3. MayEncode(Now(th), t) /\ c = Now(th) /\ t \in Tracks
  BY <1>1, <1>2 DEF Effect, MayEncode
<1> HIDE DEF t
<1>4. Fragment(Now(th), << >>, c) /\ Fragment(Now(th), Recreate(t), c)
  BY <1>2, <1>3, RecreateFragment, EmptyFragment
<1>5. UNCHANGED <<context, mode>>
  BY <1>1
<1>6. Queues' /\ Exclusive' /\ AllStand'
  BY <1>1, <1>2, <1>4, <1>5, QuietStep
<1> QED BY <1>1, <1>6, EncodersKept DEF IInv

(* a callback, which takes _lock whatever it holds,                         *)
LEMMA OnEncodedDataKeeps ==
  ASSUME IInv, NEW th \in Threads, OnEncodedData(th)
  PROVE  IInv'
<1>1. /\ todo[th] # << >> /\ First(th).do = "deliver" /\ UNCHANGED <<encoder, context, tracks, mode, calls>>
      /\ Doing(th, << >>) \/ Doing(th, RequestKeyframe)
  BY DEF OnEncodedData, Is
<1>2. PICK c \in Points : Effect(Now(th), First(th), c) /\ Ends(c, Tail(todo[th]))
  BY <1>1, FirstStep DEF Serving
<1>3. HasMutex(Now(th).locks) /\ c = Now(th)
  BY <1>1, <1>2 DEF Effect
<1>4. Fragment(Now(th), << >>, c) /\ Fragment(Now(th), RequestKeyframe, c)
  BY <1>2, <1>3, RequestFragment, EmptyFragment DEF MayTake
<1>5. UNCHANGED <<context, mode>>
  BY <1>1
<1>6. Queues' /\ Exclusive' /\ AllStand'
  BY <1>1, <1>2, <1>4, <1>5, QuietStep
<1> QED BY <1>1, <1>6, EncodersKept DEF IInv

(* and the end of an encoder that its track forgets.                        *)
LEMMA ForgetEncoderKeeps ==
  ASSUME IInv, NEW th \in Threads, ForgetEncoder(th)
  PROVE  IInv'
<1>1. /\ todo[th] # << >> /\ First(th).do = "null" /\ UNCHANGED <<context, tracks, mode, calls>>
      /\ Doing(th, << >>) /\ encoder' = [encoder EXCEPT ![First(th).track] = 0]
  BY DEF ForgetEncoder, Is
<1>2. PICK c \in Points : Effect(Now(th), First(th), c) /\ Ends(c, Tail(todo[th]))
  BY <1>1, FirstStep DEF Serving
<1>3. c = Now(th)
  BY <1>1, <1>2 DEF Effect
<1>4. Fragment(Now(th), << >>, c) /\ UNCHANGED <<context, mode>>
  BY <1>1, <1>2, <1>3, EmptyFragment
<1>5. Queues' /\ Exclusive' /\ AllStand'
  BY <1>1, <1>2, <1>4, QuietStep
<1>6. encoder' \in [Tracks -> 0 .. MaxEncoders] /\ \A t \in Tracks : encoder'[t] \in {encoder[t], 0}
  <2>1. encoder \in [Tracks -> 0 .. MaxEncoders] /\ 0 \in 0 .. MaxEncoders
    BY EncoderLocksAssumption DEF IInv, Encoders
  <2> QED BY <1>1, <2>1
<1>7. \A t \in Tracks : encoder'[t] <= Len(context[t])
  <2>1. \A t \in Tracks : encoder[t] <= Len(context[t]) /\ Len(context[t]) \in Nat
    BY DEF IInv, Encoders
  <2> QED BY <1>6, <2>1
<1>8. Encoders'
  BY <1>1, <1>6, <1>7 DEF IInv, Encoders
<1> QED BY <1>5, <1>8 DEF IInv

-----------------------------------------------------------------------------
(* A new encoder leaves those made before it as they are.                   *)
LEMMA CreateEncoderKeeps ==
  ASSUME IInv, NEW th \in Threads, CreateEncoder(th)
  PROVE  IInv'
<1> DEFINE t == First(th).track
<1>1. /\ todo[th] # << >> /\ First(th).do = "create" /\ Doing(th, << >>)
      /\ UNCHANGED <<tracks, mode, calls>>
      /\ \/ UNCHANGED <<encoder, context>>
         \/ /\ Len(context[t]) # MaxEncoders
            /\ context' = [context EXCEPT ![t] = Append(@, "live")]
            /\ encoder' = [encoder EXCEPT ![t] = Len(context[t]) + 1]
  BY DEF CreateEncoder, Is
<1>2. PICK c \in Points : Effect(Now(th), First(th), c) /\ Ends(c, Tail(todo[th]))
  BY <1>1, FirstStep DEF Serving
<1>3. c = Now(th) /\ t \in Tracks
  BY <1>1, <1>2 DEF Effect
<1>4. Fragment(Now(th), << >>, c)
  BY <1>2, <1>3, EmptyFragment
<1> HIDE DEF t
<1>5. CASE UNCHANGED <<encoder, context>>
  <2>1. UNCHANGED <<context, mode>> /\ UNCHANGED <<encoder, context, tracks, mode, calls>>
    BY <1>1, <1>5
  <2>2. Queues' /\ Exclusive' /\ AllStand'
    BY <1>1, <1>2, <1>4, <2>1, QuietStep
  <2> QED BY <2>1, <2>2, EncodersKept DEF IInv
<1>6. CASE /\ Len(context[t]) # MaxEncoders
           /\ context' = [context EXCEPT ![t] = Append(@, "live")]
           /\ encoder' = [encoder EXCEPT ![t] = Len(context[t]) + 1]
  <2> DEFINE made == Append(context[t], "live")
  <2>1. /\ context[t] \in Seq(States) /\ Len(context[t]) \in Nat /\ Len(context[t]) <= MaxEncoders
        /\ context \in [Tracks -> Seq(States)] /\ MaxEncoders \in Nat
    BY <1>3, EncoderLocksAssumption DEF IInv, Encoders
  <2>2. made \in Seq(States) /\ Len(made) = Len(context[t]) + 1 /\ \A n \in 1 .. Len(context[t]) : made[n] = context[t][n]
    BY <2>1 DEF States
  <2> HIDE DEF made
  <2>3. context' = [context EXCEPT ![t] = made]
    BY <1>6 DEF made
  <2>4. context' \in [Tracks -> Seq(States)] /\ context'[t] = made /\ \A u \in Tracks \ {t} : context'[u] = context[u]
    BY <1>3, <2>1, <2>2, <2>3
  <2>5. /\ encoder' \in [Tracks -> 0 .. MaxEncoders] /\ encoder'[t] = Len(made)
        /\ \A u \in Tracks \ {t} : encoder'[u] = encoder[u]
    BY <1>3, <1>6, <2>1, <2>2 DEF IInv, Encoders
  <2>6. \A u \in Tracks : encoder'[u] <= Len(context'[u]) /\ Len(context'[u]) <= MaxEncoders
    <3>1. ASSUME NEW u \in Tracks PROVE encoder'[u] <= Len(context'[u]) /\ Len(context'[u]) <= MaxEncoders
      <4>1. CASE u = t
        BY <1>6, <2>1, <2>2, <2>4, <2>5, <4>1
      <4>2. CASE u # t
        BY <2>4, <2>5, <4>2 DEF IInv, Encoders
      <4> QED BY <4>1, <4>2
    <3> QED BY <3>1
  <2>7. Encoders'
    BY <1>1, <2>4, <2>5, <2>6 DEF IInv, Encoders
  <2>8. mode' = mode /\ mode.disposed \in BOOLEAN
    BY <1>1, QueueTypes
  <2>9. OthersMeet(th, context', mode'.disposed)
    <3>1. SUFFICES ASSUME NEW o \in Threads \ {th}, Serves(todo[o])
                   PROVE  Meets(Point(held[o], mode'.disposed), todo[o][1], context')
      BY DEF OthersMeet
    <3> DEFINE step == todo[o][1]
    <3>2. Meets(Point(held[o], mode'.disposed), step, context) /\ step.track \in Tracks
      BY <2>8, <3>1 DEF IInv, AllStand, Now, Stands, MayServe
    <3> HIDE DEF step
    <3>3. CASE step.track = t
      <4>1. step.number \in 1 .. Len(context[t])
        BY <3>2, <3>3 DEF Meets
      <4>2. step.number \in 1 .. Len(context'[t]) /\ context'[t][step.number] = context[t][step.number]
        BY <2>1, <2>2, <2>4, <4>1
      <4> QED BY <3>2, <3>3, <4>2 DEF Meets, step
    <3>4. CASE step.track # t
      BY <2>4, <3>2, <3>4 DEF Meets, step
    <3> QED BY <3>3, <3>4
  <2>10. NewLocksFree(th, held[th])
    BY DEF NewLocksFree
  <2>11. Ends(Now(th), << >> \o Tail(todo[th])) /\ Now(th) = Point(held[th], mode'.disposed)
    BY <1>2, <1>4, <2>8, ConcatEnds DEF Now
  <2>12. Goes(th, << >>, held[th])
    BY <1>1 DEF Doing
  <2>13. Queues' /\ Exclusive' /\ AllStand'
    BY <2>8, <2>9, <2>10, <2>11, <2>12, PlainStep
  <2> QED BY <2>7, <2>13 DEF IInv
<1> QED BY <1>1, <1>5, <1>6

(* The steps that concern a track have their type.                          *)
LEMMA StepType ==
  ASSUME NEW what \in Verbs, NEW name \in Names, NEW t \in Tracks, NEW n \in Nat
  PROVE  /\ Do(what, name, t, n) \in Steps
         /\ Do(what, name, t, n).do = what /\ Do(what, name, t, n).name = name
         /\ Do(what, name, t, n).track = t /\ Do(what, name, t, n).number = n
BY DoType, TrackTypes

(* So have their names.                                                     *)
LEMMA NameType ==
  ASSUME NEW step \in Steps
  PROVE  step.name \in Names
BY DEF Steps

(* A call goes into an encoder that is not destroyed, or does nothing.      *)
LEMMA CallWrapperKeeps ==
  ASSUME IInv, NEW th \in Threads, CallWrapper(th)
  PROVE  IInv'
<1> DEFINE name == First(th).name
           t == First(th).track
           n == encoder[t]
           step == Do("native", name, t, n)
<1>1. /\ todo[th] # << >> /\ First(th).do = "call" /\ UNCHANGED <<encoder, context, tracks, mode, calls>>
      /\ \/ n # 0 /\ context[t][n] \in {"live", "disposing"} /\ Doing(th, <<step>>)
         \/ Doing(th, << >>)
  BY DEF CallWrapper, Is
<1>2. PICK c \in Points : Effect(Now(th), First(th), c) /\ Ends(c, Tail(todo[th]))
  BY <1>1, FirstStep DEF Serving
<1>3. MayCall(Now(th), name, t) /\ c = Now(th) /\ t \in Tracks /\ Below(Now(th).locks, Top)
  BY <1>1, <1>2 DEF Effect, MayCall
<1>4. name \in Names
  BY <1>1, QueueTypes, NameType
<1> HIDE DEF name, t
<1>5. UNCHANGED <<context, mode>>
  BY <1>1
<1>6. CASE Doing(th, << >>)
  <2>1. Fragment(Now(th), << >>, c)
    BY <1>2, <1>3, EmptyFragment
  <2>2. Queues' /\ Exclusive' /\ AllStand'
    BY <1>2, <1>5, <1>6, <2>1, QuietStep
  <2> QED BY <1>1, <2>2, EncodersKept DEF IInv
<1>7. CASE n # 0 /\ context[t][n] \in {"live", "disposing"} /\ Doing(th, <<step>>)
  <2>1. n \in Nat /\ n \in 1 .. Len(context[t])
    BY <1>3, <1>7, EncoderLocksAssumption DEF IInv, Encoders
  <2>2. step \in Steps /\ step.do = "native" /\ step.track = t /\ step.number = n
    BY <1>3, <1>4, <2>1, StepType DEF Verbs
  <2> HIDE DEF step, n
  <2>3. step.do \in Serving /\ MayServe(Now(th), step)
    BY <1>3, <2>2 DEF Serving, MayServe
  <2>4. Meets(Now(th), step, context')
    BY <1>5, <1>7, <2>1, <2>2 DEF Meets
  <2>5. OthersMeet(th, context', mode'.disposed) /\ mode'.disposed = mode.disposed
    <3>1. mode' = mode /\ context' = context /\ mode.disposed \in BOOLEAN
      BY <1>1, QueueTypes
    <3> QED BY <3>1, OthersKeep
  <2>6. Queues' /\ Exclusive' /\ AllStand'
    BY <1>1, <1>2, <1>3, <1>7, <2>2, <2>3, <2>4, <2>5, ServingStep
  <2> QED BY <1>1, <2>6, EncodersKept DEF IInv
<1> QED BY <1>1, <1>6, <1>7

(* Within a step an encoder of t that is being destroyed is one that others   *)
(* with the EncodeLock cannot be about to use.                               *)
LEMMA OthersMissDestroyed ==
  ASSUME IInv, NEW th \in Threads, NEW t \in Tracks, NEW n \in 1 .. Len(context[t]), NEW state \in States,
         context' = [context EXCEPT ![t][n] = state], UNCHANGED mode,
         state = "disposing" \/ Safe(Now(th), t)
  PROVE  OthersMeet(th, context', mode'.disposed)
<1>1. SUFFICES ASSUME NEW o \in Threads \ {th}, Serves(todo[o])
               PROVE  Meets(Point(held[o], mode'.disposed), todo[o][1], context')
  BY DEF OthersMeet
<1> DEFINE step == todo[o][1]
<1>2. Meets(Now(o), step, context) /\ step.track \in Tracks
  BY <1>1 DEF IInv, AllStand, Stands, MayServe
<1> HIDE DEF step
<1>3. /\ context[t] \in Seq(States) /\ Len(context[t]) \in Nat /\ t \in DOMAIN context
      /\ n \in DOMAIN context[t]
  BY DEF IInv, Encoders
<1> DEFINE made == [context[t] EXCEPT ![n] = state]
<1>4. /\ context'[t] = made /\ \A u \in Tracks \ {t} : context'[u] = context[u]
      /\ Len(made) = Len(context[t]) /\ made[n] = state
      /\ \A i \in 1 .. Len(context[t]) : i # n => made[i] = context[t][i]
  BY <1>3 DEF IInv, Encoders
<1> HIDE DEF made
<1>5. Now(o) = Point(held[o], mode'.disposed) /\ Now(o).locks = held[o] /\ Now(o).over = mode.disposed
  BY QueueTypes DEF Now
<1>6. CASE step.track # t
  BY <1>2, <1>4, <1>5, <1>6 DEF Meets, step
<1>7. CASE step.track = t /\ step.number # n
  <2>1. step.number \in 1 .. Len(context[t])
    BY <1>2, <1>7 DEF Meets
  <2>2. step.number \in 1 .. Len(context'[t]) /\ context'[t][step.number] = context[t][step.number]
    BY <1>4, <1>7, <2>1
  <2> QED BY <1>2, <1>5, <1>7, <2>2 DEF Meets, step
<1>8. CASE step.track = t /\ step.number = n
  <2>1. step.number \in 1 .. Len(context'[t]) /\ context'[t][step.number] = state
    BY <1>4, <1>8
  <2>2. CASE state = "disposing"
    BY <1>5, <1>8, <2>1, <2>2 DEF Meets, step
  <2>3. CASE state # "disposing" /\ ~ mode.disposed
    <3>1. HoldsIn(held[th], EncodeLock(t))
      BY <2>3, QueueTypes DEF Safe
    <3>2. ~ HoldsIn(held[o], EncodeLock(t))
      BY <3>1, LockTypes DEF IInv, Exclusive
    <3> QED BY <1>5, <1>8, <2>1, <3>2 DEF Meets, step
  <2>4. CASE mode.disposed
    BY <1>5, <1>8, <2>1, <2>4 DEF Meets, step
  <2> QED BY <2>2, <2>3, <2>4
<1> QED BY <1>6, <1>7, <1>8

(* One encoder changes and the others keep their states.                    *)
LEMMA ContextType ==
  ASSUME IInv, NEW t \in Tracks, NEW n \in 1 .. Len(context[t]), NEW state \in States,
         context' = [context EXCEPT ![t][n] = state], UNCHANGED <<encoder, tracks, mode, calls>>
  PROVE  /\ Encoders' /\ Len(context'[t]) = Len(context[t]) /\ context'[t][n] = state
<1>1. /\ context \in [Tracks -> Seq(States)] /\ context[t] \in Seq(States) /\ Len(context[t]) \in Nat
  BY DEF IInv, Encoders
<1> DEFINE made == [context[t] EXCEPT ![n] = state]
<1>2. made \in Seq(States) /\ Len(made) = Len(context[t]) /\ made[n] = state
  BY <1>1, ExceptSeq
<1>3. context' = [context EXCEPT ![t] = made]
  BY <1>1
<1> HIDE DEF made
<1>4. context' \in [Tracks -> Seq(States)] /\ context'[t] = made /\ \A u \in Tracks \ {t} : context'[u] = context[u]
  BY <1>1, <1>2, <1>3
<1>5. \A u \in Tracks : encoder[u] <= Len(context'[u]) /\ Len(context'[u]) <= MaxEncoders
  BY <1>2, <1>4 DEF IInv, Encoders
<1> QED BY <1>2, <1>4, <1>5 DEF IInv, Encoders

(* Dispose of the wrapper leads to the native function that closes.         *)
LEMMA DisposeWrapperKeeps ==
  ASSUME IInv, NEW th \in Threads, DisposeWrapper(th)
  PROVE  IInv'
<1> DEFINE t == First(th).track
           n == encoder[t]
           step == Do("close", "closed", t, n)
<1>1. /\ todo[th] # << >> /\ First(th).do = "call" /\ First(th).name = "Dispose"
      /\ UNCHANGED <<encoder, tracks, mode, calls>>
      /\ \/ /\ n # 0 /\ context' = [context EXCEPT ![t][n] = "disposing"] /\ Doing(th, <<step>>)
         \/ Doing(th, << >>) /\ context' = context
  BY DEF DisposeWrapper, Is
<1>2. PICK c \in Points : Effect(Now(th), First(th), c) /\ Ends(c, Tail(todo[th]))
  BY <1>1, FirstStep DEF Serving
<1>3. Safe(Now(th), t) /\ c = Now(th) /\ t \in Tracks /\ Below(Now(th).locks, Top)
  BY <1>1, <1>2 DEF Effect, MayCall
<1> HIDE DEF t
<1>4. CASE Doing(th, << >>) /\ context' = context
  <2>1. Fragment(Now(th), << >>, c) /\ UNCHANGED <<context, mode>>
    BY <1>1, <1>2, <1>3, <1>4, EmptyFragment
  <2>2. Queues' /\ Exclusive' /\ AllStand'
    BY <1>2, <1>4, <2>1, QuietStep
  <2> QED BY <1>1, <1>4, <2>2, EncodersKept DEF IInv
<1>5. CASE n # 0 /\ context' = [context EXCEPT ![t][n] = "disposing"] /\ Doing(th, <<step>>)
  <2>1. n \in Nat /\ n \in 1 .. Len(context[t]) /\ "disposing" \in States
    BY <1>3, <1>5, EncoderLocksAssumption DEF IInv, Encoders, States
  <2>2. step \in Steps /\ step.do = "close" /\ step.name = "closed" /\ step.track = t /\ step.number = n
    <3>1. "close" \in Verbs /\ "closed" \in Names
      BY DEF Verbs, Names
    <3> HIDE DEF n
    <3> QED BY <1>3, <2>1, <3>1, StepType
  <2> HIDE DEF step, n
  <2>3. step.do \in Serving /\ MayServe(Now(th), step)
    BY <1>3, <2>2 DEF Serving, MayServe
  <2>4. Encoders' /\ Len(context'[t]) = Len(context[t]) /\ context'[t][n] = "disposing"
    BY <1>1, <1>3, <1>5, <2>1, ContextType
  <2>5. Meets(Now(th), step, context')
    BY <2>1, <2>2, <2>4 DEF Meets
  <2>6. OthersMeet(th, context', mode'.disposed)
    BY <1>1, <1>3, <1>5, <2>1, OthersMissDestroyed
  <2>7. mode'.disposed = mode.disposed
    BY <1>1
  <2>8. Queues' /\ Exclusive' /\ AllStand'
    BY <1>1, <1>2, <1>3, <1>5, <2>2, <2>3, <2>5, <2>6, <2>7, ServingStep
  <2> QED BY <2>4, <2>8 DEF IInv
<1> QED BY <1>1, <1>4, <1>5

(* Closing and deleting an encoder keeps the invariant: its EncodeLock is   *)
(* held.                                                                    *)
LEMMA DestroyNativeKeeps ==
  ASSUME IInv, NEW th \in Threads, DestroyNative(th)
  PROVE  IInv'
<1> DEFINE step == First(th)
           t == step.track
           n == step.number
           deletion == Do("delete", "freed", t, n)
<1>1. /\ todo[th] # << >> /\ step.do \in {"close", "delete"}
      /\ Doing(th, <<deletion>>) \/ Doing(th, << >>)
      /\ context' = [context EXCEPT ![t][n] = step.name] /\ UNCHANGED <<encoder, tracks, mode, calls>>
  BY DEF DestroyNative, Is
<1>2. /\ MayServe(Now(th), step) /\ Ends(Now(th), Tail(todo[th])) /\ Meets(Now(th), step, context)
  BY <1>1, ServingFirst DEF Serving
<1>3. /\ t \in Tracks /\ Below(Now(th).locks, Top) /\ Safe(Now(th), t) /\ step.name \in States
      /\ n \in 1 .. Len(context[t]) /\ n \in Nat
  BY <1>1, <1>2 DEF MayServe, Meets, States
<1> DEFINE name == step.name
<1> HIDE DEF t, n, name
<1>4. context' = [context EXCEPT ![t][n] = name] /\ name \in States
  BY <1>1, <1>3 DEF name
<1>5. Encoders' /\ Len(context'[t]) = Len(context[t])
  BY <1>1, <1>3, <1>4, ContextType
<1>6. OthersMeet(th, context', mode'.disposed)
  BY <1>1, <1>3, <1>4, OthersMissDestroyed
<1>7. mode' = mode /\ mode.disposed \in BOOLEAN /\ mode'.disposed = mode.disposed
  BY <1>1, QueueTypes
<1>8. CASE Doing(th, <<deletion>>)
  <2>1. /\ deletion \in Steps /\ deletion.do = "delete" /\ deletion.name = "freed"
        /\ deletion.track = t /\ deletion.number = n
    <3>1. "delete" \in Verbs /\ "freed" \in Names
      BY DEF Verbs, Names
    <3> QED BY <1>3, <3>1, StepType
  <2> HIDE DEF deletion
  <2>2. deletion.do \in Serving /\ MayServe(Now(th), deletion) /\ Meets(Now(th), deletion, context')
    BY <1>3, <1>5, <2>1 DEF Serving, MayServe, Meets
  <2>3. Queues' /\ Exclusive' /\ AllStand'
    BY <1>1, <1>2, <1>6, <1>7, <1>8, <2>1, <2>2, ServingStep
  <2> QED BY <1>5, <2>3 DEF IInv
<1>9. CASE Doing(th, << >>)
  <2>1. Now(th) = Point(held[th], mode'.disposed) /\ NewLocksFree(th, held[th]) /\ Goes(th, << >>, held[th])
    BY <1>7, <1>9 DEF Now, NewLocksFree, Doing
  <2>2. Ends(Now(th), << >> \o Tail(todo[th]))
    BY <1>2, QueueTypes, EmptyFragment, ConcatEnds
  <2>3. Queues' /\ Exclusive' /\ AllStand'
    BY <1>6, <1>7, <2>1, <2>2, PlainStep
  <2> QED BY <1>5, <2>3 DEF IInv
<1> QED BY <1>1, <1>8, <1>9

(* A native function takes the mutex of its encoder.                        *)
LEMMA LockOfNative ==
  ASSUME NEW step, step.do \in {"native", "close"}
  PROVE  LockOf(step) = EncodeMutex(step.track, step.number)
BY DEF LockOf

(* Two steps are one behind the other.                                      *)
LEMMA PairOfSteps ==
  ASSUME NEW d \in Steps, NEW e \in Steps
  PROVE  <<d>> \o <<e>> = <<d, e>>
<1> DEFINE u == <<d>>
           v == <<e>>
           w == <<d, e>>
<1>1. u \in Seq(Steps) /\ v \in Seq(Steps) /\ w \in Seq(Steps) /\ Len(u) = 1 /\ Len(v) = 1 /\ Len(w) = 2
  OBVIOUS
<1>2. u[1] = d /\ v[1] = e /\ w[1] = d /\ w[2] = e
  OBVIOUS
<1> HIDE DEF u, v, w
<1>3. u \o v \in Seq(Steps) /\ Len(u \o v) = 2 /\ (u \o v)[1] = d /\ (u \o v)[2] = e
  <2>1. /\ u \o v \in Seq(Steps) /\ Len(u \o v) = 1 + 1
        /\ \A i \in 1 .. 1 + 1 : (u \o v)[i] = IF i <= 1 THEN u[i] ELSE v[i - 1]
    <3>1. /\ u \o v \in Seq(Steps) /\ Len(u \o v) = Len(u) + Len(v)
          /\ \A i \in 1 .. Len(u) + Len(v) : (u \o v)[i] = IF i <= Len(u) THEN u[i] ELSE v[i - Len(u)]
      BY <1>1, ConcatProperties, Zenon
    <3> QED BY <1>1, <3>1
  <2>2. 1 \in 1 .. 1 + 1 /\ 2 \in 1 .. 1 + 1 /\ 2 - 1 = 1 /\ ~ (2 <= 1) /\ 1 + 1 = 2
    OBVIOUS
  <2> QED BY <1>2, <2>1, <2>2
<1>4. u \o v = w
  BY <1>1, <1>2, <1>3, SeqEqual
<1> QED BY <1>4 DEF u, v, w

(* A native function runs, or its callback begins with the mutex held.      *)
LEMMA RunNativeKeeps ==
  ASSUME IInv, NEW th \in Threads, RunNative(th)
  PROVE  IInv'
<1> DEFINE step == First(th)
           l == LockOf(step)
           d == Do("deliver", "frame", step.track, 0)
<1>1. /\ todo[th] # << >> /\ step.do = "native" /\ Free(th, l)
      /\ Doing(th, << >>) \/ Goes(th, <<d, Exit(l)>>, Append(held[th], l))
      /\ UNCHANGED <<encoder, context, tracks, mode, calls>>
  BY DEF RunNative, Is
<1>2. MayServe(Now(th), step) /\ Ends(Now(th), Tail(todo[th])) /\ Meets(Now(th), step, context)
  BY <1>1, ServingFirst DEF Serving
<1>3. step.track \in Tracks /\ step.number \in Nat
  BY <1>2 DEF MayServe, Meets
<1>4. Now(th) \in Points /\ UNCHANGED <<context, mode>>
  BY <1>1, QueueTypes
<1>5. CASE Doing(th, << >>)
  <2>1. Fragment(Now(th), << >>, Now(th))
    BY <1>4, EmptyFragment
  <2>2. Queues' /\ Exclusive' /\ AllStand'
    BY <1>2, <1>4, <1>5, <2>1, QuietStep
  <2> QED BY <1>1, <2>2, EncodersKept DEF IInv
<1>6. CASE Goes(th, <<d, Exit(l)>>, Append(held[th], l))
  <2>1. l \in Locks /\ l[1] = "mutex"
    <3>1. l = EncodeMutex(step.track, step.number)
      BY <1>1, LockOfNative
    <3> QED BY <1>3, <3>1, LockTypes DEF EncodeMutex
  <2> DEFINE h == Held(Now(th), l)
             e == Exit(l)
  <2>2. h \in Points /\ HasMutex(h.locks)
    BY <1>4, <2>1, HeldIsPoint, HeldLocks
  <2>3. Fragment(h, <<e>>, Now(th))
    BY <1>4, <2>1, Leaving
  <2>4. Fragment(h, <<d>>, h)
    <3> HIDE DEF h
    <3> QED BY <1>3, <2>2, DeliverFragment
  <2>5. <<d>> \o <<e>> = <<d, e>>
    <3>1. d \in Steps /\ e \in Steps
      <4>1. "deliver" \in Verbs /\ "frame" \in Names /\ 0 \in Nat
        BY DEF Verbs, Names
      <4> QED BY <1>3, <2>1, <4>1, StepType, EnterAndExit
    <3> HIDE DEF d, e
    <3> QED BY <3>1, PairOfSteps
  <2>6. Ends(h, <<d, e>> \o Tail(todo[th]))
    <3> HIDE DEF h, d, e
    <3>1. Fragment(h, <<d, e>>, Now(th))
      BY <2>3, <2>4, <2>5, ConcatFragments
    <3> QED BY <1>2, <3>1, ConcatEnds
  <2>7. mode' = mode /\ context' = context /\ mode.disposed \in BOOLEAN
    BY <1>1, QueueTypes
  <2>8. h = Point(Append(held[th], l), mode'.disposed)
    BY <2>7 DEF Held, Now, Point
  <2>9. NewLocksFree(th, Append(held[th], l))
    BY <1>1, <2>1, TakenIsFree
  <2>10. OthersMeet(th, context', mode'.disposed)
    BY <2>7, OthersKeep
  <2> HIDE DEF h, d, l
  <2>11. Queues' /\ Exclusive' /\ AllStand'
    BY <1>6, <2>6, <2>7, <2>8, <2>9, <2>10, PlainStep
  <2> QED BY <1>1, <2>11, EncodersKept DEF IInv
<1> QED BY <1>1, <1>5, <1>6

-----------------------------------------------------------------------------
(* Setting one mode leaves the others.                                      *)
LEMMA ModeSet ==
  ASSUME NEW m, m \in [relay : BOOLEAN, workers : BOOLEAN, disposed : BOOLEAN],
         NEW name \in {"relay", "workers", "disposed"}, NEW v \in BOOLEAN
  PROVE  LET w == [m EXCEPT ![name] = v] IN
         /\ w \in [relay : BOOLEAN, workers : BOOLEAN, disposed : BOOLEAN]
         /\ w.relay = IF name = "relay" THEN v ELSE m.relay
         /\ w.disposed = IF name = "disposed" THEN v ELSE m.disposed
OBVIOUS

(* A streamer that goes on leaves relay mode with all EncodeLocks and no    *)
(* mutex held.                                                              *)
LEMMA SetModeKeeps ==
  ASSUME IInv, NEW th \in Threads, SetMode(th)
  PROVE  /\ IInv'
         /\ mode.relay /\ ~ mode'.relay /\ ~ mode.disposed =>
              Below(Now(th).locks, Top) /\ AllFrozen(Now(th))
<1> DEFINE name == First(th).name
           v == (First(th).number = 1)
           dd == mode.disposed \/ name = "disposed"
<1>1. /\ todo[th] # << >> /\ First(th).do = "set" /\ Doing(th, << >>)
      /\ UNCHANGED <<encoder, context, calls>>
      /\ IF name = "tracks" THEN tracks' = {} /\ mode' = mode
         ELSE mode' = [mode EXCEPT ![name] = v] /\ tracks' = tracks
  BY DEF SetMode, Is
<1>2. PICK c \in Points : Effect(Now(th), First(th), c) /\ Ends(c, Tail(todo[th]))
  BY <1>1, FirstStep DEF Serving
<1>3. /\ MaySet(Now(th), name, First(th).number)
      /\ c = Point(Now(th).locks, Now(th).over \/ name = "disposed")
  BY <1>1, <1>2 DEF Effect
<1>4. /\ Now(th).locks = held[th] /\ Now(th).over = mode.disposed /\ mode.disposed \in BOOLEAN
      /\ mode \in [relay : BOOLEAN, workers : BOOLEAN, disposed : BOOLEAN]
  BY QueueTypes DEF IInv, Encoders
<1>5. name \in ModeNames /\ (name = "disposed" => v) /\ v \in BOOLEAN
  BY <1>3 DEF MaySet
<1>6. /\ mode' \in [relay : BOOLEAN, workers : BOOLEAN, disposed : BOOLEAN]
      /\ mode'.relay = IF name = "relay" THEN v ELSE mode.relay
      /\ mode'.disposed = dd
  <2> HIDE DEF v, name
  <2>1. CASE name = "tracks"
    BY <1>1, <1>4, <2>1
  <2>2. CASE name # "tracks"
    <3>1. name \in {"relay", "workers", "disposed"}
      BY <1>5, <2>2 DEF ModeNames
    <3> DEFINE w == [mode EXCEPT ![name] = v]
    <3>2. /\ w \in [relay : BOOLEAN, workers : BOOLEAN, disposed : BOOLEAN]
          /\ w.relay = IF name = "relay" THEN v ELSE mode.relay
          /\ w.disposed = IF name = "disposed" THEN v ELSE mode.disposed
      BY <1>4, <1>5, <3>1, ModeSet
    <3>3. mode' = w
      BY <1>1, <2>2
    <3> HIDE DEF w
    <3> QED BY <1>4, <1>5, <3>2, <3>3
  <2> QED BY <2>1, <2>2
<1>7. name = "relay" /\ ~ v => Below(Now(th).locks, Top) /\ (mode.disposed \/ AllFrozen(Now(th)))
  BY <1>3, <1>4 DEF MaySet
<1>8. name = "tracks" => mode.disposed
  BY <1>3, <1>4 DEF MaySet
<1>9. tracks' = tracks \/ (tracks' = {} /\ name = "tracks")
  BY <1>1
<1> HIDE DEF name, v
<1>10. Encoders'
  BY <1>1, <1>6, <1>8, <1>9 DEF IInv, Encoders
<1>11. c = Point(held[th], mode'.disposed) /\ mode'.disposed \in BOOLEAN /\ (mode.disposed => mode'.disposed)
  BY <1>3, <1>4, <1>6
<1>12. Ends(c, << >> \o Tail(todo[th]))
  BY <1>2, EmptyFragment, ConcatEnds
<1>13. NewLocksFree(th, held[th]) /\ Goes(th, << >>, held[th])
  BY <1>1 DEF NewLocksFree, Doing
<1>14. OthersMeet(th, context', mode'.disposed)
  <2>1. context' = context
    BY <1>1
  <2> QED BY <1>11, <2>1, OthersKeep
<1>15. Queues' /\ Exclusive' /\ AllStand'
  BY <1>11, <1>12, <1>13, <1>14, PlainStep
<1> QED BY <1>6, <1>7, <1>10, <1>15 DEF IInv

-----------------------------------------------------------------------------
(* A thread that has nothing to do begins the steps s.                       *)
LEMMA BeginKeeps ==
  ASSUME IInv, NEW th \in Threads, NEW s, todo[th] = << >>, todo' = [todo EXCEPT ![th] = s],
         UNCHANGED <<held, encoder, context, tracks, mode>>, calls' \in 0 .. MaxCalls,
         Ends(Point(<< >>, mode.disposed), s)
  PROVE  IInv'
<1>1. Ends(Now(th), << >>)
  BY DEF IInv, AllStand, Stands, Serves
<1>2. held[th] = << >> /\ held[th] \in Seq(Locks) /\ mode.disposed \in BOOLEAN
  BY <1>1, EndsIdle, QueueTypes
<1>3. s \in Seq(Steps) /\ ~ Serves(s) /\ Stands(Point(held[th], mode.disposed), s)
  BY <1>2, EndsPlain
<1>4. mode' = mode /\ context' = context /\ held' = [held EXCEPT ![th] = held[th]]
  BY DEF IInv, Queues
<1>5. NewLocksFree(th, held[th])
  BY DEF NewLocksFree
<1>6. OthersMeet(th, context', mode'.disposed)
  BY <1>2, <1>4, OthersKeep
<1>7. Queues' /\ Exclusive' /\ AllStand'
  BY <1>2, <1>3, <1>4, <1>5, <1>6, StepKeeps
<1>8. Encoders'
  BY DEF IInv, Encoders
<1> QED BY <1>7, <1>8 DEF IInv

(* A frame begins.                                                          *)
LEMMA CaptureKeeps ==
  ASSUME IInv, NEW t \in Captured, Capture(t)
  PROVE  IInv'
<1>1. t \in Tracks /\ t \in Threads
  BY EncoderLocksAssumption DEF Threads, Tracks
<1>2. Ends(Point(<< >>, mode.disposed), PushTexture(t))
  BY <1>1, CaptureEnds, QueueTypes
<1>3. calls' \in 0 .. MaxCalls
  BY DEF Capture, IInv, Encoders
<1> QED BY <1>1, <1>2, <1>3, BeginKeeps DEF Capture

(* An operation begins.                                                     *)
LEMMA CallerStartsKeeps ==
  ASSUME IInv, NEW c \in Callers, CallerStarts(c)
  PROVE  IInv'
<1>1. c \in Threads
  BY DEF Threads
<1>2. PICK op \in {ForceReinitializeEncoders, ResetSyncState, ForceSetBitrate, UpdateConfig,
                   StartRelayMediaMode, StopRelayMediaMode, Dispose} : Operate(c, op)
  BY DEF CallerStarts
<1>3. Ends(Point(<< >>, mode.disposed), op)
  BY <1>1, <1>2, OperationsEnd, QueueTypes
<1>4. calls' \in 0 .. MaxCalls
  BY <1>2, EncoderLocksAssumption DEF Operate, IInv, Encoders
<1> QED BY <1>1, <1>2, <1>3, <1>4, BeginKeeps DEF Operate

-----------------------------------------------------------------------------
(* The invariant holds at the beginning.                                    *)
LEMMA InitIInv ==
  Init => IInv
<1> SUFFICES ASSUME Init PROVE IInv
  OBVIOUS
<1>1. todo = [th \in Threads |-> << >>] /\ held = [th \in Threads |-> << >>]
  BY DEF Init
<1>2. << >> \in Seq(Steps) /\ << >> \in Seq(Locks) /\ Len(<< >>) = 0
  OBVIOUS
<1>3. Queues
  BY <1>1, <1>2 DEF Queues
<1>4. Encoders
  <2>1. /\ mode \in [relay : BOOLEAN, workers : BOOLEAN, disposed : BOOLEAN] /\ tracks = Tracks
        /\ calls = 0 /\ encoder = [t \in Tracks |-> 1] /\ context = [t \in Tracks |-> <<"live">>]
    <3>1. PICK relay \in BOOLEAN : mode = [relay |-> relay, workers |-> relay, disposed |-> FALSE]
      BY DEF Init
    <3> QED BY <3>1 DEF Init
  <2>2. <<"live">> \in Seq(States) /\ Len(<<"live">>) = 1
    BY DEF States
  <2>3. 1 \in 0 .. MaxEncoders /\ 1 <= MaxEncoders /\ 0 \in 0 .. MaxCalls /\ Tracks # {}
    BY EncoderLocksAssumption, TrackTypes
  <2> QED BY <2>1, <2>2, <2>3 DEF Encoders
<1>5. Exclusive
  BY <1>1, <1>2 DEF Exclusive, HoldsIn
<1>6. AllStand
  <2>1. SUFFICES ASSUME NEW th \in Threads PROVE Stands(Now(th), todo[th]) /\ ~ Serves(todo[th])
    BY DEF AllStand
  <2>2. todo[th] = << >> /\ held[th] = << >> /\ mode.disposed \in BOOLEAN
    BY <1>1, <1>4 DEF Encoders
  <2>3. Now(th) = Point(<< >>, mode.disposed) /\ Now(th) \in Points
    BY <1>2, <2>2 DEF Now, Point, Points
  <2>4. Ends(Now(th), << >>)
    BY <2>2, <2>3, EmptyFragment DEF Ends
  <2> QED BY <2>2, <2>4, EndsPlain
<1> QED BY <1>3, <1>4, <1>5, <1>6 DEF IInv

(* Every step of a thread keeps it.                                         *)
LEMMA RunKeeps ==
  ASSUME IInv, NEW th \in Threads, Run(th)
  PROVE  IInv'
<1>1. CASE TakeLock(th) BY <1>1, TakeLockKeeps
<1>2. CASE LoopOver(th) BY <1>2, LoopOverKeeps
<1>3. CASE GoOn(th) BY <1>3, GoOnKeeps
<1>4. CASE SetMode(th) BY <1>4, SetModeKeeps
<1>5. CASE HandleFrame(th) BY <1>5, HandleFrameKeeps
<1>6. CASE EnsureEncoderMatchesResolution(th) BY <1>6, EnsureKeeps
<1>7. CASE CreateEncoder(th) BY <1>7, CreateEncoderKeeps
<1>8. CASE ForgetEncoder(th) BY <1>8, ForgetEncoderKeeps
<1>9. CASE CallWrapper(th) BY <1>9, CallWrapperKeeps
<1>10. CASE DisposeWrapper(th) BY <1>10, DisposeWrapperKeeps
<1>11. CASE DestroyNative(th) BY <1>11, DestroyNativeKeeps
<1>12. CASE RunNative(th) BY <1>12, RunNativeKeeps
<1>13. CASE OnEncodedData(th) BY <1>13, OnEncodedDataKeeps
<1> QED BY <1>1, <1>2, <1>3, <1>4, <1>5, <1>6, <1>7, <1>8, <1>9, <1>10, <1>11, <1>12, <1>13 DEF Run

(* And so does no step.                                                     *)
LEMMA StutterKeeps ==
  ASSUME IInv, UNCHANGED vars
  PROVE  IInv'
<1>1. Queues' /\ Encoders' /\ Exclusive'
  BY DEF IInv, vars, Queues, Encoders, Exclusive
<1>2. AllStand'
  BY DEF IInv, vars, AllStand, Now
<1> QED BY <1>1, <1>2 DEF IInv

(* The invariant is inductive.                                              *)
LEMMA NextIInv ==
  IInv /\ [Next]_vars => IInv'
<1> SUFFICES ASSUME IInv, [Next]_vars PROVE IInv'
  OBVIOUS
<1>1. ASSUME NEW t \in Captured, Capture(t) PROVE IInv'
  BY <1>1, CaptureKeeps
<1>2. ASSUME NEW c \in Callers, CallerStarts(c) PROVE IInv'
  BY <1>2, CallerStartsKeeps
<1>3. ASSUME NEW th \in Threads, Run(th) PROVE IInv'
  BY <1>3, RunKeeps
<1>4. CASE UNCHANGED vars
  BY <1>4, StutterKeeps
<1> QED BY <1>1, <1>2, <1>3, <1>4 DEF Next

(* The steps a thread has still to do keep the order of the locks.           *)
THEOREM OrderKept == Spec => []IInv
<1>1. Init => IInv
  BY InitIInv
<1>2. IInv /\ [Next]_vars => IInv'
  BY NextIInv
<1> QED BY <1>1, <1>2, PTL DEF Spec

-----------------------------------------------------------------------------
(* It has the types.                                                        *)
LEMMA IInvTypeOK ==
  IInv => TypeOK
<1> SUFFICES ASSUME IInv PROVE TypeOK
  OBVIOUS
<1>1. ASSUME NEW t \in Tracks, NEW n \in 1 .. Len(context[t]) PROVE context[t][n] \in States
  <2>1. context[t] \in Seq(States)
    BY DEF IInv, Encoders
  <2> QED BY <2>1
<1>2. ASSUME NEW th \in Threads, todo[th] = << >> PROVE held[th] = << >>
  <2>1. Ends(Now(th), << >>)
    BY <1>2 DEF IInv, AllStand, Stands, Serves
  <2> QED BY <2>1, EndsIdle, QueueTypes
<1> QED BY <1>1, <1>2 DEF TypeOK, IInv, Encoders

(* Where a thread waits for a lock it keeps the order; only a callback does   *)
(* not, and what it waits for is _lock.                                      *)
LEMMA WaitRises ==
  ASSUME IInv, NEW th \in Threads, Waits(th)
  PROVE  /\ LockOf(First(th)) \in Locks
         /\ \/ Below(held[th], Rank(LockOf(First(th))))
            \/ Is(th, "enter") /\ InCallback(th) /\ LockOf(First(th)) = StreamLock
<1> DEFINE l == LockOf(First(th))
<1>1. Now(th).locks = held[th] /\ todo[th] # << >>
  BY QueueTypes DEF Waits, Is
<1>2. CASE Is(th, "enter")
  <2>1. PICK c : Effect(Now(th), First(th), c)
    BY <1>1, <1>2, FirstStep DEF Is, Serving
  <2>2. l \in Locks /\ MayTake(Now(th), l)
    BY <1>2, <2>1 DEF Effect, Is
  <2> QED BY <1>1, <1>2, <2>2 DEF MayTake, HasMutex, InCallback
<1>3. CASE Is(th, "native") \/ Is(th, "close")
  <2>1. MayServe(Now(th), First(th)) /\ Meets(Now(th), First(th), context)
    BY <1>1, <1>3, ServingFirst DEF Is, Serving
  <2>2. l = EncodeMutex(First(th).track, First(th).number)
    BY <1>3, LockOfNative DEF Is
  <2>3. l \in Locks /\ Rank(l) = Top
    BY <2>1, <2>2, LockTypes DEF MayServe, Meets
  <2> QED BY <1>1, <2>1, <2>3 DEF MayServe
<1> QED BY <1>2, <1>3 DEF Waits

(* Locks below the mutexes hold none of them.                               *)
LEMMA MutexOnTop ==
  ASSUME NEW locks, Below(locks, Top)
  PROVE  ~ HasMutex(locks)
<1>1. \A l : l[1] = "mutex" => Rank(l) = Top
  BY DEF Rank
<1>2. ~ (Top < Top)
  BY TrackTypes
<1> QED BY <1>1, <1>2 DEF Below, HasMutex

(* A thread in front of a native function holds no mutex.                   *)
LEMMA IInvCallbackLeavesItsEncoder ==
  IInv => CallbackLeavesItsEncoder
<1> SUFFICES ASSUME IInv, NEW th \in Threads, WaitsFor(th, th) PROVE FALSE
  BY DEF CallbackLeavesItsEncoder
<1>1. Is(th, "native") \/ Is(th, "close")
  BY DEF WaitsFor, Waits
<1>2. MayServe(Now(th), First(th)) /\ Now(th).locks = held[th]
  BY <1>1, ServingFirst, QueueTypes DEF Is, Serving
<1>3. ~ HasMutex(held[th])
  BY <1>2, MutexOnTop DEF MayServe
<1>4. LockOf(First(th))[1] = "mutex"
  BY <1>1, LockOfNative DEF Is, EncodeMutex
<1> QED BY <1>3, <1>4 DEF WaitsFor, Holds, HasMutex

(* And with the EncodeLock it meets an encoder that lives.                  *)
LEMMA IInvLockHoldersMeetLiveEncoders ==
  IInv => LockHoldersMeetLiveEncoders
<1> SUFFICES ASSUME IInv, NEW th \in Threads, NEW t \in Tracks, UsesDead(th, t),
                    Holds(th, EncodeLock(t)), ~ mode.disposed
             PROVE  FALSE
  BY DEF LockHoldersMeetLiveEncoders
<1>1. /\ todo[th] # << >> /\ First(th).do \in {"native", "close"} /\ First(th).track = t
      /\ context[t][First(th).number] \in {"closed", "freed"}
  BY DEF UsesDead, Is
<1>2. Meets(Now(th), First(th), context) /\ Now(th).locks = held[th] /\ Now(th).over = mode.disposed
  BY <1>1, ServingFirst, QueueTypes DEF Serving
<1>3. HoldsIn(held[th], EncodeLock(t))
  BY DEF Holds, HoldsIn
<1> QED BY <1>1, <1>2, <1>3 DEF Meets

(* In a circle each thread would wait for a lock of a higher rank than the  *)
(* last.                                                                    *)
LEMMA IInvCircleNeedsCallback ==
  IInv => CircleNeedsCallback
<1> SUFFICES ASSUME IInv, NEW S \in SUBSET Threads, Circular(S),
                    \A th \in S : ~ (InCallback(th) /\ LockOf(First(th)) = StreamLock)
             PROVE  FALSE
  BY DEF CircleNeedsCallback
<1> DEFINE R(th) == Rank(LockOf(First(th)))
<1>1. ASSUME NEW th \in S PROVE \E other \in S : R(other) > R(th)
  <2>1. PICK other \in S : WaitsFor(th, other)
    BY DEF Circular
  <2>2. PICK further \in S : WaitsFor(other, further)
    BY DEF Circular
  <2>3. Waits(other) /\ ~ (InCallback(other) /\ LockOf(First(other)) = StreamLock)
    BY <2>2 DEF WaitsFor
  <2>4. Below(held[other], R(other))
    BY <2>3, WaitRises
  <2>5. PICK i \in 1 .. Len(held[other]) : held[other][i] = LockOf(First(th))
    BY <2>1 DEF WaitsFor, Holds
  <2>6. R(th) < R(other)
    BY <2>4, <2>5 DEF Below
  <2>7. R(th) \in Int /\ R(other) \in Int
    <3>1. Waits(th)
      BY <2>1 DEF WaitsFor
    <3> QED BY <2>3, <3>1, WaitRises, RankType
  <2> QED BY <2>6, <2>7
<1>2. \A th \in S : R(th) \in 0 .. Top
  <2>1. ASSUME NEW th \in S PROVE R(th) \in 0 .. Top
    <3>1. Waits(th)
      BY DEF Circular, WaitsFor
    <3> QED BY <3>1, WaitRises, RankType
  <2> QED BY <2>1
<1> DEFINE G == {Top - R(th) : th \in S}
<1> HIDE DEF R
<1>3. G \in SUBSET Nat /\ G # {}
  BY <1>2, TrackTypes DEF Circular
<1>4. PICK m \in G : \A k \in G : m <= k
  <2> HIDE DEF G
  <2> QED BY <1>3, LeastExists
<1>5. PICK th \in S : m = Top - R(th)
  BY <1>4
<1>6. PICK other \in S : R(other) > R(th)
  BY <1>1
<1>7. Top - R(th) <= Top - R(other)
  BY <1>4, <1>5
<1> QED BY <1>2, <1>6, <1>7, TrackTypes

-----------------------------------------------------------------------------
(* The state has its types at all times, and a thread that has nothing to do  *)
(* holds no lock.                                                            *)
THEOREM TypesHold == Spec => []TypeOK
BY OrderKept, IInvTypeOK, PTL

(* Without the request of a callback the threads never wait in a circle,     *)
(* whatever the number of tracks and of callers.                             *)
THEOREM NoCircleWithoutCallback == Spec => []CircleNeedsCallback
BY OrderKept, IInvCircleNeedsCallback, PTL

(* No callback calls into the encoder that makes it.                         *)
THEOREM CallbacksLeaveEncoders == Spec => []CallbackLeavesItsEncoder
BY OrderKept, IInvCallbackLeavesItsEncoder, PTL

(* Under the EncodeLock no destroyed encoder is used before the streamer is   *)
(* disposed of.                                                              *)
THEOREM LockKeepsEncoderAlive == Spec => []LockHoldersMeetLiveEncoders
BY OrderKept, IInvLockHoldersMeetLiveEncoders, PTL

Crossing ==
  mode.relay /\ ~ mode'.relay /\ ~ mode.disposed =>
    \A t \in Tracks : InCallback(t) => ~ Holds(t, EncodeLock(t))

(* Who leaves relay mode holds the EncodeLock of every track.               *)
LEMMA StepDoesNotCross ==
  ASSUME IInv, [Next]_vars
  PROVE  Crossing
<1>1. SUFFICES ASSUME mode.relay, ~ mode'.relay, ~ mode.disposed, NEW t \in Tracks,
                      InCallback(t), Holds(t, EncodeLock(t))
               PROVE  FALSE
  BY DEF Crossing
<1>2. mode' # mode
  BY <1>1
<1>3. PICK th \in Threads : SetMode(th)
  <2>1. ASSUME NEW c \in Captured, Capture(c) PROVE FALSE
    BY <1>2, <2>1 DEF Capture
  <2>2. ASSUME NEW c \in Callers, CallerStarts(c) PROVE FALSE
    BY <1>2, <2>2 DEF CallerStarts, Operate
  <2>3. ASSUME NEW x \in Threads, Run(x) PROVE SetMode(x)
    BY <1>2, <2>3 DEF Run, TakeLock, LoopOver, GoOn, Iterate, HandleFrame, EnsureEncoderMatchesResolution,
       CreateEncoder, ForgetEncoder, CallWrapper, DisposeWrapper, DestroyNative, RunNative, OnEncodedData
  <2> QED BY <1>2, <2>1, <2>2, <2>3 DEF Next, vars
<1>4. Below(held[th], Top) /\ AllFrozen(Now(th)) /\ Now(th).locks = held[th]
  BY <1>1, <1>3, SetModeKeeps, QueueTypes
<1>5. HoldsIn(held[th], EncodeLock(t)) /\ HoldsIn(held[t], EncodeLock(t)) /\ t \in Threads
  BY <1>1, <1>4 DEF AllFrozen, Holds, HoldsIn, Threads
<1>6. th = t
  BY <1>5, LockTypes DEF IInv, Exclusive
<1>7. ~ HasMutex(held[t])
  BY <1>4, <1>6, MutexOnTop
<1> QED BY <1>1, <1>7 DEF InCallback, HasMutex

(* A streamer that goes on leaves relay mode while no capture thread is in a  *)
(* callback with its EncodeLock.                                             *)
THEOREM FramesStayInRelay == Spec => NoFrameCrossesToDirect
<1>1. IInv /\ [Next]_vars => [Crossing]_vars
  BY StepDoesNotCross
<1>2. Spec => [][Crossing]_vars
  BY <1>1, OrderKept, PTL DEF Spec
<1> QED BY <1>2 DEF NoFrameCrossesToDirect, Crossing
==============================================================================
