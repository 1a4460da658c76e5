----------------------------- MODULE DevicesProofs -----------------------------
(***************************************************************************)
(* Proofs about Devices: a phone without a session stays attached to no    *)
(* line, and a reload or a command ends no call of a line that stays as it *)
(* is.                                                                     *)
(*                                                                         *)
(* Both hold unless the phone was crossed: somebody took it down while its *)
(* own thread, or another one, was busy with it.  The invariant says what  *)
(* a phone that is being taken down can be in without that.                *)
(***************************************************************************)
EXTENDS Devices, FiniteSetTheorems, SequenceTheorems, WellFoundedInduction,
        NaturalsInduction, TLAPS

(* The types *)

ButtonType == [line : Lines \cup {NoLine}, idx : Nat, gone : BOOLEAN, inst : Nat]
KeyType == [line : Lines \cup {NoLine}, inst : Nat]
PhoneType ==
    [known : BOOLEAN, reg : RegStates, session : BOOLEAN, update : BOOLEAN, delete : BOOLEAN,
     buttons : Seq(ButtonType), built : BOOLEAN, template : Seq(KeyType), array : SUBSET Lines,
     lines : BOOLEAN, version : Nat, crossed : BOOLEAN]
ThreadType ==
    [at : {"none", "loop", "register", "template", "attach", "array", "exit"}, stop : BOOLEAN,
     bound : BOOLEAN, told : BOOLEAN, i : Nat \ {0}, keys : Seq(KeyType)]
LineType ==
    [known : BOOLEAN, update : BOOLEAN, delete : BOOLEAN, devices : SUBSET Phones, version : Nat]
ManagerType ==
    [op : {"idle", "read", "lines", "devices", "reload device"}, file : Files,
     todo : SUBSET (Phones \cup Lines)]
CleanType ==
    {NoClean} \cup [phone : Phones, remove : BOOLEAN, at : {"lines", "template", "session"}]

Typed(w) ==
    /\ DOMAIN w = {"phone", "conn", "line", "calls", "mgr", "clean", "count"}
    /\ w.phone \in [Phones -> PhoneType] /\ w.conn \in [Phones -> ThreadType]
    /\ w.line \in [Lines -> LineType] /\ w.calls \subseteq Phones \X Lines
    /\ IsFiniteSet(w.calls) /\ w.mgr \in ManagerType /\ w.clean \in [Threads -> CleanType]

(* The invariant *)

Taken(w, t, p) == w.clean[t].at # "no" /\ w.clean[t].phone = p
\* The phone is registered, or attaches its lines.
Busy(w, p) == w.phone[p].reg \in {"PROGRESS", "OK"} \/ Building(w, p)
KnownAttached(w, p) == {x \in Lines : w.line[x].known /\ p \in w.line[x].devices}

\* A phone that is busy while it is taken down, or that two take down, is crossed.
CrossFact(w) ==
    \A t \in Threads : \A p \in Phones :
        Taken(w, t, p) /\ (Busy(w, p) \/ \E o \in Threads \ {t} : Taken(w, o, p))
            => w.phone[p].crossed
\* The manager takes down a phone with no call on its lines, between two sections.
CallsFact(w) ==
    \A p \in Phones : w.clean[Manager].at = "lines" /\ w.clean[Manager].phone = p
                      /\ ~w.phone[p].crossed
        => \A x \in LinesTakenDown(w, p) \cap Lines : w.line[x].known => <<p, x>> \notin w.calls
ManagerFact(w) ==
    w.clean[Manager].at # "no" => w.mgr.op \in {"idle", "devices", "reload device"}
\* A line that is gone, or that goes, is not in the file; one that the reload has still to
\* look at is there.
LineFact(w) ==
    \A x \in Lines :
        /\ w.mgr.op = "lines" /\ x \in w.mgr.todo => w.line[x].known
        /\ ~w.line[x].known => w.mgr.file.lines[x] = 0
        /\ w.line[x].delete /\ ~(w.mgr.op = "read" /\ x \in w.mgr.todo) => w.mgr.file.lines[x] = 0
\* A phone is attached to lines of its buttons, and about to be attached to one of them.
ButtonFact(w) == \A p \in Phones : KnownAttached(w, p) \subseteq LinesTakenDown(w, p)
AttachFact(w) ==
    \A p \in Phones : w.conn[p].at = "attach" =>
        /\ w.conn[p].i \in DOMAIN w.phone[p].buttons
        /\ w.phone[p].buttons[w.conn[p].i].line \in Lines
\* Once its lines were taken down a phone is attached to none.
GoneFact(w) ==
    \A t \in Threads : \A p \in Phones :
        w.clean[t].phone = p /\ w.clean[t].at \in {"template", "session"} /\ ~w.phone[p].crossed
            => KnownAttached(w, p) = {}
SessionFact(w) == \A p \in Phones : Busy(w, p) => w.phone[p].session \/ w.phone[p].crossed
AttachedFact(w) ==
    \A p \in Phones : KnownAttached(w, p) # {} =>
        \/ w.phone[p].session \/ w.phone[p].crossed
        \/ \E t \in Threads : w.clean[t].phone = p /\ w.clean[t].at = "lines"

Facts(w) ==
    /\ CrossFact(w) /\ CallsFact(w) /\ ManagerFact(w) /\ LineFact(w) /\ ButtonFact(w)
    /\ AttachFact(w) /\ GoneFact(w) /\ SessionFact(w) /\ AttachedFact(w)
Good(w) == Typed(w) /\ Facts(w)
IInv == Good(World)
----------------------------------------------------------------------------
(* Sequences of buttons, and numbers *)

\* A set of natural numbers has a least one: with it, what holds of every prefix
\* of a sequence is shown by the least prefix of which it might not hold.
LEMMA LeastExists ==
    ASSUME NEW T, T \subseteq Nat, T # {}
    PROVE  \E x \in T : \A y \in T : x <= y
<1> DEFINE R == {ss \in Nat \X Nat : ss[1] < ss[2]}
<1>1. IsWellFoundedOn(R, Nat)
  BY NatLessThanWellFounded DEF OpToRel
<1>2. \E x \in T : \A y \in T : <<y, x>> \notin R
  <2> HIDE DEF R
  <2> QED
    BY <1>1, WFMin
<1>3. PICK x \in T : \A y \in T : <<y, x>> \notin R
  BY <1>2
<1>4. ASSUME NEW y \in T PROVE x <= y
  <2>1. <<y, x>> \in Nat \X Nat /\ ~(y < x)
    BY <1>3
  <2> QED
    BY <2>1
<1> QED
  BY <1>4

\* A finite set of numbers that is not empty has a greatest one.
LEMMA GreatestExists ==
    ASSUME NEW S, S \subseteq Nat, IsFiniteSet(S), S # {}
    PROVE  Max(S) \in Nat
<1> DEFINE Bad(U) == U \subseteq Nat /\ IsFiniteSet(U) /\ U # {} /\ ~ \E x \in U : \A y \in U : x >= y
           Sizes == {n \in Nat : \E U \in SUBSET Nat : Bad(U) /\ Cardinality(U) = n}
<1>1. Sizes = {}
  <2> SUFFICES ASSUME Sizes # {} PROVE FALSE
    OBVIOUS
  <2>1. PICK n \in Sizes : \A m \in Sizes : n <= m
    <3> Sizes \subseteq Nat
      OBVIOUS
    <3> HIDE DEF Sizes
    <3> QED
      BY LeastExists
  <2>2. PICK U \in SUBSET Nat : Bad(U) /\ Cardinality(U) = n
    OBVIOUS
  <2>3. PICK e \in U : TRUE
    BY <2>2
  <2> DEFINE V == U \ {e}
  <2>4. IsFiniteSet(V) /\ Cardinality(V) = n - 1 /\ n \in Nat
    BY <2>2, <2>3, FS_RemoveElement
  <2>5. n - 1 \in Nat
    BY <2>4, FS_CardinalityType
  <2>6. ~Bad(V)
    <3> HIDE DEF V, Bad
    <3> V \in SUBSET Nat
      BY DEF V
    <3> QED
      BY <2>1, <2>4, <2>5
  <2>7. V # {}
    BY <2>2, <2>3
  <2>8. PICK x \in V : \A y \in V : x >= y
    BY <2>4, <2>6, <2>7
  <2>9. \A y \in U : IF x >= e THEN x >= y ELSE e >= y
    BY <2>3, <2>8
  <2> QED
    BY <2>2, <2>3, <2>8, <2>9
<1>2. ~Bad(S)
  <2> HIDE DEF Bad
  <2>1. Cardinality(S) \in Nat
    BY FS_CardinalityType
  <2> QED
    BY <1>1, <2>1
<1>3. \E x \in S : \A y \in S : x >= y
  BY <1>2
<1> QED
  BY <1>3 DEF Max

\* What is kept of a phone's buttons are buttons.
LEMMA KeepIsButtons ==
    ASSUME NEW s \in Seq(ButtonType)
    PROVE  Keep(s) \in Seq(ButtonType)
<1> DEFINE Put(g, i) == IF s[i].gone THEN g[i - 1] ELSE Append(g[i - 1], s[i])
           Of(g, n) == g = [i \in 0..n |-> IF i = 0 THEN <<>> ELSE Put(g, i)]
           None == {n \in Nat : ~ \E g : Of(g, n)}
<1>1. None = {}
  <2> SUFFICES ASSUME None # {} PROVE FALSE
    OBVIOUS
  <2>1. PICK n \in None : \A m \in None : n <= m
    <3> None \subseteq Nat
      OBVIOUS
    <3> HIDE DEF None
    <3> QED
      BY LeastExists
  <2>2. n # 0
    <3> SUFFICES ASSUME n = 0 PROVE FALSE
      OBVIOUS
    <3> DEFINE g == [i \in 0..0 |-> <<>>]
    <3>1. Of(g, 0)
      OBVIOUS
    <3> HIDE DEF g
    <3> QED
      BY <2>1, <3>1
  <2>3. n - 1 \in Nat /\ n - 1 \notin None
    <3>1. n \in Nat
      BY <2>1
    <3> HIDE DEF None
    <3> QED
      BY <2>1, <2>2, <3>1
  <2>4. PICK h : Of(h, n - 1)
    BY <2>3
  <2> DEFINE g == [i \in 0..n |-> IF i = n THEN Put(h, n) ELSE h[i]]
  <2>5. \A i \in 0..(n - 1) : g[i] = h[i] /\ h[i] = IF i = 0 THEN <<>> ELSE Put(h, i)
    <3> SUFFICES ASSUME NEW i \in 0..(n - 1)
                 PROVE  g[i] = h[i] /\ h[i] = IF i = 0 THEN <<>> ELSE Put(h, i)
      OBVIOUS
    <3>1. i \in 0..n /\ i # n
      BY <2>3
    <3>2. h[i] = IF i = 0 THEN <<>> ELSE Put(h, i)
      BY <2>4
    <3> QED
      BY <3>1, <3>2
  <2>6. \A i \in 0..n : g[i] = IF i = 0 THEN <<>> ELSE Put(g, i)
    <3>1. ASSUME NEW i \in 0..n
          PROVE  g[i] = IF i = 0 THEN <<>> ELSE Put(g, i)
      <4>1. CASE i = 0
        <5>1. i \in 0..(n - 1)
          BY <2>3, <4>1
        <5>2. g[i] = <<>>
          BY <2>5, <4>1, <5>1
        <5> HIDE DEF g, Put
        <5> QED
          BY <4>1, <5>2
      <4>2. CASE i = n /\ i # 0
        <5>1. g[i] = Put(h, i) /\ g[i - 1] = h[i - 1]
          <6>1. i - 1 \in 0..(n - 1)
            BY <2>3, <4>2
          <6> QED
            BY <2>5, <4>2, <6>1
        <5> HIDE DEF g
        <5> QED
          BY <4>2, <5>1
      <4>3. CASE i # n /\ i # 0
        <5>1. i \in 0..(n - 1) /\ i - 1 \in 0..(n - 1)
          BY <2>1, <2>3, <4>3
        <5>2. g[i] = Put(h, i) /\ g[i - 1] = h[i - 1]
          BY <2>5, <4>3, <5>1
        <5> HIDE DEF g
        <5> QED
          BY <4>3, <5>2
      <4> QED
        BY <4>1, <4>2, <4>3
    <3> HIDE DEF g, Put
    <3> QED
      BY <3>1
  <2>7. Of(g, n)
    <3>1. g = [i \in 0..n |-> g[i]]
      OBVIOUS
    <3> HIDE DEF g
    <3> QED
      BY <2>6, <3>1
  <2> HIDE DEF g
  <2> QED
    BY <2>1, <2>7
<1> DEFINE kept == CHOOSE g : Of(g, Len(s))
<1>2. Of(kept, Len(s))
  <2>1. Len(s) \in Nat /\ Len(s) \notin None
    BY <1>1
  <2> QED
    BY <2>1
<1>3. Keep(s) = kept[Len(s)]
  BY DEF Keep
<1> HIDE DEF kept
<1> DEFINE Wrong == {n \in 0..Len(s) : kept[n] \notin Seq(ButtonType)}
<1>4. Wrong = {}
  <2> SUFFICES ASSUME Wrong # {} PROVE FALSE
    OBVIOUS
  <2>1. PICK n \in Wrong : \A m \in Wrong : n <= m
    <3> Wrong \subseteq Nat
      OBVIOUS
    <3> HIDE DEF Wrong
    <3> QED
      BY LeastExists
  <2>2. n # 0
    BY <1>2, <2>1
  <2>3. n - 1 \in 0..Len(s) /\ kept[n - 1] \in Seq(ButtonType)
    BY <2>1, <2>2
  <2>4. kept[n] = Put(kept, n)
    BY <1>2, <2>2
  <2>5. s[n] \in ButtonType
    BY <2>1, <2>2
  <2>6. kept[n] \in Seq(ButtonType)
    <3> HIDE DEF ButtonType
    <3>1. Append(kept[n - 1], s[n]) \in Seq(ButtonType)
      BY <2>3, <2>5
    <3> QED
      BY <2>3, <2>4, <3>1
  <2> QED
    BY <2>1, <2>6
<1> QED
  BY <1>3, <1>4
----------------------------------------------------------------------------
(* Worlds *)

Same(v, w) ==
    /\ DOMAIN v = DOMAIN w /\ v.phone = w.phone /\ v.conn = w.conn /\ v.line = w.line
    /\ v.calls = w.calls /\ v.mgr = w.mgr /\ v.clean = w.clean

LEMMA SameIsGood ==
    ASSUME NEW v, NEW w, Same(v, w), Good(w)
    PROVE  Good(v)
<1> USE DEF Same, Good, Facts
<1>1. Typed(v)
  BY DEF Typed
<1>2. /\ \A p : Building(v, p) = Building(w, p) /\ Busy(v, p) = Busy(w, p)
      /\ \A p : KnownAttached(v, p) = KnownAttached(w, p)
      /\ \A p : LinesTakenDown(v, p) = LinesTakenDown(w, p)
      /\ \A t, p : Taken(v, t, p) = Taken(w, t, p)
  BY DEF Building, Busy, KnownAttached, LinesTakenDown, Taken
<1>3. CrossFact(v) /\ CallsFact(v) /\ ManagerFact(v) /\ LineFact(v)
  BY <1>2 DEF CrossFact, CallsFact, ManagerFact, LineFact
<1>4. ButtonFact(v) /\ AttachFact(v) /\ GoneFact(v) /\ SessionFact(v) /\ AttachedFact(v)
  BY <1>2 DEF ButtonFact, AttachFact, GoneFact, SessionFact, AttachedFact
<1> QED
  BY <1>1, <1>3, <1>4

LEMMA Lands ==
    ASSUME NEW v, Good(v), Become(v)
    PROVE  IInv'
<1>1. Same(World', v)
  BY DEF Become, World, Same, Good, Typed
<1> QED
  BY <1>1, SameIsGood DEF IInv

(* A step takes nobody down and detaches at most; it changes the threads and *)
(* flags of phones.                                                          *)
Frame(w, v) ==
    /\ v.clean = w.clean /\ v.calls \subseteq w.calls
    /\ \A x \in Lines : /\ v.line[x].known => w.line[x].known
                        /\ v.line[x].devices \subseteq w.line[x].devices
    /\ \A p \in Phones :
        /\ w.phone[p].crossed => v.phone[p].crossed
        /\ w.phone[p].session => v.phone[p].session \/ v.phone[p].crossed
        /\ LinesTakenDown(w, p) \subseteq LinesTakenDown(v, p)
        /\ w.clean[Manager].at = "lines" => LinesTakenDown(w, p) = LinesTakenDown(v, p)
        /\ Busy(v, p) => \/ Busy(w, p)
                         \/ /\ v.phone[p].session
                            /\ (\E t \in Threads : Taken(w, t, p)) => v.phone[p].crossed

LEMMA FrameKeeps ==
    ASSUME NEW w, NEW v, Good(w), Frame(w, v), Typed(v), ManagerFact(v), LineFact(v),
           AttachFact(v)
    PROVE  Good(v)
<1> USE DEF Good, Facts
<1>1. /\ \A p \in Phones : KnownAttached(v, p) \subseteq KnownAttached(w, p)
      /\ \A t, p : Taken(v, t, p) = Taken(w, t, p)
  BY DEF Frame, KnownAttached, Taken
<1>2. CrossFact(v)
  BY <1>1 DEF CrossFact, Frame
<1>3. CallsFact(v)
  BY DEF CallsFact, Frame
<1>4. ButtonFact(v)
  BY <1>1 DEF ButtonFact, Frame
<1>5. GoneFact(v)
  BY <1>1 DEF GoneFact, Frame
<1>6. SessionFact(v)
  BY DEF SessionFact, Frame
<1>7. AttachedFact(v)
  BY <1>1 DEF AttachedFact, Frame
<1> QED
  BY <1>2, <1>3, <1>4, <1>5, <1>6, <1>7

(* One phone alone changes. *)
Alone(w, v, p) ==
    /\ v.clean = w.clean /\ v.calls \subseteq w.calls /\ v.line = w.line /\ v.mgr = w.mgr
    /\ \A q \in Phones \ {p} : v.phone[q] = w.phone[q] /\ v.conn[q] = w.conn[q]
    /\ LinesTakenDown(w, p) = LinesTakenDown(v, p)
    /\ w.phone[p].crossed => v.phone[p].crossed
    /\ w.phone[p].session => v.phone[p].session \/ v.phone[p].crossed
    /\ Busy(v, p) => \/ Busy(w, p)
                     \/ /\ v.phone[p].session
                        /\ (\E t \in Threads : Taken(w, t, p)) => v.phone[p].crossed
    /\ v.conn[p].at = "attach" => /\ v.conn[p].i \in DOMAIN v.phone[p].buttons
                                  /\ v.phone[p].buttons[v.conn[p].i].line \in Lines

LEMMA AloneKeeps ==
    ASSUME NEW w, NEW v, NEW p \in Phones, Good(w), Alone(w, v, p), Typed(v)
    PROVE  Good(v)
<1> USE DEF Good, Facts
<1>1. \A q \in Phones \ {p} : LinesTakenDown(w, q) = LinesTakenDown(v, q) /\ Busy(w, q) = Busy(v, q)
  BY DEF Alone, LinesTakenDown, Busy, Building
<1>2. Frame(w, v)
  BY <1>1 DEF Alone, Frame
<1>3. ManagerFact(v) /\ LineFact(v) /\ AttachFact(v)
  BY DEF Alone, ManagerFact, LineFact, AttachFact
<1> QED
  BY <1>2, <1>3, FrameKeeps
\* Only the record d of the phone and c of its thread are new.
Changed(w, v, p, d, c) ==
    /\ DOMAIN v = DOMAIN w /\ v.phone = [w.phone EXCEPT ![p] = d]
    /\ v.conn = [w.conn EXCEPT ![p] = c] /\ v.line = w.line
    /\ v.calls = w.calls /\ v.mgr = w.mgr /\ v.clean = w.clean
Calm(w, p, d, c) ==
    /\ d \in PhoneType /\ c \in ThreadType /\ d.buttons = w.phone[p].buttons
    /\ w.phone[p].crossed => d.crossed
    /\ w.phone[p].session => d.session \/ d.crossed
    /\ d.reg \in {"PROGRESS", "OK"} \/ c.at \in {"template", "attach"} =>
        \/ Busy(w, p)
        \/ d.session /\ ((\E t \in Threads : Taken(w, t, p)) => d.crossed)
    /\ c.at = "attach" => c.i \in DOMAIN d.buttons /\ d.buttons[c.i].line \in Lines

LEMMA ChangeKeeps ==
    ASSUME NEW w, NEW v, NEW p \in Phones, NEW d, NEW c, Good(w), Changed(w, v, p, d, c),
           Calm(w, p, d, c)
    PROVE  Good(v)
<1>1. /\ v.phone[p] = d /\ v.conn[p] = c
      /\ \A q \in Phones \ {p} : v.phone[q] = w.phone[q] /\ v.conn[q] = w.conn[q]
  BY DEF Changed, Good, Typed
<1>2. Typed(v)
  <2> HIDE DEF PhoneType, ThreadType
  <2> QED
    BY DEF Changed, Calm, Good, Typed
<1>3. LinesTakenDown(w, p) = LinesTakenDown(v, p)
  BY <1>1 DEF Calm, LinesTakenDown
<1>4. Busy(v, p) => \/ Busy(w, p)
                    \/ /\ v.phone[p].session
                       /\ (\E t \in Threads : Taken(w, t, p)) => v.phone[p].crossed
  BY <1>1 DEF Calm, Busy, Building
<1>5. Alone(w, v, p)
  BY <1>1, <1>3, <1>4 DEF Alone, Changed, Calm
<1> QED
  BY <1>2, <1>5, AloneKeeps

LEMMA WorldIs ==
    /\ DOMAIN World = {"phone", "conn", "line", "calls", "mgr", "clean", "count"}
    /\ World.phone = phone /\ World.conn = conn /\ World.line = line /\ World.calls = calls
    /\ World.mgr = mgr /\ World.clean = clean /\ World.count = count
BY DEF World

LEMMA TypesHere ==
    ASSUME IInv
    PROVE  /\ phone \in [Phones -> PhoneType] /\ conn \in [Phones -> ThreadType]
           /\ line \in [Lines -> LineType] /\ calls \subseteq Phones \X Lines
           /\ IsFiniteSet(calls) /\ mgr \in ManagerType /\ clean \in [Threads -> CleanType]
BY WorldIs DEF IInv, Good, Typed

\* The connection of a phone is told to stop.
LEMMA StopKeeps ==
    ASSUME NEW w, NEW p \in Phones, NEW s \in {"NONE", "FAILED"}, Good(w)
    PROVE  Good(Stop(w, p, s))
<1> DEFINE v == Stop(w, p, s)
           c == [w.conn[p] EXCEPT !.stop = TRUE]
           d == [w.phone[p] EXCEPT !.reg = IF w.conn[p].bound THEN s ELSE w.phone[p].reg]
<1>1. w.phone[p] \in PhoneType /\ w.conn[p] \in ThreadType
  BY DEF Good, Typed
<1>2. Changed(w, v, p, d, c)
  <2> HIDE DEF PhoneType, ThreadType
  <2> QED
    BY DEF Good, Typed, Stop, Changed
<1>3. Calm(w, p, d, c)
  <2>1. d \in PhoneType /\ c \in ThreadType
    BY <1>1 DEF PhoneType, ThreadType, RegStates
  <2>2. /\ d.buttons = w.phone[p].buttons /\ d.crossed = w.phone[p].crossed
        /\ d.session = w.phone[p].session /\ d.reg \in {w.phone[p].reg, "NONE", "FAILED"}
        /\ c.at = w.conn[p].at /\ c.i = w.conn[p].i
    BY <1>1 DEF PhoneType, ThreadType
  <2>3. w.conn[p].at = "attach" => /\ w.conn[p].i \in DOMAIN w.phone[p].buttons
                                   /\ w.phone[p].buttons[w.conn[p].i].line \in Lines
    BY DEF Good, Facts, AttachFact
  <2> HIDE DEF d, c
  <2> QED
    BY <2>1, <2>2, <2>3 DEF Calm, Busy, Building
<1> HIDE DEF v, d, c
<1> QED
  BY <1>2, <1>3, ChangeKeeps DEF v
----------------------------------------------------------------------------
(* The thread of a phone *)

LEMMA ConnectKeeps ==
    ASSUME IInv, NEW p \in Phones, Connect(p)
    PROVE  IInv'
<1> DEFINE v == [World EXCEPT !.conn[p].at = "loop", !.count.connects[p] = @ + 1]
           c == [conn[p] EXCEPT !.at = "loop"]
           d == phone[p]
<1> USE TypesHere, WorldIs
<1>1. phone[p] \in PhoneType /\ conn[p] \in ThreadType
  OBVIOUS
<1>2. Changed(World, v, p, d, c)
  <2> HIDE DEF PhoneType, ThreadType
  <2> QED
    BY DEF Changed
<1>3. Calm(World, p, d, c)
  <2>1. d \in PhoneType /\ c \in ThreadType
    BY <1>1 DEF PhoneType, ThreadType, RegStates, KeyType
  <2>2. /\ d.buttons = phone[p].buttons /\ d.crossed = phone[p].crossed
        /\ d.session = phone[p].session /\ d.reg = phone[p].reg /\ c.at = "loop"
    BY <1>1 DEF PhoneType, ThreadType
  <2>3. AttachFact(World) /\ SessionFact(World) /\ CrossFact(World)
    BY DEF IInv, Good, Facts
  <2> HIDE DEF d, c
  <2> QED
    BY <2>1, <2>2, <2>3 DEF Connect, Calm, Busy, Building, Taken, AttachFact, Loops
<1>4. Good(v)
  <2> HIDE DEF v, d, c
  <2> QED
    BY <1>2, <1>3, ChangeKeeps DEF IInv
<1>5. Become(v)
  BY DEF Connect
<1> HIDE DEF v
<1> QED
  BY <1>4, <1>5, Lands

LEMMA TemplateMadeKeeps ==
    ASSUME IInv, NEW p \in Phones, TemplateMade(p)
    PROVE  IInv'
<1> DEFINE v == [World EXCEPT !.conn[p].at = "array"]
           c == [conn[p] EXCEPT !.at = "array"]
           d == phone[p]
<1> USE TypesHere, WorldIs
<1>1. phone[p] \in PhoneType /\ conn[p] \in ThreadType
  OBVIOUS
<1>2. Changed(World, v, p, d, c)
  <2> HIDE DEF PhoneType, ThreadType
  <2> QED
    BY DEF Changed
<1>3. Calm(World, p, d, c)
  <2>1. d \in PhoneType /\ c \in ThreadType
    BY <1>1 DEF PhoneType, ThreadType, RegStates, KeyType
  <2>2. /\ d.buttons = phone[p].buttons /\ d.crossed = phone[p].crossed
        /\ d.session = phone[p].session /\ d.reg = phone[p].reg /\ c.at = "array"
    BY <1>1 DEF PhoneType, ThreadType
  <2>3. AttachFact(World) /\ SessionFact(World) /\ CrossFact(World)
    BY DEF IInv, Good, Facts
  <2> HIDE DEF d, c
  <2> QED
    BY <2>1, <2>2, <2>3 DEF TemplateMade, Calm, Busy, Building, Taken, AttachFact, Loops
<1>4. Good(v)
  <2> HIDE DEF v, d, c
  <2> QED
    BY <1>2, <1>3, ChangeKeeps DEF IInv
<1>5. Become(v)
  BY DEF TemplateMade
<1> HIDE DEF v
<1> QED
  BY <1>4, <1>5, Lands

LEMMA RegisterEndKeeps ==
    ASSUME IInv, NEW p \in Phones, RegisterEnd(p)
    PROVE  IInv'
<1> DEFINE Crosses(b) == \/ b
                         \/ \E t \in Threads : clean[t].phone = p
           v == [World EXCEPT !.conn[p] = [@ EXCEPT !.at = "loop", !.bound = TRUE],
                            !.phone[p] = [@ EXCEPT !.session = TRUE, !.lines = FALSE,
                                                   !.reg = "PROGRESS",
                                     !.crossed = Crosses(phone[p].crossed)]]
           c == [conn[p] EXCEPT !.at = "loop", !.bound = TRUE]
           d == [phone[p] EXCEPT !.session = TRUE, !.lines = FALSE, !.reg = "PROGRESS",
                                !.crossed = Crosses(phone[p].crossed)]
<1> HIDE DEF Crosses
<1> USE TypesHere, WorldIs
<1>1. phone[p] \in PhoneType /\ conn[p] \in ThreadType
  OBVIOUS
<1>2. Changed(World, v, p, d, c)
  <2> HIDE DEF PhoneType, ThreadType
  <2> QED
    <3>1. v.phone = [phone EXCEPT ![p] = d]
      OBVIOUS
    <3>2. v.conn = [conn EXCEPT ![p] = c]
      OBVIOUS
    <3> QED
      BY <3>1, <3>2 DEF Changed
<1>3. Calm(World, p, d, c)
  <2>1. d \in PhoneType /\ c \in ThreadType
    BY <1>1 DEF PhoneType, ThreadType, RegStates, KeyType, Crosses
  <2>2. /\ d.buttons = phone[p].buttons /\ d.session = TRUE /\ d.reg = "PROGRESS" /\ c.at = "loop"
        /\ d.crossed = Crosses(phone[p].crossed)
    BY <1>1 DEF PhoneType, ThreadType
  <2>3. AttachFact(World) /\ SessionFact(World) /\ CrossFact(World)
    BY DEF IInv, Good, Facts
  <2> HIDE DEF d, c
  <2> QED
    BY <2>1, <2>2, <2>3 DEF RegisterEnd, Calm, Busy, Building, Taken, Crosses, AttachFact, Loops
<1>4. Good(v)
  <2> HIDE DEF v, d, c
  <2> QED
    BY <1>2, <1>3, ChangeKeeps DEF IInv
<1>5. Become(v)
  BY DEF RegisterEnd, Crosses
<1> HIDE DEF v
<1> QED
  BY <1>4, <1>5, Lands

LEMMA CreateButtonsArrayKeeps ==
    ASSUME IInv, NEW p \in Phones, CreateButtonsArray(p)
    PROVE  IInv'
<1> DEFINE v == [World EXCEPT !.conn[p] = [@ EXCEPT !.at = "loop", !.keys = <<>>],
              !.phone[p] = [@ EXCEPT !.built = TRUE, !.template = conn[p].keys,
                  !.array = {k.line : k \in Range(conn[p].keys)} \cap Attached(World, p)]]
           c == [conn[p] EXCEPT !.at = "loop", !.keys = <<>>]
           d == [phone[p] EXCEPT !.built = TRUE, !.template = conn[p].keys,
                    !.array = {k.line : k \in Range(conn[p].keys)} \cap Attached(World, p)]
<1> USE TypesHere, WorldIs
<1>1. phone[p] \in PhoneType /\ conn[p] \in ThreadType
  OBVIOUS
<1>2. Changed(World, v, p, d, c)
  <2> HIDE DEF PhoneType, ThreadType
  <2> QED
    BY DEF Changed
<1>3. Calm(World, p, d, c)
  <2>1. d \in PhoneType /\ c \in ThreadType
    <3>1. {k.line : k \in Range(conn[p].keys)} \cap Attached(World, p) \in SUBSET Lines
      BY DEF Attached
    <3>2. <<>> \in Seq(KeyType)
      <4> HIDE DEF KeyType
      <4> QED
        OBVIOUS
    <3> HIDE DEF KeyType
    <3> QED
      BY <1>1, <3>1, <3>2 DEF PhoneType, ThreadType
  <2>2. /\ d.buttons = phone[p].buttons /\ d.crossed = phone[p].crossed
        /\ d.session = phone[p].session /\ d.reg = phone[p].reg /\ c.at = "loop"
    BY <1>1 DEF PhoneType, ThreadType
  <2>3. AttachFact(World) /\ SessionFact(World) /\ CrossFact(World)
    BY DEF IInv, Good, Facts
  <2> HIDE DEF d, c
  <2> QED
    BY <2>1, <2>2, <2>3 DEF CreateButtonsArray, Calm, Busy, Building, Taken, AttachFact, Loops
<1>4. Good(v)
  <2> HIDE DEF v, d, c
  <2> QED
    BY <1>2, <1>3, ChangeKeeps DEF IInv
<1>5. Become(v)
  BY DEF CreateButtonsArray
<1> HIDE DEF v
<1> QED
  BY <1>4, <1>5, Lands

LEMMA RegisterBeginKeeps ==
    ASSUME IInv, NEW p \in Phones, RegisterBegin(p)
    PROVE  IInv'
<1> DEFINE w == Stop(World, p, "FAILED")
<1>1. Good(World) /\ Good(w)
  BY StopKeeps DEF IInv
<1>2. CASE Become(w)
  BY <1>1, <1>2, Lands
<1>3. CASE Become([w EXCEPT !.phone[p] = [@ EXCEPT !.reg = "FAILED", !.session = FALSE,
                                                   !.crossed = TRUE]])
  <2> DEFINE d == [w.phone[p] EXCEPT !.reg = "FAILED", !.session = FALSE, !.crossed = TRUE]
             v == [w EXCEPT !.phone[p] = [@ EXCEPT !.reg = "FAILED", !.session = FALSE,
                                                   !.crossed = TRUE]]
  <2> HIDE DEF w
  <2>1. w.phone[p] \in PhoneType /\ w.conn[p] \in ThreadType
    BY <1>1 DEF Good, Typed
  <2>2. Changed(w, v, p, d, w.conn[p])
    <3> HIDE DEF PhoneType, ThreadType
    <3> QED
      BY <1>1 DEF Changed, Good, Typed
  <2>3. Calm(w, p, d, w.conn[p])
    <3>1. d \in PhoneType
      BY <2>1 DEF PhoneType, RegStates
    <3>2. d.buttons = w.phone[p].buttons /\ d.crossed = TRUE /\ d.reg = "FAILED"
      BY <2>1 DEF PhoneType
    <3>3. AttachFact(w)
      BY <1>1 DEF Good, Facts
    <3> HIDE DEF d
    <3> QED
      BY <2>1, <3>1, <3>2, <3>3 DEF Calm, Busy, Building, AttachFact
  <2> HIDE DEF v, d
  <2>4. Good(v)
    BY <1>1, <2>2, <2>3, ChangeKeeps
  <2> QED
    BY <1>3, <2>4, Lands DEF v
<1>4. CASE Become([World EXCEPT !.conn[p].at = "register"])
  <2> DEFINE v == [World EXCEPT !.conn[p].at = "register"]
             c == [conn[p] EXCEPT !.at = "register"]
  <2> USE TypesHere, WorldIs
  <2>1. Changed(World, v, p, phone[p], c)
    <3> HIDE DEF PhoneType, ThreadType
    <3> QED
      BY DEF Changed
  <2>2. phone[p] \in PhoneType /\ conn[p] \in ThreadType
    OBVIOUS
  <2>3. c \in ThreadType /\ c.at = "register"
    BY <2>2 DEF ThreadType
  <2>4. Calm(World, p, phone[p], c)
    <3> HIDE DEF c
    <3> QED
      BY <2>2, <2>3 DEF Calm, Busy, Building
  <2> HIDE DEF v, c
  <2>5. Good(v)
    BY <1>1, <2>1, <2>4, ChangeKeeps
  <2> QED
    BY <1>4, <2>5, Lands DEF v
<1> QED
  BY <1>2, <1>3, <1>4 DEF RegisterBegin

LEMMA ButtonTemplateReqKeeps ==
    ASSUME IInv, NEW p \in Phones, ButtonTemplateReq(p)
    PROVE  IInv'
<1>1. Good(World) /\ Good(Stop(World, p, "FAILED"))
  BY StopKeeps DEF IInv
<1>2. CASE Become(Stop(World, p, "FAILED"))
  BY <1>1, <1>2, Lands
<1>3. CASE /\ phone[p].reg \in {"PROGRESS", "OK"}
           /\ Become([World EXCEPT !.conn[p] = [@ EXCEPT !.at = "template", !.i = 1,
                                                         !.keys = <<>>]])
  <2> DEFINE v == [World EXCEPT !.conn[p] = [@ EXCEPT !.at = "template", !.i = 1, !.keys = <<>>]]
             c == [conn[p] EXCEPT !.at = "template", !.i = 1, !.keys = <<>>]
  <2> USE TypesHere, WorldIs
  <2>1. Changed(World, v, p, phone[p], c)
    <3> HIDE DEF PhoneType, ThreadType
    <3> QED
      BY DEF Changed
  <2>2. phone[p] \in PhoneType /\ conn[p] \in ThreadType
    OBVIOUS
  <2>3. c \in ThreadType /\ c.at = "template"
    <3>1. 1 \in Nat \ {0} /\ <<>> \in Seq(KeyType)
      <4> HIDE DEF KeyType
      <4> QED
        OBVIOUS
    <3> QED
      BY <2>2, <3>1 DEF ThreadType
  <2>4. Calm(World, p, phone[p], c)
    <3> HIDE DEF c
    <3> QED
      BY <1>3, <2>2, <2>3 DEF Calm, Busy
  <2> HIDE DEF v, c
  <2>5. Good(v)
    BY <1>1, <2>1, <2>4, ChangeKeeps
  <2> QED
    BY <1>3, <2>5, Lands DEF v
<1> QED
  BY <1>2, <1>3 DEF ButtonTemplateReq

LEMMA PlaceButtonKeeps ==
    ASSUME IInv, NEW p \in Phones, PlaceButton(p)
    PROVE  IInv'
<1> USE TypesHere, WorldIs
<1>1. phone[p] \in PhoneType /\ conn[p] \in ThreadType /\ conn[p].at = "template"
  BY DEF PlaceButton
<1>2. CASE /\ phone[p].buttons[conn[p].i].line # NoLine /\ conn[p].i <= Len(phone[p].buttons)
           /\ Become([World EXCEPT !.conn[p].at = "attach"])
  <2> DEFINE v == [World EXCEPT !.conn[p].at = "attach"]
             c == [conn[p] EXCEPT !.at = "attach"]
  <2>1. Changed(World, v, p, phone[p], c)
    <3> HIDE DEF PhoneType, ThreadType
    <3> QED
      BY DEF Changed
  <2>2. /\ phone[p].buttons \in Seq(ButtonType) /\ conn[p].i \in Nat \ {0}
        /\ conn[p].i \in DOMAIN phone[p].buttons
    BY <1>1, <1>2 DEF PhoneType, ThreadType
  <2>3. phone[p].buttons[conn[p].i].line \in Lines
    <3>1. phone[p].buttons[conn[p].i] \in ButtonType
      <4> HIDE DEF ButtonType
      <4> QED
        BY <2>2
    <3> QED
      BY <1>2, <3>1 DEF ButtonType
  <2>4. c \in ThreadType /\ c.at = "attach" /\ c.i = conn[p].i
    BY <1>1 DEF ThreadType
  <2>5. Calm(World, p, phone[p], c)
    <3> HIDE DEF c
    <3> QED
      BY <1>1, <2>2, <2>3, <2>4 DEF Calm, Busy, Building
  <2> HIDE DEF v, c
  <2>6. Good(v)
    BY <2>1, <2>5, ChangeKeeps DEF IInv
  <2> QED
    BY <1>2, <2>6, Lands DEF v
<1>3. CASE Become([World EXCEPT !.conn[p].i = @ + 1])
  <2> DEFINE v == [World EXCEPT !.conn[p].i = @ + 1]
             c == [conn[p] EXCEPT !.i = @ + 1]
  <2>1. Changed(World, v, p, phone[p], c)
    <3> HIDE DEF PhoneType, ThreadType
    <3> QED
      BY DEF Changed
  <2>2. c \in ThreadType /\ c.at = "template"
    <3>1. conn[p].i \in Nat \ {0}
      BY <1>1 DEF ThreadType
    <3>2. conn[p].i + 1 \in Nat \ {0}
      BY ONLY <3>1
    <3> QED
      BY <1>1, <3>2 DEF ThreadType
  <2>3. Calm(World, p, phone[p], c)
    <3> HIDE DEF c
    <3> QED
      BY <1>1, <2>2 DEF Calm, Busy, Building
  <2> HIDE DEF v, c
  <2>4. Good(v)
    BY <2>1, <2>3, ChangeKeeps DEF IInv
  <2> QED
    BY <1>3, <2>4, Lands DEF v
<1> QED
  BY <1>2, <1>3 DEF PlaceButton

LEMMA UnregisterKeeps ==
    ASSUME IInv, NEW p \in Phones, Unregister(p) \/ Disconnect(p)
    PROVE  IInv'
<1>1. Good(Stop(World, p, "NONE"))
  BY StopKeeps DEF IInv
<1> QED
  BY <1>1, Lands DEF Unregister, Disconnect

\* A phone is told to restart.
LEMMA SendResetKeeps ==
    ASSUME NEW w, NEW p \in Phones, Good(w)
    PROVE  Good(SendReset(w, p))
<1> DEFINE v == SendReset(w, p)
           c == [w.conn[p] EXCEPT !.told = TRUE]
           d == [w.phone[p] EXCEPT !.update = FALSE]
<1>1. w.phone[p] \in PhoneType /\ w.conn[p] \in ThreadType
  BY DEF Good, Typed
<1>2. Changed(w, v, p, d, c)
  <2> HIDE DEF PhoneType, ThreadType
  <2> QED
    BY DEF Good, Typed, SendReset, Changed
<1>3. Calm(w, p, d, c)
  <2>1. d \in PhoneType /\ c \in ThreadType
    BY <1>1 DEF PhoneType, ThreadType, RegStates
  <2>2. /\ d.buttons = w.phone[p].buttons /\ d.crossed = w.phone[p].crossed
        /\ d.session = w.phone[p].session /\ d.reg = w.phone[p].reg
        /\ c.at = w.conn[p].at /\ c.i = w.conn[p].i
    BY <1>1 DEF PhoneType, ThreadType
  <2>3. AttachFact(w)
    BY DEF Good, Facts
  <2> HIDE DEF d, c
  <2> QED
    BY <2>1, <2>2, <2>3 DEF Calm, Busy, Building, AttachFact
<1> HIDE DEF v, d, c
<1> QED
  BY <1>2, <1>3, ChangeKeeps DEF v

LEMMA RegisteredKeeps ==
    ASSUME IInv, NEW p \in Phones, Registered(p)
    PROVE  IInv'
<1> DEFINE ok == [World EXCEPT !.phone[p] = [@ EXCEPT !.reg = "OK", !.lines = phone[p].built]]
           d == [phone[p] EXCEPT !.reg = "OK", !.lines = phone[p].built]
<1> USE TypesHere, WorldIs
<1>1. phone[p] \in PhoneType /\ conn[p] \in ThreadType /\ phone[p].reg = "PROGRESS"
  BY DEF Registered
<1>2. Changed(World, ok, p, d, conn[p])
  <2> HIDE DEF PhoneType, ThreadType
  <2> QED
    BY DEF Changed
<1>3. Calm(World, p, d, conn[p])
  <2>1. d \in PhoneType
    BY <1>1 DEF PhoneType, RegStates
  <2>2. /\ d.buttons = phone[p].buttons /\ d.crossed = phone[p].crossed
        /\ d.session = phone[p].session
    BY <1>1 DEF PhoneType
  <2>3. AttachFact(World)
    BY DEF IInv, Good, Facts
  <2> HIDE DEF d
  <2> QED
    BY <1>1, <2>1, <2>2, <2>3 DEF Calm, Busy, AttachFact
<1>4. Good(ok) /\ Good(SendReset(ok, p))
  <2> HIDE DEF ok, d
  <2> QED
    BY <1>2, <1>3, ChangeKeeps, SendResetKeeps DEF IInv
<1>5. Become(ok) \/ Become(SendReset(ok, p))
  BY DEF Registered
<1> HIDE DEF ok
<1> QED
  BY <1>4, <1>5, Lands

\* Counting a command changes nothing else.
LEMMA CommandKeeps ==
    ASSUME NEW w, Good(w)
    PROVE  Good(Command(w))
<1>1. Same(Command(w), w)
  BY DEF Command, Same, Good, Typed
<1> QED
  BY <1>1, SameIsGood

LEMMA RestartDeviceKeeps ==
    ASSUME IInv, NEW p \in Phones, RestartDevice(p)
    PROVE  IInv'
<1> DEFINE told == Command(SendReset(World, p))
<1>1. Good(told) /\ Good(Stop(told, p, "NONE"))
  BY SendResetKeeps, CommandKeeps, StopKeeps DEF IInv
<1>2. Become(told) \/ Become(Stop(told, p, "NONE"))
  BY DEF RestartDevice
<1> HIDE DEF told
<1> QED
  BY <1>1, <1>2, Lands

----------------------------------------------------------------------------
(* Calls *)

SameButCalls(v, w) ==
    v.phone = w.phone /\ v.conn = w.conn /\ v.line = w.line /\ v.mgr = w.mgr /\ v.clean = w.clean

\* The calls matter to CallsFact only.
LEMMA CallsAside ==
    ASSUME NEW v, NEW w, SameButCalls(v, w), Facts(w), CallsFact(v)
    PROVE  Facts(v)
<1> USE DEF SameButCalls, Facts
<1>1. /\ \A p : Building(v, p) = Building(w, p) /\ Busy(v, p) = Busy(w, p)
      /\ \A p : KnownAttached(v, p) = KnownAttached(w, p)
      /\ \A p : LinesTakenDown(v, p) = LinesTakenDown(w, p)
      /\ \A t, p : Taken(v, t, p) = Taken(w, t, p)
  BY DEF Building, Busy, KnownAttached, LinesTakenDown, Taken
<1>2. CrossFact(v) /\ ManagerFact(v) /\ LineFact(v)
  BY <1>1 DEF CrossFact, ManagerFact, LineFact
<1>3. ButtonFact(v) /\ AttachFact(v) /\ GoneFact(v) /\ SessionFact(v) /\ AttachedFact(v)
  BY <1>1 DEF ButtonFact, AttachFact, GoneFact, SessionFact, AttachedFact
<1> QED
  BY <1>2, <1>3

LEMMA StartCallKeeps ==
    ASSUME IInv, NEW p \in Phones, NEW x \in Lines, StartCall(p, x)
    PROVE  IInv'
<1> DEFINE v == [World EXCEPT !.calls = @ \cup {<<p, x>>}]
<1>1. /\ v.calls = calls \cup {<<p, x>>} /\ DOMAIN v = DOMAIN World /\ v.phone = phone
      /\ v.conn = conn /\ v.line = line /\ v.mgr = mgr /\ v.clean = clean
  BY ONLY WorldIs
<1>2. phone[p].reg = "OK"
  BY DEF StartCall
<1> HIDE DEF v
<1>3. Typed(v)
  <2>1. IsFiniteSet(v.calls)
    <3>1. IsFiniteSet(calls)
      BY TypesHere
    <3>2. IsFiniteSet(calls \cup {<<p, x>>})
      BY ONLY <3>1, FS_AddElement
    <3> QED
      BY <1>1, <3>2
  <2>2. v.calls \subseteq Phones \X Lines
    BY <1>1, TypesHere
  <2> QED
    BY <1>1, <2>1, <2>2, WorldIs, TypesHere DEF Typed
<1>4. Facts(World) /\ SameButCalls(v, World)
  BY <1>1, WorldIs DEF IInv, Good, SameButCalls
<1>5. CallsFact(v)
  <2>1. clean[Manager].at = "lines" /\ clean[Manager].phone = p => phone[p].crossed
    BY <1>2, <1>4, WorldIs DEF Facts, CrossFact, Taken, Busy, Threads
  <2>2. \A q \in Phones \ {p} : \A y : <<q, y>> \in v.calls => <<q, y>> \in calls
    BY <1>1
  <2>3. \A q : LinesTakenDown(v, q) = LinesTakenDown(World, q)
    BY <1>1, WorldIs DEF LinesTakenDown
  <2> QED
    BY <1>1, <1>4, <2>1, <2>2, <2>3, WorldIs DEF Facts, CallsFact
<1>6. Good(v)
  BY <1>3, <1>4, <1>5, CallsAside DEF Good
<1> QED
  BY <1>6, Lands DEF StartCall, v

LEMMA EndCallKeeps ==
    ASSUME IInv, NEW c \in calls, EndCall(c)
    PROVE  IInv'
<1> DEFINE v == EndCalls(World, {c})
<1> USE TypesHere, WorldIs
<1>1. /\ v.calls = calls \ {c} /\ DOMAIN v = DOMAIN World /\ v.phone = phone
      /\ v.conn = conn /\ v.line = line /\ v.mgr = mgr /\ v.clean = clean
  BY DEF EndCalls
<1> HIDE DEF v
<1>2. Typed(v)
  BY <1>1, FS_Subset DEF Typed
<1>3. \E p : p \in Phones
  BY DEF IInv, Good, Typed
<1>4. PICK p \in Phones : TRUE
  BY <1>3
<1>5. Alone(World, v, p)
  BY <1>1 DEF Alone, LinesTakenDown, Busy, Building, AttachFact, IInv, Good, Facts
<1> QED
  BY <1>2, <1>5, AloneKeeps, Lands DEF EndCall, IInv, v

----------------------------------------------------------------------------
(* Attaching a line *)

LEMMA SameLines ==
    ASSUME NEW s, NEW z, DOMAIN s = DOMAIN z, \A j \in DOMAIN s : s[j].line = z[j].line
    PROVE  {b.line : b \in Range(s)} = {b.line : b \in Range(z)}
BY DEF Range

LEMMA NextInstanceType ==
    ASSUME IInv, NEW p \in Phones
    PROVE  NextInstance(p) \in Nat
<1>1. conn[p].keys \in Seq(KeyType)
  BY TypesHere DEF ThreadType
<1>2. DOMAIN conn[p].keys = 1..Len(conn[p].keys) /\ Len(conn[p].keys) \in Nat
  <2> HIDE DEF KeyType
  <2> QED
    BY <1>1
<1>3. IsFiniteSet(DOMAIN conn[p].keys)
  BY <1>2, FS_Interval
<1>4. Cardinality({j \in DOMAIN conn[p].keys : conn[p].keys[j].line # NoLine}) \in Nat
  BY <1>3, FS_Subset, FS_CardinalityType
<1> QED
  BY <1>4 DEF NextInstance

LEMMA AttachLineKeeps ==
    ASSUME IInv, NEW p \in Phones, AttachLine(p)
    PROVE  IInv'
<1> DEFINE i == conn[p].i
           x == phone[p].buttons[i].line
           n == NextInstance(p)
           d == [phone[p] EXCEPT !.buttons[i].inst = n,
                                 !.crossed = phone[p].crossed \/ ~line[x].known]
           c == [conn[p] EXCEPT !.at = "template", !.i = i + 1,
                                !.keys = Append(conn[p].keys, [line |-> x, inst |-> n])]
           v == [Attach(World, p, x) EXCEPT
                   !.phone[p] = [@ EXCEPT !.buttons[i].inst = n,
                                          !.crossed = phone[p].crossed \/ ~line[x].known],
                   !.conn[p] = [@ EXCEPT !.at = "template", !.i = i + 1,
                                  !.keys = Append(conn[p].keys, [line |-> x, inst |-> n])]]
<1>1. Facts(World)
  BY DEF IInv, Good
<1>2. phone[p] \in PhoneType /\ conn[p] \in ThreadType /\ conn[p].at = "attach"
  BY TypesHere DEF AttachLine
<1>3. i \in DOMAIN phone[p].buttons /\ x \in Lines
  BY <1>1, <1>2, WorldIs DEF Facts, AttachFact
<1>4. n \in Nat
  BY NextInstanceType
<1>5. /\ v.phone = [phone EXCEPT ![p] = d] /\ v.conn = [conn EXCEPT ![p] = c]
      /\ v.line = [line EXCEPT ![x] = [line[x] EXCEPT !.devices = line[x].devices \cup {p}]]
      /\ v.calls = calls /\ v.mgr = mgr /\ v.clean = clean /\ DOMAIN v = DOMAIN World
  <2> HIDE DEF n, i, x
  <2> QED
    BY WorldIs, TypesHere DEF Attach
<1>6. Become(v)
  BY DEF AttachLine
<1>7. /\ phone[p].buttons \in Seq(ButtonType) /\ phone[p].buttons[i] \in ButtonType
      /\ d.buttons = [phone[p].buttons EXCEPT ![i].inst = n]
      /\ d.crossed = (phone[p].crossed \/ ~line[x].known)
      /\ d.session = phone[p].session /\ d.reg = phone[p].reg
      /\ c.at = "template"
  <2> HIDE DEF n, i, x
  <2>1. phone[p].buttons \in Seq(ButtonType)
    BY <1>2 DEF PhoneType
  <2>2. phone[p].buttons[i] \in ButtonType
    <3> HIDE DEF ButtonType
    <3> QED
      BY <1>3, <2>1
  <2> QED
    BY <1>2, <2>1, <2>2 DEF PhoneType, ThreadType
<1>8. d.buttons \in Seq(ButtonType) /\ LinesTakenDown(v, p) = LinesTakenDown(World, p)
  <2> HIDE DEF n, i, x, d, c, v
  <2>1. [phone[p].buttons[i] EXCEPT !.inst = n] \in ButtonType
    BY <1>4, <1>7 DEF ButtonType
  <2>2. \A j \in DOMAIN d.buttons : d.buttons[j] \in ButtonType
    <3> HIDE DEF ButtonType
    <3> QED
      BY <1>3, <1>7, <2>1
  <2>3. /\ DOMAIN d.buttons = DOMAIN phone[p].buttons
        /\ \A j \in DOMAIN d.buttons : d.buttons[j].line = phone[p].buttons[j].line
    BY <1>3, <1>7 DEF ButtonType
  <2>4. d.buttons \in Seq(ButtonType)
    <3>1. d.buttons = [phone[p].buttons EXCEPT ![i] = [phone[p].buttons[i] EXCEPT !.inst = n]]
      BY <1>7
    <3>2. i \in 1..Len(phone[p].buttons)
      BY <1>3, <1>7
    <3> HIDE DEF ButtonType
    <3> QED
      BY <1>7, <2>1, <3>1, <3>2, ExceptSeq
  <2>5. v.phone[p].buttons = d.buttons
    BY <1>5, TypesHere
  <2>6. {b.line : b \in Range(d.buttons)} = {b.line : b \in Range(phone[p].buttons)}
    BY ONLY <2>3, SameLines
  <2> QED
    BY <2>4, <2>5, <2>6, WorldIs DEF LinesTakenDown
<1>9. d \in PhoneType /\ c \in ThreadType
  <2> HIDE DEF n, x
  <2>1. [line |-> x, inst |-> n] \in KeyType
    BY <1>3, <1>4 DEF KeyType
  <2>2. Append(conn[p].keys, [line |-> x, inst |-> n]) \in Seq(KeyType)
    <3> HIDE DEF KeyType
    <3> QED
      BY <1>2, <2>1 DEF ThreadType
  <2>3. i + 1 \in Nat \ {0}
    BY <1>2 DEF ThreadType
  <2> HIDE DEF i
  <2>4. (phone[p].crossed \/ ~line[x].known) \in BOOLEAN
    OBVIOUS
  <2> QED
    BY <1>2, <1>8, <2>2, <2>3, <2>4 DEF PhoneType, ThreadType
<1> HIDE DEF n, i, x, d, c, v
<1>10. Typed(v)
  <2>1. v.line \in [Lines -> LineType]
    BY <1>3, <1>5, TypesHere DEF LineType
  <2> HIDE DEF PhoneType, ThreadType, LineType
  <2> QED
    BY <1>5, <1>9, <2>1, WorldIs, TypesHere DEF Typed
<1>11. /\ v.phone[p] = d /\ v.conn[p] = c
       /\ \A q \in Phones \ {p} : v.phone[q] = phone[q] /\ v.conn[q] = conn[q]
       /\ \A y \in Lines \ {x} : v.line[y] = line[y]
       /\ v.line[x].known = line[x].known /\ v.line[x].devices = line[x].devices \cup {p}
       /\ v.line[x].delete = line[x].delete
  <2>1. line[x] \in LineType
    BY <1>3, TypesHere
  <2>2. v.line[x] = [line[x] EXCEPT !.devices = line[x].devices \cup {p}]
    BY <1>3, <1>5, TypesHere
  <2>3. /\ v.line[x].known = line[x].known /\ v.line[x].devices = line[x].devices \cup {p}
        /\ v.line[x].delete = line[x].delete
    BY <2>1, <2>2 DEF LineType
  <2> HIDE DEF PhoneType, ThreadType, LineType
  <2> QED
    BY <1>5, <2>3, TypesHere
<1>12. /\ \A q \in Phones \ {p} : /\ KnownAttached(v, q) = KnownAttached(World, q)
                                  /\ LinesTakenDown(v, q) = LinesTakenDown(World, q)
                                  /\ Busy(v, q) = Busy(World, q)
       /\ \A t : \A q \in Phones : Taken(v, t, q) = Taken(World, t, q)
       /\ KnownAttached(v, p) \subseteq KnownAttached(World, p) \cup {x}
       /\ Busy(World, p) /\ x \in LinesTakenDown(World, p)
  <2>1. \A q \in Phones \ {p} : /\ KnownAttached(v, q) = KnownAttached(World, q)
                                /\ LinesTakenDown(v, q) = LinesTakenDown(World, q)
                                /\ Busy(v, q) = Busy(World, q)
    BY <1>11, WorldIs DEF KnownAttached, LinesTakenDown, Busy, Building
  <2>2. \A t : \A q \in Phones : Taken(v, t, q) = Taken(World, t, q)
    BY <1>5, WorldIs DEF Taken
  <2>3. KnownAttached(v, p) \subseteq KnownAttached(World, p) \cup {x}
    BY <1>11, WorldIs DEF KnownAttached
  <2>4. Busy(World, p)
    BY <1>2, WorldIs DEF Busy, Building
  <2>5. x \in LinesTakenDown(World, p)
    BY <1>3, WorldIs, DevicesAssumption DEF LinesTakenDown, Range, x, DevicesAssumption
  <2> QED
    BY <2>1, <2>2, <2>3, <2>4, <2>5
<1>13. /\ \A y \in Lines : v.line[y].known = line[y].known /\ v.line[y].delete = line[y].delete
       /\ \A q \in Phones : /\ phone[q].crossed => v.phone[q].crossed
                            /\ v.phone[q].session = phone[q].session
                            /\ LinesTakenDown(v, q) = LinesTakenDown(World, q)
                            /\ Busy(v, q) => Busy(World, q)
  <2>1. /\ phone[p].crossed => v.phone[p].crossed
        /\ v.phone[p].session = phone[p].session
    BY <1>7, <1>11
  <2> QED
    BY <1>8, <1>11, <1>12, <2>1
<1>14. /\ \A t \in Threads : Taken(World, t, p) => v.phone[p].crossed
       /\ ~line[x].known => v.phone[p].crossed
  <2>1. \A t \in Threads : Taken(World, t, p) => phone[p].crossed
    BY <1>1, <1>12, WorldIs DEF Facts, CrossFact
  <2> QED
    BY <1>7, <1>11, <1>13, <2>1
<1>15. CrossFact(v)
  BY <1>1, <1>12, <1>13, WorldIs DEF Facts, CrossFact
<1>16. CallsFact(v)
  BY <1>1, <1>5, <1>13, WorldIs DEF Facts, CallsFact
<1>17. ManagerFact(v) /\ LineFact(v)
  <2>1. /\ ManagerFact(World) /\ World.clean = clean /\ v.clean = clean
        /\ LineFact(World) /\ World.mgr = mgr /\ v.mgr = mgr /\ World.line = line
    BY <1>1, <1>5, WorldIs DEF Facts
  <2>2. \A y \in Lines : /\ v.line[y].known <=> line[y].known
                         /\ v.line[y].delete => line[y].delete
    BY ONLY <1>13
  <2>3. LineFact(v)
    BY ONLY <2>1, <2>2 DEF LineFact
  <2> QED
    BY ONLY <2>1, <2>3 DEF ManagerFact
<1>18. ButtonFact(v)
  BY <1>1, <1>12, <1>13, WorldIs DEF Facts, ButtonFact
<1>19. AttachFact(v)
  BY <1>1, <1>7, <1>11, WorldIs DEF Facts, AttachFact
<1>20. GoneFact(v)
  <2>1. GoneFact(World) /\ World.clean = clean /\ v.clean = clean /\ World.phone = phone
    BY <1>1, <1>5, WorldIs DEF Facts
  <2>2. \A q \in Phones \ {p} : KnownAttached(v, q) = KnownAttached(World, q)
    BY <1>12
  <2> QED
    BY ONLY <1>13, <1>14, <2>1, <2>2 DEF GoneFact, Taken
<1>21. SessionFact(v)
  BY <1>1, <1>13, WorldIs DEF Facts, SessionFact
<1>22. AttachedFact(v)
  <2>1. phone[p].session \/ v.phone[p].crossed
    BY <1>1, <1>12, <1>13, WorldIs DEF Facts, SessionFact
  <2>2. \A q \in Phones \ {p} : KnownAttached(v, q) = KnownAttached(World, q)
    BY <1>12
  <2>3. AttachedFact(World) /\ World.clean = clean /\ v.clean = clean /\ World.phone = phone
    BY <1>1, <1>5, WorldIs DEF Facts
  <2> QED
    BY ONLY <1>13, <2>1, <2>2, <2>3 DEF AttachedFact
<1> QED
  BY <1>6, <1>10, <1>15, <1>16, <1>17, <1>18, <1>19, <1>20, <1>21, <1>22, Lands DEF Good, Facts

----------------------------------------------------------------------------
(* A device is taken down *)

\* A phone can be taken down by t: what the invariant says of the others, and of the
\* calls if it is the manager.
Ready(w, t, p) ==
    /\ Typed(w) /\ w.clean[t].at = "no"
    /\ CrossFact(w) /\ CallsFact(w) /\ ManagerFact(w) /\ LineFact(w) /\ ButtonFact(w)
    /\ AttachFact(w) /\ GoneFact(w)
    /\ \A q \in Phones \ {p} :
        /\ Busy(w, q) => w.phone[q].session \/ w.phone[q].crossed
        /\ KnownAttached(w, q) # {} =>
            \/ w.phone[q].session \/ w.phone[q].crossed
            \/ \E o \in Threads : w.clean[o].phone = q /\ w.clean[o].at = "lines"
NoCallEnds(w, t, p) ==
    t = Manager => /\ w.mgr.op \in {"idle", "devices", "reload device"}
                   /\ \A x \in LinesTakenDown(w, p) \cap Lines :
                        w.line[x].known => <<p, x>> \notin w.calls

LEMMA CleanBeginKeeps ==
    ASSUME NEW w, NEW t \in Threads, NEW p \in Phones, NEW r \in BOOLEAN, Ready(w, t, p),
           NoCallEnds(w, t, p)
    PROVE  Good(CleanBegin(w, t, p, r))
<1> DEFINE v == CleanBegin(w, t, p, r)
           k == [phone |-> p, remove |-> r, at |-> "lines"]
           crosses == \/ w.conn[p].at \in {"register", "template", "attach", "array"}
                      \/ \E o \in Threads : w.clean[o].phone = p
           d == [w.phone[p] EXCEPT !.reg = "CLEANING", !.known = w.phone[p].known /\ ~r,
                                   !.lines = FALSE, !.crossed = crosses]
<1>1. Typed(w) /\ w.phone[p] \in PhoneType /\ w.clean[t] \in CleanType /\ w.clean[t].at = "no"
  BY DEF Ready, Typed
<1>2. /\ v.phone = [w.phone EXCEPT ![p] = d] /\ v.clean = [w.clean EXCEPT ![t] = k]
      /\ v.conn = w.conn /\ v.line = w.line /\ v.calls = w.calls /\ v.mgr = w.mgr
      /\ DOMAIN v = DOMAIN w
  <2> HIDE DEF PhoneType, CleanType
  <2> HIDE DEF crosses
  <2>1. v = [w EXCEPT !.phone[p] = [@ EXCEPT !.reg = "CLEANING", !.known = w.phone[p].known /\ ~r,
                                             !.lines = FALSE, !.crossed = crosses],
                      !.clean[t] = k]
    BY DEF CleanBegin, crosses
  <2> HIDE DEF k, v
  <2> QED
    BY <1>1, <2>1 DEF Typed
<1>3. /\ d \in PhoneType /\ d.buttons = w.phone[p].buttons /\ d.reg = "CLEANING"
      /\ d.crossed = crosses /\ d.session = w.phone[p].session
  <2>1. (w.phone[p].known /\ ~r) \in BOOLEAN /\ crosses \in BOOLEAN
    OBVIOUS
  <2> HIDE DEF crosses
  <2> QED
    BY <1>1, <2>1 DEF PhoneType, RegStates
<1>4. k \in CleanType /\ k.phone = p /\ k.at = "lines"
  BY DEF CleanType
<1> HIDE DEF v, k, d
<1>5. Typed(v)
  <2> HIDE DEF PhoneType, CleanType, crosses
  <2> QED
    BY <1>1, <1>2, <1>3, <1>4 DEF Typed
<1>6. /\ v.phone[p] = d /\ v.clean[t] = k
      /\ \A q \in Phones \ {p} : v.phone[q] = w.phone[q]
      /\ \A o \in Threads \ {t} : v.clean[o] = w.clean[o]
  <2> HIDE DEF PhoneType, CleanType, crosses
  <2> QED
    BY <1>1, <1>2 DEF Typed
<1>7. /\ \A q \in Phones : LinesTakenDown(v, q) = LinesTakenDown(w, q)
      /\ \A q : KnownAttached(v, q) = KnownAttached(w, q) /\ Building(v, q) = Building(w, q)
  <2>1. \A q \in Phones : v.phone[q].buttons = w.phone[q].buttons
    BY <1>3, <1>6
  <2> HIDE DEF crosses
  <2> QED
    BY <1>2, <2>1 DEF LinesTakenDown, KnownAttached, Building
<1>8. /\ \A q \in Phones \ {p} : Busy(v, q) = Busy(w, q)
      /\ Busy(v, p) => v.phone[p].crossed
  BY <1>2, <1>3, <1>6 DEF Busy, Building
<1>9. \A o \in Threads \ {t} : w.clean[o].phone = p => v.phone[p].crossed
  BY <1>3, <1>6
<1> HIDE DEF crosses
<1>10. CrossFact(v)
  <2>1. \A o \in Threads : \A q \in Phones \ {p} : Taken(v, o, q) = Taken(w, o, q)
    BY <1>1, <1>4, <1>6 DEF Taken
  <2>2. CrossFact(w)
    BY DEF Ready
  <2>3. \A o \in Threads \ {t} : Taken(v, o, p) => v.phone[p].crossed
    BY <1>6, <1>9 DEF Taken
  <2> QED
    BY <1>6, <1>8, <2>1, <2>2, <2>3 DEF CrossFact
<1>11. CallsFact(v)
  <2>1. CallsFact(w)
    BY DEF Ready
  <2>2. CASE t = Manager
    BY <1>2, <1>4, <1>6, <1>7, <2>2 DEF CallsFact, NoCallEnds
  <2>3. CASE t # Manager
    <3>1. Manager \in Threads \ {t}
      BY <2>3 DEF Threads
    <3> QED
      BY <1>2, <1>6, <1>7, <1>9, <2>1, <3>1 DEF CallsFact
  <2> QED
    BY <2>2, <2>3
<1>12. ManagerFact(v) /\ LineFact(v)
  <2>1. ManagerFact(w) /\ LineFact(w)
    BY DEF Ready
  <2>2. Manager \in Threads
    BY DEF Threads
  <2>3. ManagerFact(v)
    BY <1>2, <1>6, <2>1, <2>2 DEF ManagerFact, NoCallEnds
  <2> QED
    BY <1>2, <2>1, <2>3 DEF LineFact
<1>13. ButtonFact(v) /\ AttachFact(v)
  <2>1. ButtonFact(w) /\ AttachFact(w)
    BY DEF Ready
  <2>2. \A q \in Phones : v.phone[q].buttons = w.phone[q].buttons
    BY <1>3, <1>6
  <2> QED
    BY <1>2, <1>7, <2>1, <2>2 DEF ButtonFact, AttachFact
<1>14. GoneFact(v)
  <2>1. GoneFact(w)
    BY DEF Ready
  <2> QED
    BY <1>4, <1>6, <1>7, <1>9, <2>1 DEF GoneFact
<1>15. SessionFact(v)
  BY <1>6, <1>8 DEF SessionFact, Ready
<1>16. AttachedFact(v)
  <2>1. ASSUME NEW q \in Phones \ {p}, KnownAttached(v, q) # {}
        PROVE  \/ v.phone[q].session \/ v.phone[q].crossed
               \/ \E o \in Threads : v.clean[o].phone = q /\ v.clean[o].at = "lines"
    <3>1. \/ w.phone[q].session \/ w.phone[q].crossed
          \/ \E o \in Threads : w.clean[o].phone = q /\ w.clean[o].at = "lines"
      BY <1>7, <2>1 DEF Ready
    <3>2. \A o \in Threads : w.clean[o].at = "lines" => v.clean[o] = w.clean[o]
      BY <1>1, <1>6
    <3> QED
      BY <1>6, <3>1, <3>2
  <2>2. v.clean[t].phone = p /\ v.clean[t].at = "lines"
    BY <1>4, <1>6
  <2> QED
    BY <2>1, <2>2 DEF AttachedFact
<1> QED
  BY <1>5, <1>10, <1>11, <1>12, <1>13, <1>14, <1>15, <1>16 DEF Good, Facts, v

LEMMA GoodIsReady ==
    ASSUME NEW w, NEW t \in Threads, NEW p \in Phones, Good(w), w.clean[t].at = "no"
    PROVE  Ready(w, t, p)
BY DEF Ready, Good, Facts, SessionFact, AttachedFact

\* A phone without a call on its lines has no channels.
LEMMA NoChannels ==
    ASSUME NEW w, NEW p \in Phones, Typed(w), ~(NumberOfChannels(w, p) > 0)
    PROVE  \A x \in LinesTakenDown(w, p) \cap Lines : w.line[x].known => <<p, x>> \notin w.calls
<1> DEFINE here == {c \in w.calls : c[1] = p /\ w.line[c[2]].known
                                    /\ \E b \in Range(w.phone[p].buttons) : b.line = c[2]}
<1>1. IsFiniteSet(here)
  BY FS_Subset DEF Typed
<1>2. Cardinality(here) \in Nat /\ ~(Cardinality(here) > 0)
  <2>1. Cardinality(here) \in Nat
    BY <1>1, FS_CardinalityType
  <2> QED
    BY <2>1 DEF NumberOfChannels
<1>3. here = {}
  <2> HIDE DEF here
  <2>1. Cardinality(here) = 0
    BY <1>2
  <2> QED
    BY <1>1, <2>1, FS_EmptySet
<1>4. ASSUME NEW x \in LinesTakenDown(w, p) \cap Lines, w.line[x].known, <<p, x>> \in w.calls
      PROVE  FALSE
  <2>1. \E b \in Range(w.phone[p].buttons) : b.line = x
    BY <1>4 DEF LinesTakenDown
  <2>2. <<p, x>> \in here
    BY <1>4, <2>1
  <2> QED
    BY <1>3, <2>2
<1> QED
  BY <1>4

LEMMA CheckUpdateKeeps ==
    ASSUME NEW w, NEW t \in Threads, NEW p \in Phones, Good(w), w.clean[t].at = "no",
           t = Manager => w.mgr.op \in {"idle", "devices", "reload device"}
    PROVE  Good(CheckUpdate(w, t, p))
<1>1. CASE NumberOfChannels(w, p) > 0
  BY <1>1 DEF CheckUpdate
<1>2. CASE ~(NumberOfChannels(w, p) > 0)
  <2> DEFINE u == [w EXCEPT !.phone[p].update = FALSE]
             d == [w.phone[p] EXCEPT !.update = FALSE]
  <2>1. w.phone[p] \in PhoneType /\ w.conn[p] \in ThreadType
    BY DEF Good, Typed
  <2>2. Changed(w, u, p, d, w.conn[p])
    <3> HIDE DEF PhoneType, ThreadType
    <3> QED
      BY DEF Changed, Good, Typed
  <2>3. /\ d \in PhoneType /\ d.buttons = w.phone[p].buttons /\ d.reg = w.phone[p].reg
        /\ d.crossed = w.phone[p].crossed /\ d.session = w.phone[p].session
    BY <2>1 DEF PhoneType
  <2>4. Calm(w, p, d, w.conn[p])
    <3> HIDE DEF d
    <3> QED
      BY <2>1, <2>3 DEF Calm, Busy, Building, Good, Facts, AttachFact
  <2> HIDE DEF u, d
  <2>5. Good(u)
    BY <2>2, <2>4, ChangeKeeps
  <2>6. Ready(u, t, p)
    BY <2>2, <2>5, GoodIsReady DEF Changed
  <2>7. NoCallEnds(u, t, p)
    <3>1. u.phone[p].buttons = w.phone[p].buttons
      <4> HIDE DEF PhoneType
      <4> QED
        BY <2>2, <2>3 DEF Changed, Good, Typed
    <3>2. LinesTakenDown(u, p) = LinesTakenDown(w, p)
      BY <3>1 DEF LinesTakenDown
    <3>3. Typed(w)
      BY DEF Good
    <3> QED
      BY <1>2, <2>2, <3>2, <3>3, NoChannels DEF NoCallEnds, Changed
  <2>8. w.phone[p].delete \in BOOLEAN
    BY <2>1 DEF PhoneType
  <2>9. Good(CleanBegin(u, t, p, w.phone[p].delete))
    BY <2>6, <2>7, <2>8, CleanBeginKeeps
  <2> QED
    BY <1>2, <2>9 DEF CheckUpdate, u
<1> QED
  BY <1>1, <1>2

LEMMA LoopKeeps ==
    ASSUME IInv, NEW p \in Phones, Loop(p)
    PROVE  IInv'
<1>1. p \in Threads /\ p # Manager
  BY DevicesAssumption DEF Threads, DevicesAssumption
<1>2. World.clean[p].at = "no"
  BY WorldIs DEF Loop, Loops
<1>3. Good(CheckUpdate(World, p, p))
  BY <1>1, <1>2, CheckUpdateKeeps DEF IInv
<1> QED
  BY <1>3, Lands DEF Loop

LEMMA ThreadExitKeeps ==
    ASSUME IInv, NEW p \in Phones, ThreadExit(p)
    PROVE  IInv'
<1> USE TypesHere, WorldIs
<1>1. phone[p] \in PhoneType /\ conn[p] \in ThreadType /\ conn[p].at = "loop"
  BY DEF ThreadExit
<1>2. CASE Become([World EXCEPT !.conn[p] = NoThread])
  <2> DEFINE v == [World EXCEPT !.conn[p] = NoThread]
  <2>1. Changed(World, v, p, phone[p], NoThread)
    <3> HIDE DEF PhoneType, ThreadType
    <3> QED
      BY DEF Changed
  <2>2. NoThread \in ThreadType /\ NoThread.at = "none"
    <3>1. 1 \in Nat \ {0} /\ <<>> \in Seq(KeyType)
      <4> HIDE DEF KeyType
      <4> QED
        OBVIOUS
    <3> QED
      BY <3>1 DEF ThreadType, NoThread
  <2>3. Calm(World, p, phone[p], NoThread)
    BY <1>1, <2>2 DEF Calm, Busy
  <2> HIDE DEF v
  <2>4. Good(v)
    BY <2>1, <2>3, ChangeKeeps DEF IInv
  <2> QED
    BY <1>2, <2>4, Lands DEF v
<1>3. CASE Become(CleanBegin([World EXCEPT !.phone[p].session = FALSE,
                               !.conn[p] = [@ EXCEPT !.at = "exit", !.bound = FALSE]],
                             p, p, p \in Realtime))
  <2> DEFINE u == [World EXCEPT !.phone[p].session = FALSE,
                                !.conn[p] = [@ EXCEPT !.at = "exit", !.bound = FALSE]]
             d == [phone[p] EXCEPT !.session = FALSE]
             c == [conn[p] EXCEPT !.at = "exit", !.bound = FALSE]
  <2>1. Changed(World, u, p, d, c)
    <3> HIDE DEF PhoneType, ThreadType
    <3> QED
      BY DEF Changed
  <2>2. /\ d \in PhoneType /\ d.buttons = phone[p].buttons /\ d.reg = phone[p].reg
        /\ d.crossed = phone[p].crossed /\ c \in ThreadType /\ c.at = "exit"
    BY <1>1 DEF PhoneType, ThreadType
  <2> HIDE DEF u, d, c
  <2>3. /\ u.phone[p] = d /\ u.conn[p] = c
        /\ \A q \in Phones \ {p} : u.phone[q] = phone[q] /\ u.conn[q] = conn[q]
        /\ u.line = line /\ u.calls = calls /\ u.mgr = mgr /\ u.clean = clean
    <3> HIDE DEF PhoneType, ThreadType
    <3> QED
      BY <2>1 DEF Changed
  <2>4. Typed(u)
    <3> HIDE DEF PhoneType, ThreadType
    <3> QED
      BY <2>1, <2>2 DEF Changed, Typed
  <2>5. /\ \A q \in Phones : LinesTakenDown(u, q) = LinesTakenDown(World, q)
        /\ \A q : KnownAttached(u, q) = KnownAttached(World, q)
        /\ \A o, q : Taken(u, o, q) = Taken(World, o, q)
        /\ \A q \in Phones : Busy(u, q) = Busy(World, q)
        /\ \A q \in Phones : u.phone[q].crossed = phone[q].crossed
    BY <1>1, <2>2, <2>3 DEF LinesTakenDown, KnownAttached, Taken, Busy, Building
  <2>6. Facts(World)
    BY DEF IInv, Good
  <2>7. CrossFact(u) /\ CallsFact(u) /\ ManagerFact(u) /\ LineFact(u)
    <3>1. CrossFact(u)
      BY <2>5, <2>6 DEF Facts, CrossFact
    <3>2. CallsFact(u)
      BY <2>3, <2>5, <2>6 DEF Facts, CallsFact
    <3>3. LineFact(u)
      <4>1. LineFact(World) /\ World.line = u.line /\ World.mgr = u.mgr
        BY <2>3, <2>6 DEF Facts
      <4> QED
        BY ONLY <4>1 DEF LineFact
    <3>4. ManagerFact(u)
      BY <2>3, <2>6 DEF Facts, ManagerFact
    <3> QED
      BY <3>1, <3>2, <3>3, <3>4
  <2>8. ButtonFact(u) /\ AttachFact(u) /\ GoneFact(u)
    <3>1. ButtonFact(u)
      BY <2>5, <2>6 DEF Facts, ButtonFact
    <3>2. AttachFact(u)
      BY <2>2, <2>3, <2>6 DEF Facts, AttachFact
    <3>3. GoneFact(u)
      <4>1. GoneFact(World) /\ World.clean = u.clean /\ World.phone = phone
        BY <2>3, <2>6 DEF Facts
      <4> QED
        BY ONLY <2>5, <4>1 DEF GoneFact
    <3> QED
      BY <3>1, <3>2, <3>3
  <2>9. Ready(u, p, p)
    <3>1. u.clean[p].at = "no"
      BY <2>3 DEF ThreadExit
    <3>2. SessionFact(World) /\ AttachedFact(World)
      BY <2>6 DEF Facts
    <3> QED
      BY <2>3, <2>4, <2>5, <2>7, <2>8, <3>1, <3>2 DEF Ready, SessionFact, AttachedFact
  <2>10. p \in Threads /\ p # Manager /\ (p \in Realtime) \in BOOLEAN
    BY DevicesAssumption DEF Threads, DevicesAssumption
  <2>11. Good(CleanBegin(u, p, p, p \in Realtime))
    BY ONLY <2>9, <2>10, CleanBeginKeeps DEF NoCallEnds
  <2> QED
    BY <1>3, <2>11, Lands DEF u
<1> QED
  BY <1>2, <1>3 DEF ThreadExit

\* A clean that goes on is that of a phone.
LEMMA CleaningType ==
    ASSUME IInv, NEW t \in Threads, clean[t].at # "no"
    PROVE  /\ clean[t].phone \in Phones /\ clean[t].remove \in BOOLEAN
           /\ clean[t].at \in {"lines", "template", "session"}
           /\ clean[t] = [phone |-> clean[t].phone, remove |-> clean[t].remove,
                          at |-> clean[t].at]
<1>1. clean[t] \in CleanType
  BY TypesHere
<1> QED
  BY <1>1 DEF CleanType, NoClean

LEMMA CleanTemplateKeeps ==
    ASSUME IInv, NEW t \in Threads, CleanTemplate(t)
    PROVE  IInv'
<1> DEFINE p == clean[t].phone
           k == [clean[t] EXCEPT !.at = "session"]
           d == [phone[p] EXCEPT !.built = FALSE, !.template = <<>>, !.array = {}]
           v == [World EXCEPT !.clean[t].at = "session",
                              !.phone[p] = [@ EXCEPT !.built = FALSE, !.template = <<>>,
                                                     !.array = {}]]
<1>1. /\ clean[t].at = "template" /\ p \in Phones
      /\ k = [phone |-> p, remove |-> clean[t].remove, at |-> "session"]
      /\ clean[t].remove \in BOOLEAN
  <2>1. clean[t].at = "template"
    BY DEF CleanTemplate
  <2>2. clean[t] = [phone |-> p, remove |-> clean[t].remove, at |-> "template"]
    BY <2>1, CleaningType
  <2> QED
    BY <2>1, <2>2, CleaningType
<1> HIDE DEF p
<1>2. phone[p] \in PhoneType
  BY <1>1, TypesHere
<1>3. /\ d \in PhoneType /\ d.buttons = phone[p].buttons /\ d.reg = phone[p].reg
      /\ d.crossed = phone[p].crossed /\ d.session = phone[p].session
  <2>1. <<>> \in Seq(KeyType)
    <3> HIDE DEF KeyType
    <3> QED
      OBVIOUS
  <2> QED
    BY <1>2, <2>1 DEF PhoneType
<1>4. k \in CleanType /\ k.phone = p /\ k.at = "session"
  BY <1>1 DEF CleanType
<1>5. /\ v.phone = [phone EXCEPT ![p] = d] /\ v.clean = [clean EXCEPT ![t] = k]
      /\ v.conn = conn /\ v.line = line /\ v.calls = calls /\ v.mgr = mgr
      /\ DOMAIN v = DOMAIN World
  <2> HIDE DEF PhoneType, CleanType
  <2> QED
    BY WorldIs, TypesHere
<1>6. Become(v)
  BY DEF CleanTemplate, p
<1> HIDE DEF v, k, d
<1>7. Typed(v)
  <2> HIDE DEF PhoneType, CleanType
  <2> QED
    BY <1>3, <1>4, <1>5, WorldIs, TypesHere DEF Typed
<1>8. /\ v.phone[p] = d /\ v.clean[t] = k
      /\ \A q \in Phones \ {p} : v.phone[q] = phone[q]
      /\ \A o \in Threads \ {t} : v.clean[o] = clean[o]
  <2> HIDE DEF PhoneType, CleanType
  <2> QED
    BY <1>1, <1>5, TypesHere
<1>9. /\ \A q \in Phones : LinesTakenDown(v, q) = LinesTakenDown(World, q)
      /\ \A q : KnownAttached(v, q) = KnownAttached(World, q)
      /\ \A o \in Threads : \A q : Taken(v, o, q) = Taken(World, o, q)
      /\ \A q \in Phones : Busy(v, q) = Busy(World, q)
      /\ \A q \in Phones : v.phone[q].crossed = phone[q].crossed
      /\ \A q \in Phones : v.phone[q].session = phone[q].session
      /\ \A o \in Threads : (v.clean[o].at = "lines" <=> clean[o].at = "lines")
      /\ \A o \in Threads : v.clean[o].phone = clean[o].phone
      /\ \A o \in Threads : v.clean[o].at \in {"template", "session"}
                            <=> clean[o].at \in {"template", "session"}
      /\ \A o \in Threads : (v.clean[o].at = "no" <=> clean[o].at = "no")
  <2>1. \A q \in Phones : LinesTakenDown(v, q) = LinesTakenDown(World, q)
    BY <1>3, <1>8, WorldIs DEF LinesTakenDown
  <2>2. \A q : KnownAttached(v, q) = KnownAttached(World, q)
    BY <1>5, WorldIs DEF KnownAttached
  <2>3. \A q \in Phones : Busy(v, q) = Busy(World, q)
    BY <1>3, <1>5, <1>8, WorldIs DEF Busy, Building
  <2>4. \A o \in Threads : v.clean[o].phone = clean[o].phone
    BY <1>4, <1>8 DEF p
  <2>5. \A o \in Threads : \A q : Taken(v, o, q) = Taken(World, o, q)
    BY <1>1, <1>4, <1>8, <2>4, WorldIs DEF Taken
  <2> QED
    BY <1>1, <1>3, <1>4, <1>8, <2>1, <2>2, <2>3, <2>4, <2>5
<1>10. /\ Facts(World) /\ Manager \in Threads
       /\ v.line = World.line /\ v.calls = World.calls /\ v.mgr = World.mgr /\ v.conn = World.conn
       /\ World.clean = clean /\ World.phone = phone
  BY <1>5, WorldIs DEF IInv, Good, Threads
<1>11. CrossFact(v)
  BY ONLY <1>9, <1>10 DEF Facts, CrossFact
<1>12. CallsFact(v)
  BY ONLY <1>9, <1>10 DEF Facts, CallsFact
<1>13. ManagerFact(v)
  BY ONLY <1>9, <1>10 DEF Facts, ManagerFact
<1>14. LineFact(v)
  BY ONLY <1>9, <1>10 DEF Facts, LineFact
<1>15. ButtonFact(v)
  BY ONLY <1>9, <1>10 DEF Facts, ButtonFact
<1>16. AttachFact(v)
  <2>1. \A q \in Phones : v.phone[q].buttons = phone[q].buttons
    BY <1>3, <1>8
  <2> QED
    BY ONLY <1>10, <2>1 DEF Facts, AttachFact
<1>17. GoneFact(v)
  BY ONLY <1>9, <1>10 DEF Facts, GoneFact
<1>18. SessionFact(v)
  BY ONLY <1>9, <1>10 DEF Facts, SessionFact
<1>19. AttachedFact(v)
  BY ONLY <1>9, <1>10 DEF Facts, AttachedFact
<1> QED
  BY <1>6, <1>7, <1>11, <1>12, <1>13, <1>14, <1>15, <1>16, <1>17, <1>18, <1>19, Lands
     DEF Good, Facts

LEMMA CleanSessionKeeps ==
    ASSUME IInv, NEW t \in Threads, CleanSession(t)
    PROVE  IInv'
<1> DEFINE p == clean[t].phone
           freed == IF phone[p].session
                    THEN [World EXCEPT !.phone[p].session = FALSE, !.conn[p].bound = FALSE,
                                       !.conn[p].stop = TRUE]
                    ELSE World
           done == [freed EXCEPT !.phone[p].reg = "NONE", !.clean[t] = NoClean]
           d == [phone[p] EXCEPT !.session = FALSE, !.reg = "NONE"]
           stopped == [conn[p] EXCEPT !.bound = FALSE, !.stop = TRUE]
<1>1. clean[t].at = "session" /\ p \in Phones
  BY CleaningType DEF CleanSession
<1>2. phone[p] \in PhoneType /\ conn[p] \in ThreadType
  BY <1>1, TypesHere
<1>3. /\ d \in PhoneType /\ d.buttons = phone[p].buttons /\ d.reg = "NONE"
      /\ d.crossed = phone[p].crossed
  BY <1>2 DEF PhoneType, RegStates
<1>4. stopped \in ThreadType /\ stopped.at = conn[p].at /\ stopped.i = conn[p].i
  BY <1>2 DEF ThreadType
<1>5. NoThread \in ThreadType /\ NoThread.at = "none"
  <2>1. 1 \in Nat \ {0} /\ <<>> \in Seq(KeyType)
    <3> HIDE DEF KeyType
    <3> QED
      OBVIOUS
  <2> QED
    BY <2>1 DEF ThreadType, NoThread
<1>6. PICK v : /\ Become(v)
               /\ v = done \/ v = [done EXCEPT !.conn[p] = NoThread]
  <2>1. Become(done) \/ Become([done EXCEPT !.conn[p] = NoThread])
    BY DEF CleanSession
  <2> HIDE DEF done
  <2> QED
    BY <2>1
<1> HIDE DEF p, stopped
<1>7. \E c \in {conn[p], stopped, NoThread} :
        /\ v.phone = [phone EXCEPT ![p] = d] /\ v.clean = [clean EXCEPT ![t] = NoClean]
        /\ v.conn = [conn EXCEPT ![p] = c] /\ v.line = line /\ v.calls = calls /\ v.mgr = mgr
        /\ DOMAIN v = DOMAIN World
  <2> HIDE DEF d
  <2>1. /\ DOMAIN freed = DOMAIN World /\ freed.line = line /\ freed.calls = calls
        /\ freed.mgr = mgr /\ freed.clean = clean
        /\ freed.phone = [phone EXCEPT ![p] = [phone[p] EXCEPT !.session = FALSE]]
        /\ \E c \in {conn[p], stopped} : freed.conn = [conn EXCEPT ![p] = c]
    <3>1. CASE phone[p].session
      <4> HIDE DEF PhoneType, ThreadType
      <4> QED
        BY <1>1, <3>1, WorldIs, TypesHere DEF stopped
    <3>2. CASE ~phone[p].session
      <4>1. phone[p] = [phone[p] EXCEPT !.session = FALSE]
        BY <1>2, <3>2 DEF PhoneType
      <4> HIDE DEF PhoneType, ThreadType
      <4> QED
        BY <1>1, <3>2, <4>1, WorldIs, TypesHere
    <3> QED
      BY <3>1, <3>2
  <2> HIDE DEF freed
  <2>2. /\ DOMAIN done = DOMAIN World /\ done.line = line /\ done.calls = calls
        /\ done.mgr = mgr /\ done.clean = [clean EXCEPT ![t] = NoClean]
        /\ done.phone = [phone EXCEPT ![p] = d]
        /\ done.conn = freed.conn
    <3> HIDE DEF PhoneType, ThreadType
    <3> QED
      BY <1>1, <2>1, WorldIs, TypesHere DEF d
  <2> HIDE DEF done
  <2>3. PICK c \in {conn[p], stopped} : done.conn = [conn EXCEPT ![p] = c]
    BY <2>1, <2>2
  <2>4. CASE v = done
    BY <2>2, <2>3, <2>4
  <2>5. CASE v = [done EXCEPT !.conn[p] = NoThread]
    BY <1>1, <2>2, <2>3, <2>5, WorldIs, TypesHere
  <2> QED
    BY <1>6, <2>4, <2>5
<1>8. PICK c \in {conn[p], stopped, NoThread} :
        /\ v.phone = [phone EXCEPT ![p] = d] /\ v.clean = [clean EXCEPT ![t] = NoClean]
        /\ v.conn = [conn EXCEPT ![p] = c] /\ v.line = line /\ v.calls = calls /\ v.mgr = mgr
        /\ DOMAIN v = DOMAIN World
  BY <1>7
<1>9. c \in ThreadType /\ c.at \in {conn[p].at, "none"} /\ (c.at = "attach" => c.i = conn[p].i)
  BY <1>2, <1>4, <1>5, <1>8
<1> HIDE DEF d
<1>10. Typed(v)
  <2>1. NoClean \in CleanType
    BY DEF CleanType
  <2> HIDE DEF PhoneType, ThreadType, CleanType
  <2>2. v.phone \in [Phones -> PhoneType] /\ v.conn \in [Phones -> ThreadType]
    BY <1>3, <1>8, <1>9, TypesHere
  <2>3. v.clean \in [Threads -> CleanType]
    BY <1>8, <2>1, TypesHere
  <2> QED
    BY <1>8, <2>2, <2>3, WorldIs, TypesHere DEF Typed
<1>11. /\ v.phone[p] = d /\ v.clean[t] = NoClean /\ v.conn[p] = c
       /\ \A q \in Phones \ {p} : v.phone[q] = phone[q] /\ v.conn[q] = conn[q]
       /\ \A o \in Threads \ {t} : v.clean[o] = clean[o]
  <2> HIDE DEF PhoneType, ThreadType, CleanType
  <2> QED
    BY <1>1, <1>8, TypesHere
<1>12. /\ Facts(World) /\ Manager \in Threads /\ NoClean.at = "no"
       /\ v.line = World.line /\ v.calls = World.calls /\ v.mgr = World.mgr
       /\ World.clean = clean /\ World.phone = phone /\ World.conn = conn
  BY <1>8, WorldIs DEF IInv, Good, Threads, NoClean
<1>13. /\ \A q \in Phones : LinesTakenDown(v, q) = LinesTakenDown(World, q)
       /\ \A q : KnownAttached(v, q) = KnownAttached(World, q)
       /\ \A q \in Phones : Busy(v, q) => Busy(World, q)
       /\ \A q \in Phones : v.phone[q].crossed = phone[q].crossed
       /\ \A q \in Phones : v.phone[q].buttons = phone[q].buttons
       /\ \A o \in Threads : v.clean[o].at # "no" => v.clean[o] = clean[o]
       /\ \A o \in Threads : clean[o].at = "lines" => v.clean[o] = clean[o]
  <2>1. \A q \in Phones : v.phone[q].buttons = phone[q].buttons
    BY <1>3, <1>11
  <2>2. \A q \in Phones : LinesTakenDown(v, q) = LinesTakenDown(World, q)
    BY <2>1, WorldIs DEF LinesTakenDown
  <2>3. \A q : KnownAttached(v, q) = KnownAttached(World, q)
    BY <1>8, WorldIs DEF KnownAttached
  <2>4. \A q \in Phones : Busy(v, q) => Busy(World, q)
    BY <1>3, <1>9, <1>11, WorldIs DEF Busy, Building
  <2> QED
    BY <1>1, <1>3, <1>11, <1>12, <2>1, <2>2, <2>3, <2>4
<1>14. CrossFact(v)
  BY ONLY <1>12, <1>13 DEF Facts, CrossFact, Taken
<1>15. CallsFact(v)
  BY ONLY <1>12, <1>13 DEF Facts, CallsFact
<1>16. ManagerFact(v)
  BY ONLY <1>12, <1>13 DEF Facts, ManagerFact
<1>17. LineFact(v)
  BY ONLY <1>12 DEF Facts, LineFact
<1>18. ButtonFact(v)
  BY ONLY <1>12, <1>13 DEF Facts, ButtonFact
<1>19. AttachFact(v)
  BY ONLY <1>9, <1>11, <1>12, <1>13 DEF Facts, AttachFact
<1>20. GoneFact(v)
  BY ONLY <1>12, <1>13 DEF Facts, GoneFact
<1>21. /\ Busy(World, p) => phone[p].crossed
       /\ KnownAttached(World, p) # {} => phone[p].crossed
  BY <1>1, <1>12 DEF Facts, CrossFact, GoneFact, Taken, p
<1>22. \A q \in Phones \ {p} : v.phone[q].session = phone[q].session
  BY <1>11
<1>23. SessionFact(v)
  BY ONLY <1>12, <1>13, <1>21, <1>22 DEF Facts, SessionFact
<1>24. AttachedFact(v)
  BY ONLY <1>12, <1>13, <1>21, <1>22 DEF Facts, AttachedFact
<1> QED
  BY <1>6, <1>10, <1>14, <1>15, <1>16, <1>17, <1>18, <1>19, <1>20, <1>23, <1>24, Lands
     DEF Good, Facts

LEMMA UnplacedIsButtons ==
    ASSUME NEW s \in Seq(ButtonType)
    PROVE  Unplaced(s) \in Seq(ButtonType)
<1>1. DOMAIN s = 1..Len(s) /\ Len(s) \in Nat /\ \A j \in DOMAIN s : s[j] \in ButtonType
  <2> HIDE DEF ButtonType
  <2> QED
    OBVIOUS
<1>2. \A j \in DOMAIN s : [s[j] EXCEPT !.inst = 0] \in ButtonType
  BY <1>1 DEF ButtonType
<1>3. [j \in 1..Len(s) |-> [s[j] EXCEPT !.inst = 0]] \in Seq(ButtonType)
  <2> HIDE DEF ButtonType
  <2> QED
    BY <1>1, <1>2
<1> QED
  BY <1>1, <1>3 DEF Unplaced

LEMMA CleanLinesKeeps ==
    ASSUME IInv, NEW t \in Threads, CleanLines(t)
    PROVE  IInv'
<1> DEFINE p == clean[t].phone
           found == {x \in LinesTakenDown(World, p) : line[x].known}
           k == [clean[t] EXCEPT !.at = "template"]
           d == [phone[p] EXCEPT !.buttons = Unplaced(Keep(phone[p].buttons))]
           lines == [x \in Lines |-> IF x \in found THEN Detach(line[x], p) ELSE line[x]]
           ended == {<<p, x>> : x \in found}
           v == [TakeDown(World, p) EXCEPT !.clean[t].at = "template"]
<1>1. /\ clean[t].at = "lines" /\ p \in Phones /\ ~Building(World, p)
      /\ k = [phone |-> p, remove |-> clean[t].remove, at |-> "template"]
      /\ clean[t].remove \in BOOLEAN
  <2>1. clean[t].at = "lines" /\ ~Building(World, p)
    BY DEF CleanLines
  <2>2. clean[t] = [phone |-> p, remove |-> clean[t].remove, at |-> "lines"]
    BY <2>1, CleaningType
  <2> QED
    BY <2>1, <2>2, CleaningType
<1>2. Become(v)
  BY DEF CleanLines
<1> HIDE DEF p
<1>3. phone[p] \in PhoneType
  BY <1>1, TypesHere
<1>4. /\ d \in PhoneType /\ d.reg = phone[p].reg /\ d.crossed = phone[p].crossed
      /\ d.session = phone[p].session
  <2>1. phone[p].buttons \in Seq(ButtonType)
    BY <1>3 DEF PhoneType
  <2>2. Unplaced(Keep(phone[p].buttons)) \in Seq(ButtonType)
    BY <2>1, KeepIsButtons, UnplacedIsButtons
  <2> HIDE DEF ButtonType
  <2> QED
    BY <1>3, <2>2 DEF PhoneType
<1>5. k \in CleanType /\ k.phone = p /\ k.at = "template"
  BY <1>1 DEF CleanType
<1>6. lines \in [Lines -> LineType]
  <2>1. ASSUME NEW x \in Lines PROVE Detach(line[x], p) \in LineType /\ line[x] \in LineType
    <3>1. line[x] \in LineType
      BY TypesHere
    <3> QED
      BY <3>1 DEF Detach, LineType
  <2> HIDE DEF found, LineType
  <2> QED
    BY <2>1
<1>7. \A x \in Lines : /\ lines[x].known = line[x].known /\ lines[x].delete = line[x].delete
                       /\ lines[x].devices = IF x \in found THEN line[x].devices \ {p}
                                             ELSE line[x].devices
  <2>1. ASSUME NEW x \in Lines
        PROVE  /\ lines[x].known = line[x].known /\ lines[x].delete = line[x].delete
               /\ lines[x].devices = IF x \in found THEN line[x].devices \ {p}
                                     ELSE line[x].devices
    <3>1. line[x] \in LineType /\ lines[x] = IF x \in found THEN Detach(line[x], p) ELSE line[x]
      BY TypesHere
    <3> HIDE DEF found, lines
    <3> QED
      BY <3>1 DEF Detach, LineType
  <2> HIDE DEF lines
  <2> QED
    BY <2>1
<1>8. /\ v.phone = [phone EXCEPT ![p] = d] /\ v.clean = [clean EXCEPT ![t] = k]
      /\ v.conn = conn /\ v.line = lines /\ v.calls = calls \ ended /\ v.mgr = mgr
      /\ DOMAIN v = DOMAIN World
  <2> DEFINE u == TakeDown(World, p)
  <2>1. /\ u.phone = [phone EXCEPT ![p] = d] /\ u.clean = clean /\ u.conn = conn
        /\ u.line = lines /\ u.calls = calls \ ended /\ u.mgr = mgr /\ DOMAIN u = DOMAIN World
    <3> DEFINE out == {x \in LinesTakenDown(World, p) : World.line[x].known}
               gone == {<<p, x>> : x \in out}
               left == [x \in Lines |-> IF x \in out THEN Detach(World.line[x], p)
                                        ELSE World.line[x]]
    <3>1. u = [World EXCEPT !.calls = @ \ gone, !.line = left,
                            !.phone[p].buttons = Unplaced(Keep(@))]
      BY DEF TakeDown
    <3>2. gone = ended /\ left = lines
      BY WorldIs
    <3> HIDE DEF gone, left, ended, lines, u, PhoneType
    <3> QED
      BY <3>1, <3>2, WorldIs, TypesHere
  <2> HIDE DEF u, d, lines, ended, PhoneType, CleanType
  <2>2. v = [u EXCEPT !.clean[t].at = "template"]
    BY DEF u
  <2> HIDE DEF v
  <2> QED
    BY <2>1, <2>2, WorldIs, TypesHere
<1>9. IsFiniteSet(calls \ ended)
  BY TypesHere, FS_Subset
<1> HIDE DEF v, k, d, lines, ended
<1>10. Typed(v)
  <2> HIDE DEF PhoneType, CleanType, LineType
  <2>1. v.phone \in [Phones -> PhoneType] /\ v.clean \in [Threads -> CleanType]
    BY <1>4, <1>5, <1>8, TypesHere
  <2> QED
    BY <1>6, <1>8, <1>9, <2>1, WorldIs, TypesHere DEF Typed
<1>11. /\ v.phone[p] = d /\ v.clean[t] = k
       /\ \A q \in Phones \ {p} : v.phone[q] = phone[q]
       /\ \A o \in Threads \ {t} : v.clean[o] = clean[o]
  <2> HIDE DEF PhoneType, CleanType
  <2> QED
    BY <1>1, <1>8, TypesHere
<1>12. /\ Facts(World) /\ Manager \in Threads
       /\ v.line = lines /\ v.calls \subseteq World.calls /\ v.mgr = World.mgr
       /\ v.conn = World.conn /\ World.line = line
       /\ World.clean = clean /\ World.phone = phone /\ World.conn = conn
  BY <1>8, WorldIs DEF IInv, Good, Threads
<1>13. KnownAttached(v, p) = {}
  <2>1. \A x \in Lines : line[x].known /\ p \in line[x].devices => x \in found
    BY <1>1, <1>12 DEF Facts, ButtonFact, KnownAttached
  <2> HIDE DEF found
  <2> QED
    BY <1>7, <1>12, <2>1 DEF KnownAttached
<1> HIDE DEF found
<1>14. /\ \A q \in Phones \ {p} : LinesTakenDown(v, q) = LinesTakenDown(World, q)
       /\ \A q \in Phones \ {p} : KnownAttached(v, q) = KnownAttached(World, q)
       /\ \A q \in Phones : Busy(v, q) = Busy(World, q)
       /\ \A q \in Phones : v.phone[q].crossed = phone[q].crossed
       /\ \A q \in Phones : v.phone[q].session = phone[q].session
       /\ \A o \in Threads : \A q : Taken(v, o, q) = Taken(World, o, q)
       /\ \A o \in Threads : v.clean[o].at # "no" => clean[o].at # "no"
  <2>1. \A q \in Phones \ {p} : LinesTakenDown(v, q) = LinesTakenDown(World, q)
    BY <1>11, WorldIs DEF LinesTakenDown
  <2>2. \A q \in Phones \ {p} : KnownAttached(v, q) = KnownAttached(World, q)
    BY <1>7, <1>12 DEF KnownAttached
  <2>3. \A q \in Phones : Busy(v, q) = Busy(World, q)
    BY <1>4, <1>11, <1>12 DEF Busy, Building
  <2>4. \A o \in Threads : v.clean[o].phone = clean[o].phone
    BY <1>5, <1>11 DEF p
  <2>5. \A o \in Threads : \A q : Taken(v, o, q) = Taken(World, o, q)
    BY <1>1, <1>5, <1>11, <2>4, WorldIs DEF Taken
  <2> QED
    BY <1>1, <1>4, <1>5, <1>11, <2>1, <2>2, <2>3, <2>5
<1>15. \A o \in Threads \ {t} : Taken(World, o, p) => phone[p].crossed
  BY <1>1, <1>12 DEF Facts, CrossFact, Taken, p
<1>16. CrossFact(v)
  BY ONLY <1>12, <1>14 DEF Facts, CrossFact
<1>17. CallsFact(v)
  <2>1. \A q \in Phones : v.clean[Manager].at = "lines" /\ v.clean[Manager].phone = q
                          /\ ~v.phone[q].crossed
                          => q # p /\ v.clean[Manager] = clean[Manager]
    BY <1>5, <1>11, <1>12, <1>14, <1>15 DEF Taken
  <2>2. \A x \in Lines : v.line[x].known <=> line[x].known
    BY <1>7, <1>12
  <2> QED
    BY ONLY <1>12, <1>14, <2>1, <2>2 DEF Facts, CallsFact
<1>18. ManagerFact(v)
  BY ONLY <1>12, <1>14 DEF Facts, ManagerFact
<1>19. LineFact(v)
  <2>1. \A x \in Lines : /\ v.line[x].known <=> line[x].known
                         /\ v.line[x].delete <=> line[x].delete
    BY <1>7, <1>12
  <2> QED
    BY ONLY <1>12, <2>1 DEF Facts, LineFact
<1>20. ButtonFact(v)
  BY ONLY <1>12, <1>13, <1>14 DEF Facts, ButtonFact
<1>21. AttachFact(v)
  <2>1. \A q \in Phones \ {p} : v.phone[q].buttons = phone[q].buttons
    BY <1>11
  <2>2. conn[p].at # "attach"
    BY <1>1, <1>12 DEF Building
  <2> QED
    BY ONLY <1>12, <2>1, <2>2 DEF Facts, AttachFact
<1>22. GoneFact(v)
  <2>1. \A o \in Threads : \A q \in Phones \ {p} :
            v.clean[o].phone = q => clean[o] = v.clean[o]
    BY <1>5, <1>11
  <2> QED
    BY ONLY <1>12, <1>13, <1>14, <2>1 DEF Facts, GoneFact
<1>23. SessionFact(v)
  BY ONLY <1>12, <1>14 DEF Facts, SessionFact
<1>24. AttachedFact(v)
  <2>1. \A o \in Threads : \A q \in Phones \ {p} :
            clean[o].phone = q => clean[o] = v.clean[o]
    BY <1>1, <1>11 DEF p
  <2> QED
    BY ONLY <1>12, <1>13, <1>14, <2>1 DEF Facts, AttachedFact
<1> QED
  BY <1>2, <1>10, <1>16, <1>17, <1>18, <1>19, <1>20, <1>21, <1>22, <1>23, <1>24, Lands
     DEF Good, Facts

----------------------------------------------------------------------------
(* The manager *)

\* Only the manager's record is new; a command may have been counted.
ManagerMoves(w, v, m) ==
    /\ DOMAIN v = DOMAIN w /\ v.phone = w.phone /\ v.conn = w.conn /\ v.line = w.line
    /\ v.calls = w.calls /\ v.clean = w.clean /\ v.mgr = m /\ m \in ManagerType

LEMMA ManagerKeeps ==
    ASSUME NEW w, NEW v, NEW m, Good(w), ManagerMoves(w, v, m), ManagerFact(v), LineFact(v)
    PROVE  Good(v)
<1>1. Typed(v)
  BY DEF ManagerMoves, Good, Typed
<1>2. /\ \A q : LinesTakenDown(v, q) = LinesTakenDown(w, q)
      /\ \A q : Busy(v, q) = Busy(w, q)
  BY DEF ManagerMoves, LinesTakenDown, Busy, Building
<1>3. Frame(w, v)
  BY <1>2 DEF ManagerMoves, Frame
<1>4. AttachFact(v)
  BY DEF ManagerMoves, Good, Facts, AttachFact
<1> QED
  BY <1>1, <1>3, <1>4, FrameKeeps

LEMMA ReadKeeps ==
    ASSUME IInv, Read
    PROVE  IInv'
<1> DEFINE m == [mgr EXCEPT !.op = "lines", !.todo = {x \in Lines : line[x].known}]
           v == [World EXCEPT !.mgr = [@ EXCEPT !.op = "lines",
                                                !.todo = {x \in Lines : line[x].known}]]
<1>1. mgr \in ManagerType /\ mgr.op = "read" /\ mgr.todo = {} /\ Facts(World) /\ Become(v)
  BY TypesHere DEF Read, IInv, Good
<1>2. /\ m \in ManagerType /\ m.op = "lines" /\ m.todo = {x \in Lines : line[x].known}
      /\ m.file = mgr.file
  BY <1>1 DEF ManagerType
<1>3. ManagerMoves(World, v, m)
  <2>1. DOMAIN v = DOMAIN World /\ v.mgr = m
    BY WorldIs
  <2> HIDE DEF m
  <2> QED
    BY <1>2, <2>1, WorldIs DEF ManagerMoves
<1> HIDE DEF v, m
<1>4. v.line = line /\ v.mgr = m /\ v.clean = clean
  BY <1>3, WorldIs DEF ManagerMoves
<1>5. ManagerFact(v)
  BY <1>1, <1>4, WorldIs DEF Facts, ManagerFact
<1>6. LineFact(v)
  <2>1. LineFact(World)
    BY <1>1 DEF Facts
  <2> QED
    BY <1>1, <1>2, <1>4, <2>1, WorldIs DEF LineFact
<1> QED
  BY <1>1, <1>3, <1>5, <1>6, ManagerKeeps, Lands DEF IInv

LEMMA LinesDoneKeeps ==
    ASSUME IInv, LinesDone
    PROVE  IInv'
<1> DEFINE m == [mgr EXCEPT !.op = "devices", !.todo = {p \in Phones : phone[p].known}]
           v == [World EXCEPT !.mgr = [@ EXCEPT !.op = "devices",
                                                !.todo = {p \in Phones : phone[p].known}]]
<1>1. mgr \in ManagerType /\ mgr.op = "lines" /\ Facts(World) /\ Become(v)
  BY TypesHere DEF LinesDone, IInv, Good
<1>2. m \in ManagerType /\ m.op = "devices" /\ m.file = mgr.file
  BY <1>1 DEF ManagerType
<1>3. ManagerMoves(World, v, m)
  <2>1. DOMAIN v = DOMAIN World /\ v.mgr = m
    BY WorldIs
  <2> HIDE DEF m
  <2> QED
    BY <1>2, <2>1, WorldIs DEF ManagerMoves
<1> HIDE DEF v, m
<1>4. v.line = line /\ v.mgr = m /\ v.clean = clean
  BY <1>3, WorldIs DEF ManagerMoves
<1>5. ManagerFact(v)
  BY <1>2, <1>4 DEF ManagerFact
<1>6. LineFact(v)
  <2>1. LineFact(World)
    BY <1>1 DEF Facts
  <2> QED
    BY <1>1, <1>2, <1>4, <2>1, WorldIs DEF LineFact
<1> QED
  BY <1>1, <1>3, <1>5, <1>6, ManagerKeeps, Lands DEF IInv

LEMMA ReloadEndKeeps ==
    ASSUME IInv, ReloadEnd
    PROVE  IInv'
<1> DEFINE m == [mgr EXCEPT !.op = "idle"]
           v == [World EXCEPT !.mgr.op = "idle"]
<1>1. /\ mgr \in ManagerType /\ mgr.op \in {"devices", "reload device"} /\ Facts(World)
      /\ Become(v)
  BY TypesHere DEF ReloadEnd, IInv, Good
<1>2. m \in ManagerType /\ m.op = "idle" /\ m.file = mgr.file
  BY <1>1 DEF ManagerType
<1>3. ManagerMoves(World, v, m)
  <2>1. DOMAIN v = DOMAIN World /\ v.mgr = m
    BY WorldIs
  <2> HIDE DEF m
  <2> QED
    BY <1>2, <2>1, WorldIs DEF ManagerMoves
<1> HIDE DEF v, m
<1>4. v.line = line /\ v.mgr = m /\ v.clean = clean
  BY <1>3, WorldIs DEF ManagerMoves
<1>5. ManagerFact(v)
  BY <1>2, <1>4 DEF ManagerFact
<1>6. LineFact(v)
  <2>1. LineFact(World)
    BY <1>1 DEF Facts
  <2> QED
    BY <1>1, <1>2, <1>4, <2>1, WorldIs DEF LineFact
<1> QED
  BY <1>1, <1>3, <1>5, <1>6, ManagerKeeps, Lands DEF IInv

LEMMA DevicePostReloadKeeps ==
    ASSUME IInv, NEW p \in Phones, DevicePostReload(p)
    PROVE  IInv'
<1> DEFINE m == [mgr EXCEPT !.todo = @ \ {p}]
           v == [World EXCEPT !.mgr.todo = @ \ {p}]
<1>1. /\ mgr \in ManagerType /\ mgr.op = "devices" /\ Facts(World) /\ clean[Manager].at = "no"
      /\ Become(v) \/ Become(CheckUpdate(v, Manager, p))
  BY TypesHere DEF DevicePostReload, IInv, Good
<1>2. m \in ManagerType /\ m.op = "devices" /\ m.file = mgr.file
  BY <1>1 DEF ManagerType
<1>3. ManagerMoves(World, v, m)
  <2>1. DOMAIN v = DOMAIN World /\ v.mgr = m
    BY WorldIs
  <2> HIDE DEF m
  <2> QED
    BY <1>2, <2>1, WorldIs DEF ManagerMoves
<1> HIDE DEF v, m
<1>4. v.line = line /\ v.mgr = m /\ v.clean = clean
  BY <1>3, WorldIs DEF ManagerMoves
<1>5. ManagerFact(v)
  BY <1>2, <1>4 DEF ManagerFact
<1>6. LineFact(v)
  <2>1. LineFact(World)
    BY <1>1 DEF Facts
  <2> QED
    BY <1>1, <1>2, <1>4, <2>1, WorldIs DEF LineFact
<1>7. Good(v)
  BY <1>3, <1>5, <1>6, ManagerKeeps DEF IInv
<1>8. Good(CheckUpdate(v, Manager, p))
  <2>1. Manager \in Threads /\ v.clean[Manager].at = "no" /\ v.mgr.op = "devices"
    BY <1>1, <1>2, <1>4 DEF Threads
  <2> QED
    BY <1>7, <2>1, CheckUpdateKeeps
<1> QED
  BY <1>1, <1>7, <1>8, Lands

LEMMA ReadLineKeeps ==
    ASSUME IInv, NEW x \in Lines, ReadLine(x)
    PROVE  IInv'
<1> DEFINE version == mgr.file.lines[x]
           l == IF version = 0 THEN line[x]
                ELSE [line[x] EXCEPT !.known = TRUE, !.delete = FALSE,
                                     !.update = line[x].version # version, !.version = version]
           m == [mgr EXCEPT !.todo = @ \ {x}]
           v == [World EXCEPT !.mgr.todo = @ \ {x},
                   !.line[x] = IF version = 0 THEN @
                               ELSE [@ EXCEPT !.known = TRUE, !.delete = FALSE,
                                              !.update = line[x].version # version,
                                              !.version = version]]
<1>1. mgr \in ManagerType /\ mgr.op = "read" /\ Facts(World) /\ Become(v) /\ line[x] \in LineType
  BY TypesHere DEF ReadLine, IInv, Good
<1>2. version \in Nat
  BY <1>1, DevicesAssumption DEF ManagerType, DevicesAssumption, FileType
<1> HIDE DEF version
<1>3. /\ m \in ManagerType /\ m.op = "read" /\ m.file = mgr.file /\ m.todo = mgr.todo \ {x}
  BY <1>1 DEF ManagerType
<1>4. line[x].known \/ version = 0
  BY <1>1, WorldIs DEF Facts, LineFact, version
<1>5. /\ l \in LineType /\ l.devices = line[x].devices
      /\ l.known <=> line[x].known
      /\ l.delete => version = 0
  <2>1. CASE version = 0
    BY <1>1, <2>1
  <2>2. CASE version # 0
    <3>1. line[x].known /\ (line[x].version # version) \in BOOLEAN
      BY <1>4, <2>2
    <3>2. l = [line[x] EXCEPT !.known = TRUE, !.delete = FALSE,
                              !.update = line[x].version # version, !.version = version]
      BY <2>2
    <3> HIDE DEF l
    <3> QED
      BY <1>1, <1>2, <3>1, <3>2 DEF LineType
  <2> QED
    BY <2>1, <2>2
<1>6. /\ DOMAIN v = DOMAIN World /\ v.phone = phone /\ v.conn = conn /\ v.calls = calls
      /\ v.clean = clean /\ v.mgr = m /\ v.line = [line EXCEPT ![x] = l]
  <2> HIDE DEF LineType, ManagerType
  <2> QED
    BY WorldIs, TypesHere
<1> HIDE DEF l, m, v
<1>7. /\ \A y \in Lines : /\ v.line[y].known <=> line[y].known
                          /\ v.line[y].devices = line[y].devices
                          /\ y # x => v.line[y] = line[y]
      /\ v.line[x] = l
  <2> HIDE DEF LineType
  <2> QED
    BY <1>5, <1>6, TypesHere
<1>8. Typed(v)
  <2> HIDE DEF LineType, ManagerType
  <2> QED
    BY <1>3, <1>5, <1>6, WorldIs, TypesHere DEF Typed
<1>9. Frame(World, v)
  <2>1. /\ \A q : LinesTakenDown(v, q) = LinesTakenDown(World, q)
        /\ \A q : Busy(v, q) = Busy(World, q)
    BY <1>6, WorldIs DEF LinesTakenDown, Busy, Building
  <2> QED
    BY <1>6, <1>7, <2>1, WorldIs DEF Frame
<1>10. ManagerFact(v)
  BY <1>1, <1>6, WorldIs DEF Facts, ManagerFact
<1>11. LineFact(v)
  <2>1. LineFact(World) /\ World.line = line /\ World.mgr = mgr
    BY <1>1, WorldIs DEF Facts
  <2> QED
    BY <1>1, <1>3, <1>4, <1>5, <1>6, <1>7, <2>1 DEF LineFact, version
<1>12. AttachFact(v)
  BY <1>1, <1>6, WorldIs DEF Facts, AttachFact
<1> QED
  BY <1>1, <1>8, <1>9, <1>10, <1>11, <1>12, FrameKeeps, Lands DEF IInv

LEMMA LinePostReloadKeeps ==
    ASSUME IInv, NEW x \in Lines, LinePostReload(x)
    PROVE  IInv'
<1> DEFINE done == [World EXCEPT !.mgr.todo = @ \ {x}]
           m == [mgr EXCEPT !.todo = @ \ {x}]
           l == [line[x] EXCEPT !.devices = {}, !.known = ~line[x].delete]
           marked == [p \in Phones |->
                        [phone[p] EXCEPT !.update = @ \/ p \in line[x].devices]]
           left == {c \in calls : c[2] # x}
           v == LineClean(MarkPhones(done, x), x, line[x].delete)
<1>1. /\ mgr \in ManagerType /\ mgr.op = "lines" /\ x \in mgr.todo /\ Facts(World)
      /\ line[x] \in LineType
      /\ Become(done) \/ Become(v)
  BY TypesHere DEF LinePostReload, Turn, IInv, Good
<1>2. m \in ManagerType /\ m.op = "lines" /\ m.file = mgr.file /\ m.todo = mgr.todo \ {x}
  BY <1>1 DEF ManagerType
<1>3. DOMAIN done = DOMAIN World /\ done.mgr = m /\ ManagerMoves(World, done, m)
  <2>1. DOMAIN done = DOMAIN World /\ done.mgr = m
    BY WorldIs
  <2> HIDE DEF m
  <2> QED
    BY <1>2, <2>1, WorldIs DEF ManagerMoves
<1> HIDE DEF m
<1>4. Good(done)
  <2> HIDE DEF done
  <2>1. ManagerFact(done)
    BY <1>1, <1>3, WorldIs DEF Facts, ManagerFact, ManagerMoves
  <2>2. LineFact(done)
    <3>1. LineFact(World)
      BY <1>1 DEF Facts
    <3> QED
      BY <1>1, <1>2, <1>3, <3>1, WorldIs DEF LineFact, ManagerMoves
  <2> QED
    BY <1>3, <2>1, <2>2, ManagerKeeps DEF IInv
<1>5. l \in LineType /\ l.devices = {} /\ l.known = ~line[x].delete /\ l.delete = line[x].delete
  BY <1>1 DEF LineType
<1>6. /\ DOMAIN v = DOMAIN World /\ v.phone = marked /\ v.conn = conn /\ v.calls = left
      /\ v.clean = clean /\ v.mgr = m /\ v.line = [line EXCEPT ![x] = l]
  <2> DEFINE u == MarkPhones(done, x)
  <2>1. /\ done.phone = phone /\ done.conn = conn /\ done.line = line /\ done.calls = calls
        /\ done.clean = clean
    BY <1>3, WorldIs DEF ManagerMoves
  <2>2. /\ DOMAIN u = DOMAIN World /\ u.phone = marked /\ u.conn = conn /\ u.calls = calls
        /\ u.clean = clean /\ u.mgr = m /\ u.line = line
    <3> HIDE DEF done
    <3>1. u = [done EXCEPT !.phone = marked]
      BY <2>1 DEF MarkPhones
    <3> HIDE DEF u, marked
    <3> QED
      BY <1>3, <2>1, <3>1, WorldIs
  <2>3. v = [u EXCEPT !.calls = {c \in u.calls : c[2] # x},
                      !.line[x] = [@ EXCEPT !.devices = {}, !.known = ~line[x].delete]]
    BY DEF LineClean
  <2> HIDE DEF u, v, marked, LineType
  <2> QED
    BY <2>2, <2>3, WorldIs, TypesHere
<1> HIDE DEF v
<1>7. \A p \in Phones : /\ marked[p] \in PhoneType /\ marked[p].buttons = phone[p].buttons
                        /\ marked[p].reg = phone[p].reg
                        /\ marked[p].session <=> phone[p].session
                        /\ marked[p].crossed <=> phone[p].crossed
  <2>1. ASSUME NEW p \in Phones
        PROVE  LET d == [phone[p] EXCEPT !.update = @ \/ p \in line[x].devices]
               IN  /\ d \in PhoneType /\ d.buttons = phone[p].buttons /\ d.reg = phone[p].reg
                   /\ d.session = phone[p].session /\ d.crossed = phone[p].crossed
    <3>1. phone[p] \in PhoneType /\ (phone[p].update \/ p \in line[x].devices) \in BOOLEAN
      BY TypesHere
    <3> QED
      BY <3>1 DEF PhoneType
  <2> QED
    BY <2>1
<1>8. Typed(v)
  <2>1. marked \in [Phones -> PhoneType]
    <3> HIDE DEF PhoneType
    <3> QED
      BY <1>7
  <2>2. left \subseteq Phones \X Lines /\ IsFiniteSet(left)
    BY TypesHere, FS_Subset
  <2> HIDE DEF LineType, ManagerType, PhoneType, marked, left
  <2> QED
    BY <1>2, <1>5, <1>6, <2>1, <2>2, WorldIs, TypesHere DEF Typed
<1> HIDE DEF l, marked
<1>9. /\ \A y \in Lines : /\ v.line[y].known => line[y].known
                          /\ v.line[y].devices \subseteq line[y].devices
                          /\ y # x => v.line[y] = line[y]
      /\ v.line[x] = l
  <2>1. line[x].known
    BY <1>1, WorldIs DEF Facts, LineFact
  <2> HIDE DEF LineType
  <2> QED
    BY <1>5, <1>6, <2>1, TypesHere
<1>10. Frame(World, v)
  <2>1. /\ \A q \in Phones : LinesTakenDown(v, q) = LinesTakenDown(World, q)
        /\ \A q \in Phones : Busy(v, q) <=> Busy(World, q)
    BY <1>6, <1>7, WorldIs DEF LinesTakenDown, Busy, Building
  <2>2. v.calls \subseteq calls
    BY <1>6
  <2> HIDE DEF left
  <2> QED
    BY <1>6, <1>7, <1>9, <2>1, <2>2, WorldIs DEF Frame
<1>11. ManagerFact(v)
  BY <1>1, <1>6, <1>2, WorldIs DEF Facts, ManagerFact
<1>12. LineFact(v)
  <2>1. LineFact(World) /\ World.line = line /\ World.mgr = mgr
    BY <1>1, WorldIs DEF Facts
  <2>2. \A y \in Lines : y # x => v.line[y] = line[y]
    BY ONLY <1>9
  <2>3. v.mgr.op = "lines" /\ v.mgr.file = mgr.file /\ v.mgr.todo = mgr.todo \ {x}
    BY <1>2, <1>6
  <2>4. /\ ~v.line[x].known => line[x].delete
        /\ v.line[x].delete => line[x].delete
    BY <1>5, <1>9
  <2> QED
    BY ONLY <1>1, <2>1, <2>2, <2>3, <2>4 DEF LineFact
<1>13. AttachFact(v)
  <2>1. AttachFact(World) /\ World.conn = conn /\ World.phone = phone
    BY <1>1, WorldIs DEF Facts
  <2> QED
    BY <1>6, <1>7, <2>1 DEF AttachFact
<1>14. Good(v)
  BY <1>8, <1>10, <1>11, <1>12, <1>13, FrameKeeps DEF IInv
<1> QED
  BY <1>1, <1>4, <1>14, Lands

\* The buttons of a phone are marked, read, added to or changed while it attaches no line.
More(w, p, d) ==
    /\ d \in PhoneType /\ w.clean[Manager].at # "lines" /\ ~Building(w, p)
    /\ d.reg = w.phone[p].reg /\ d.session = w.phone[p].session
    /\ d.crossed = w.phone[p].crossed
    /\ {b.line : b \in Range(w.phone[p].buttons)} \subseteq {b.line : b \in Range(d.buttons)}

LEMMA MoreKeeps ==
    ASSUME NEW w, NEW v, NEW p \in Phones, NEW d, Good(w), Changed(w, v, p, d, w.conn[p]),
           More(w, p, d)
    PROVE  Good(v)
<1>1. /\ v.phone[p] = d /\ v.conn = w.conn
      /\ \A q \in Phones \ {p} : v.phone[q] = w.phone[q]
  BY DEF Changed, Good, Typed
<1>2. Typed(v)
  <2> HIDE DEF PhoneType, ThreadType
  <2> QED
    BY DEF Changed, More, Good, Typed
<1>3. /\ \A q \in Phones : LinesTakenDown(w, q) \subseteq LinesTakenDown(v, q)
      /\ \A q \in Phones : Busy(v, q) = Busy(w, q)
  BY <1>1 DEF More, LinesTakenDown, Busy, Building
<1>4. /\ v.line = w.line /\ v.calls = w.calls /\ v.mgr = w.mgr /\ v.clean = w.clean
  BY DEF Changed
<1>5. \A q \in Phones : /\ v.phone[q].crossed = w.phone[q].crossed
                        /\ v.phone[q].session = w.phone[q].session
  BY <1>1 DEF More
<1>6. Frame(w, v)
  BY <1>3, <1>4, <1>5 DEF Frame, More
<1>7. Facts(w)
  BY DEF Good
<1>8. ManagerFact(v)
  BY <1>4, <1>7 DEF Facts, ManagerFact
<1>9. LineFact(v)
  BY <1>4, <1>7 DEF Facts, LineFact
<1>10. AttachFact(v)
  BY <1>1, <1>7 DEF Facts, AttachFact, More, Building
<1> QED
  BY <1>2, <1>6, <1>8, <1>9, <1>10, FrameKeeps

LEMMA ButtonsAre ==
    ASSUME NEW s \in Seq(ButtonType)
    PROVE  /\ DOMAIN s = 1..Len(s) /\ Len(s) \in Nat
           /\ \A j \in DOMAIN s : s[j] \in ButtonType
<1> HIDE DEF ButtonType
<1> QED
  OBVIOUS

LEMMA GoneIsButtons ==
    ASSUME NEW s \in Seq(ButtonType), NEW z, NEW g, \A j \in DOMAIN s : g[j] \in BOOLEAN,
           z = [j \in DOMAIN s |-> [s[j] EXCEPT !.gone = g[j]]]
    PROVE  /\ z \in Seq(ButtonType)
           /\ {b.line : b \in Range(z)} = {b.line : b \in Range(s)}
<1>1. DOMAIN z = DOMAIN s /\ DOMAIN s = 1..Len(s) /\ Len(s) \in Nat
  BY ButtonsAre
<1>2. ASSUME NEW j \in DOMAIN s
      PROVE  z[j] \in ButtonType /\ z[j].line = s[j].line
  <2>1. s[j] \in ButtonType /\ g[j] \in BOOLEAN /\ z[j] = [s[j] EXCEPT !.gone = g[j]]
    <3> HIDE DEF ButtonType
    <3> QED
      BY ButtonsAre
  <2> QED
    BY ONLY <2>1 DEF ButtonType
<1>3. z \in Seq(ButtonType)
  <2>1. z = [j \in 1..Len(s) |-> z[j]]
    BY <1>1
  <2> HIDE DEF ButtonType
  <2> QED
    BY ONLY <1>1, <1>2, <2>1
<1>4. {b.line : b \in Range(z)} = {b.line : b \in Range(s)}
  BY ONLY <1>1, <1>2, SameLines
<1> QED
  BY <1>3, <1>4

LEMMA MarkedIsButtons ==
    ASSUME NEW s \in Seq(ButtonType)
    PROVE  /\ Marked(s) \in Seq(ButtonType)
           /\ {b.line : b \in Range(Marked(s))} = {b.line : b \in Range(s)}
<1> DEFINE g == [j \in DOMAIN s |-> TRUE]
<1>1. Marked(s) = [j \in DOMAIN s |-> [s[j] EXCEPT !.gone = g[j]]]
  BY DEF Marked
<1>2. \A j \in DOMAIN s : g[j] \in BOOLEAN
  OBVIOUS
<1> HIDE DEF g, ButtonType
<1> QED
  BY <1>1, <1>2, GoneIsButtons

LEMMA NewIsButtons ==
    ASSUME NEW s \in Seq(Lines \cup {NoLine})
    PROVE  Buttons(s) \in Seq(ButtonType)
<1>1. DOMAIN s = 1..Len(s) /\ Len(s) \in Nat /\ \A j \in DOMAIN s : s[j] \in Lines \cup {NoLine}
  OBVIOUS
<1>2. \A j \in DOMAIN s : Button(s[j], j) \in ButtonType
  BY <1>1 DEF Button, ButtonType
<1>3. [j \in 1..Len(s) |-> Button(s[j], j)] \in Seq(ButtonType)
  <2> HIDE DEF ButtonType
  <2> QED
    BY <1>1, <1>2
<1> QED
  BY <1>1, <1>3 DEF Buttons

\* Reading the buttons again forgets none.
LEMMA ParseIsButtons ==
    ASSUME NEW s \in Seq(ButtonType), NEW new \in Seq(Lines \cup {NoLine})
    PROVE  /\ ParseButtons(s, new) \in Seq(ButtonType)
           /\ {b.line : b \in Range(s)} \subseteq {b.line : b \in Range(ParseButtons(s, new))}
<1>1. CASE SameButtons(s, new)
  <2> DEFINE g == [j \in DOMAIN s |-> FALSE]
  <2>1. ParseButtons(s, new) = [j \in DOMAIN s |-> [s[j] EXCEPT !.gone = g[j]]]
    BY <1>1 DEF ParseButtons
  <2>2. \A j \in DOMAIN s : g[j] \in BOOLEAN
    OBVIOUS
  <2>3. ParseButtons(s, new) \in Seq(ButtonType)
        /\ {b.line : b \in Range(ParseButtons(s, new))} = {b.line : b \in Range(s)}
    <3> HIDE DEF g, ButtonType
    <3> QED
      BY <2>1, <2>2, GoneIsButtons
  <2> QED
    BY <2>3
<1>2. CASE ~SameButtons(s, new)
  <2>1. ParseButtons(s, new) = s \o Buttons(new) /\ Buttons(new) \in Seq(ButtonType)
    BY <1>2, NewIsButtons DEF ParseButtons
  <2> DEFINE z == s \o Buttons(new)
  <2>2. z \in Seq(ButtonType) /\ \A j \in DOMAIN s : j \in DOMAIN z /\ z[j] = s[j]
    <3> HIDE DEF ButtonType
    <3> QED
      BY <2>1
  <2>3. Range(s) \subseteq Range(z)
    <3> HIDE DEF z
    <3> QED
      BY <2>2 DEF Range
  <2> HIDE DEF z
  <2>4. {b.line : b \in Range(s)} \subseteq {b.line : b \in Range(z)}
    BY <2>3
  <2> QED
    BY <2>1, <2>2, <2>4 DEF z
<1> QED
  BY <1>1, <1>2

LEMMA BuildDeviceKeeps ==
    ASSUME NEW w, NEW p \in Phones, NEW f \in Files, Good(w), w.clean[Manager].at # "lines",
           ~Building(w, p)
    PROVE  Good(BuildDevice(w, p, f))
<1> DEFINE old == w.phone[p].buttons
           heard == f.buttons[p] # <<>> /\ ~SameButtons(old, f.buttons[p])
           update == heard \/ w.phone[p].version # f.settings[p]
           d == [w.phone[p] EXCEPT !.known = TRUE, !.delete = FALSE, !.update = update,
                   !.version = f.settings[p], !.buttons = ParseButtons(old, f.buttons[p])]
           v == BuildDevice(w, p, f)
<1>1. w.phone[p] \in PhoneType /\ w.conn[p] \in ThreadType
  BY DEF Good, Typed
<1>2. f.settings[p] \in Nat /\ f.buttons[p] \in Seq(Lines \cup {NoLine})
  BY DevicesAssumption DEF DevicesAssumption, FileType
<1>3. old \in Seq(ButtonType)
  BY <1>1 DEF PhoneType
<1>4. update \in BOOLEAN
  OBVIOUS
<1>5. Changed(w, v, p, d, w.conn[p])
  <2>1. v = [w EXCEPT !.phone[p] = [@ EXCEPT !.known = TRUE, !.delete = FALSE,
                !.update = update, !.version = f.settings[p],
                !.buttons = ParseButtons(old, f.buttons[p])]]
    BY DEF BuildDevice
  <2> HIDE DEF update, old, v, PhoneType, ThreadType
  <2> QED
    BY <2>1 DEF Changed, Good, Typed
<1>6. /\ d \in PhoneType /\ d.reg = w.phone[p].reg /\ d.session = w.phone[p].session
      /\ d.crossed = w.phone[p].crossed /\ d.buttons = ParseButtons(old, f.buttons[p])
  <2>1. ParseButtons(old, f.buttons[p]) \in Seq(ButtonType)
    BY <1>2, <1>3, ParseIsButtons
  <2> HIDE DEF update, old, ButtonType
  <2> QED
    BY <1>1, <1>2, <1>4, <2>1 DEF PhoneType
<1>7. More(w, p, d)
  <2> HIDE DEF d, update, ButtonType, PhoneType
  <2> QED
    BY <1>2, <1>3, <1>6, ParseIsButtons DEF More
<1> HIDE DEF v, d
<1> QED
  BY <1>5, <1>7, MoreKeeps DEF v

LEMMA FileIs ==
    ASSUME IInv
    PROVE  mgr.file \in Files /\ mgr \in ManagerType
BY TypesHere DEF ManagerType

LEMMA ReadDeviceKeeps ==
    ASSUME IInv, NEW p \in Phones, ReadDevice(p)
    PROVE  IInv'
<1> DEFINE read == [World EXCEPT !.mgr.todo = @ \ {p}]
           m == [mgr EXCEPT !.todo = @ \ {p}]
           u == [read EXCEPT !.phone[p].delete = phone[p].known]
           d == [phone[p] EXCEPT !.delete = phone[p].known]
<1>1. /\ mgr \in ManagerType /\ mgr.op = "read" /\ ~Building(World, p) /\ Facts(World)
      /\ Become(u) \/ Become(BuildDevice(read, p, mgr.file))
      /\ clean[Manager].at = "no"
  <2>1. mgr \in ManagerType /\ mgr.op = "read" /\ ~Building(World, p) /\ Facts(World)
    BY TypesHere DEF ReadDevice, IInv, Good
  <2>2. Become(u) \/ Become(BuildDevice(read, p, mgr.file))
    BY DEF ReadDevice
  <2>3. clean[Manager].at = "no"
    BY <2>1, WorldIs DEF Facts, ManagerFact
  <2> QED
    BY <2>1, <2>2, <2>3
<1>2. m \in ManagerType /\ m.op = "read" /\ m.file = mgr.file /\ m.todo = mgr.todo \ {p}
  BY <1>1 DEF ManagerType
<1>3. ManagerMoves(World, read, m)
  <2>1. DOMAIN read = DOMAIN World /\ read.mgr = m
    BY WorldIs
  <2> HIDE DEF m
  <2> QED
    BY <1>2, <2>1, WorldIs DEF ManagerMoves
<1> HIDE DEF m, read
<1>4. Good(read)
  <2>1. ManagerFact(read)
    BY <1>1, <1>3, WorldIs DEF ManagerFact, ManagerMoves
  <2>2. LineFact(read)
    <3>1. LineFact(World) /\ p \notin Lines
      BY <1>1, DevicesAssumption DEF Facts, DevicesAssumption
    <3> QED
      BY <1>1, <1>2, <1>3, <3>1, WorldIs DEF LineFact, ManagerMoves
  <2> QED
    BY <1>3, <2>1, <2>2, ManagerKeeps DEF IInv
<1>5. /\ read.phone = phone /\ read.conn = conn /\ read.clean = clean
      /\ ~Building(read, p)
  BY <1>1, <1>3, WorldIs DEF ManagerMoves, Building
<1>6. Good(u)
  <2>1. phone[p] \in PhoneType
    BY TypesHere
  <2>2. Changed(read, u, p, d, read.conn[p])
    <3> HIDE DEF PhoneType, ThreadType
    <3> QED
      BY <1>4, <1>5 DEF Changed, Good, Typed
  <2>3. /\ d \in PhoneType /\ d.reg = phone[p].reg /\ d.session = phone[p].session
        /\ d.crossed = phone[p].crossed /\ d.buttons = phone[p].buttons
    BY <2>1 DEF PhoneType
  <2>4. More(read, p, d)
    <3> HIDE DEF d, PhoneType
    <3> QED
      BY <1>1, <1>5, <2>3 DEF More
  <2> HIDE DEF u, d
  <2> QED
    BY <1>4, <2>2, <2>4, MoreKeeps
<1>7. Good(BuildDevice(read, p, mgr.file))
  <2>1. read.clean[Manager].at # "lines"
    BY <1>1, <1>5
  <2> QED
    BY <1>4, <1>5, <2>1, FileIs, BuildDeviceKeeps
<1> QED
  BY <1>1, <1>6, <1>7, Lands

----------------------------------------------------------------------------
(* Commands of the console, and the reload's beginning *)

LEMMA NextIndexType ==
    ASSUME NEW s \in Seq(ButtonType)
    PROVE  NextIndex(s) \in Nat
<1> DEFINE f == [j \in 1..Len(s) |-> s[j].idx]
           T == {b.idx : b \in Range(s)}
<1>1. \A j \in 1..Len(s) : s[j].idx \in Nat /\ s[j] \in Range(s)
  BY ButtonsAre DEF ButtonType, Range
<1>2. \A b \in Range(s) : \E j \in 1..Len(s) : b = s[j]
  BY ButtonsAre DEF Range
<1>3. T \subseteq Nat
  BY <1>1, <1>2
<1>4. f \in Surjection(1..Len(s), T)
  <2>1. f \in [1..Len(s) -> T]
    BY <1>1
  <2>2. \A n \in T : \E j \in 1..Len(s) : f[j] = n
    BY <1>2
  <2> HIDE DEF f, T
  <2> QED
    BY <2>1, <2>2 DEF Surjection
<1>5. IsFiniteSet(1..Len(s))
  BY ButtonsAre, FS_Interval
<1> HIDE DEF f, T
<1>6. IsFiniteSet(T)
  BY ONLY <1>4, <1>5, FS_Surjection
<1>7. IsFiniteSet({0} \cup T)
  <2>1. IsFiniteSet(T \cup {0})
    BY ONLY <1>6, FS_AddElement
  <2>2. T \cup {0} = {0} \cup T
    OBVIOUS
  <2> QED
    BY <2>1, <2>2
<1>8. Max({0} \cup T) \in Nat
  <2>1. {0} \cup T \subseteq Nat /\ {0} \cup T # {}
    BY <1>3
  <2> QED
    BY <1>7, <2>1, GreatestExists
<1> QED
  BY <1>8 DEF NextIndex, T

LEMMA ChangeButtonsKeeps ==
    ASSUME IInv, NEW p \in Phones, NEW buttons \in Seq(ButtonType), MayCommand,
           ~Building(World, p),
           {b.line : b \in Range(phone[p].buttons)} \subseteq {b.line : b \in Range(buttons)},
           ChangeButtons(p, buttons)
    PROVE  IInv'
<1> DEFINE u == [World EXCEPT !.phone[p] = [@ EXCEPT !.buttons = buttons, !.update = TRUE]]
           d == [phone[p] EXCEPT !.buttons = buttons, !.update = TRUE]
<1>1. phone[p] \in PhoneType /\ clean[Manager].at = "no" /\ mgr.op = "idle"
  BY TypesHere DEF MayCommand, MgrIdle
<1>2. Changed(World, u, p, d, conn[p])
  <2> HIDE DEF PhoneType, ThreadType, ButtonType
  <2> QED
    BY WorldIs, TypesHere DEF Changed
<1>3. /\ d \in PhoneType /\ d.reg = phone[p].reg /\ d.session = phone[p].session
      /\ d.crossed = phone[p].crossed /\ d.buttons = buttons
  <2> HIDE DEF ButtonType
  <2> QED
    BY <1>1 DEF PhoneType
<1>4. More(World, p, d)
  <2> HIDE DEF d, PhoneType
  <2> QED
    BY <1>1, <1>3, WorldIs DEF More
<1>5. Become(CheckUpdate(Command(u), Manager, p))
  BY DEF ChangeButtons
<1> HIDE DEF u, d
<1>6. Good(u)
  BY <1>2, <1>4, WorldIs, MoreKeeps DEF IInv
<1>7. Good(Command(u)) /\ Command(u).clean[Manager].at = "no" /\ Command(u).mgr.op = "idle"
  <2>1. u.clean = clean /\ u.mgr = mgr
    BY <1>2, WorldIs DEF Changed
  <2>2. Command(u).clean = u.clean /\ Command(u).mgr = u.mgr
    BY <1>6 DEF Command, Good, Typed
  <2> QED
    BY <1>1, <1>6, <2>1, <2>2, CommandKeeps
<1>8. Good(CheckUpdate(Command(u), Manager, p))
  BY <1>7, CheckUpdateKeeps DEF Threads
<1> QED
  BY <1>5, <1>8, Lands

LEMMA AddLineKeeps ==
    ASSUME IInv, NEW p \in Phones, NEW x \in Lines, AddLine(p, x)
    PROVE  IInv'
<1> DEFINE s == phone[p].buttons
           e == Button(x, NextIndex(s))
           z == Append(s, e)
<1>1. s \in Seq(ButtonType)
  BY TypesHere DEF PhoneType
<1>2. e \in ButtonType
  BY <1>1, NextIndexType DEF Button, ButtonType
<1>3. MayCommand /\ ~Building(World, p) /\ ChangeButtons(p, z)
  BY DEF AddLine
<1> HIDE DEF s, e
<1>4. z \in Seq(ButtonType) /\ \A j \in DOMAIN s : j \in DOMAIN z /\ z[j] = s[j]
  <2> HIDE DEF ButtonType
  <2> QED
    BY <1>1, <1>2
<1> HIDE DEF z
<1>5. {b.line : b \in Range(s)} \subseteq {b.line : b \in Range(z)}
  <2>1. Range(s) \subseteq Range(z)
    BY <1>4 DEF Range
  <2> QED
    BY <2>1
<1> QED
  BY <1>3, <1>4, <1>5, ChangeButtonsKeeps DEF s

LEMMA RemoveLineKeeps ==
    ASSUME IInv, NEW p \in Phones, NEW x \in Lines, RemoveLine(p, x)
    PROVE  IInv'
<1> DEFINE s == phone[p].buttons
           g == [j \in DOMAIN s |-> s[j].gone \/ s[j].line = x]
           z == [j \in DOMAIN s |-> [s[j] EXCEPT !.gone = @ \/ s[j].line = x]]
<1>1. s \in Seq(ButtonType)
  BY TypesHere DEF PhoneType
<1>2. MayCommand /\ ~Building(World, p) /\ ChangeButtons(p, z)
  BY DEF RemoveLine
<1> HIDE DEF s
<1>3. z = [j \in DOMAIN s |-> [s[j] EXCEPT !.gone = g[j]]]
  OBVIOUS
<1>4. \A j \in DOMAIN s : g[j] \in BOOLEAN
  OBVIOUS
<1> HIDE DEF g, z
<1>5. z \in Seq(ButtonType) /\ {b.line : b \in Range(z)} = {b.line : b \in Range(s)}
  <2> HIDE DEF ButtonType
  <2> QED
    BY ONLY <1>1, <1>3, <1>4, GoneIsButtons
<1> QED
  BY <1>2, <1>5, ChangeButtonsKeeps DEF s

LEMMA ReloadDeviceKeeps ==
    ASSUME IInv, NEW p \in Phones, ReloadDevice(p)
    PROVE  IInv'
<1> DEFINE m == [mgr EXCEPT !.op = "reload device", !.todo = {}]
           moved == [World EXCEPT !.mgr = [@ EXCEPT !.op = "reload device", !.todo = {}]]
           begun == Command(moved)
           marked == [begun EXCEPT !.phone[p].buttons = Marked(@)]
           built == BuildDevice(marked, p, mgr.file)
           last == [built EXCEPT !.phone[p].update = phone[p].update]
<1>1. /\ mgr \in ManagerType /\ phone[p] \in PhoneType /\ Facts(World)
      /\ clean[Manager].at = "no" /\ mgr.op = "idle" /\ ~Building(World, p)
  BY TypesHere DEF ReloadDevice, MayCommand, MgrIdle, IInv, Good
<1>2. Become(CheckUpdate(built, Manager, p)) \/ Become(last)
  BY DEF ReloadDevice
<1>3. m \in ManagerType /\ m.op = "reload device" /\ m.file = mgr.file
  BY <1>1 DEF ManagerType
<1>4. ManagerMoves(World, moved, m)
  <2>1. DOMAIN moved = DOMAIN World /\ moved.mgr = m
    BY WorldIs
  <2> HIDE DEF m
  <2> QED
    BY <1>3, <2>1, WorldIs DEF ManagerMoves
<1> HIDE DEF m, moved
<1>5. Good(moved)
  <2>1. ManagerFact(moved)
    BY <1>1, <1>4, WorldIs DEF ManagerFact, ManagerMoves
  <2>2. LineFact(moved)
    <3>1. LineFact(World)
      BY <1>1 DEF Facts
    <3> QED
      BY <1>1, <1>3, <1>4, <3>1, WorldIs DEF LineFact, ManagerMoves
  <2> QED
    BY <1>4, <2>1, <2>2, ManagerKeeps DEF IInv
<1>6. /\ Good(begun) /\ begun.phone = phone /\ begun.conn = conn /\ begun.clean = clean
      /\ begun.mgr = m
  <2>1. /\ begun.phone = moved.phone /\ begun.conn = moved.conn /\ begun.clean = moved.clean
        /\ begun.mgr = moved.mgr
    BY <1>5 DEF Command, Good, Typed
  <2> QED
    BY <1>4, <1>5, <2>1, CommandKeeps, WorldIs DEF ManagerMoves
<1> HIDE DEF begun
<1>7. /\ Good(marked) /\ marked.conn = conn /\ marked.clean = clean /\ marked.mgr = m
  <2> DEFINE d == [phone[p] EXCEPT !.buttons = Marked(@)]
  <2>1. phone[p].buttons \in Seq(ButtonType)
    BY <1>1 DEF PhoneType
  <2>2. /\ Marked(phone[p].buttons) \in Seq(ButtonType)
        /\ {b.line : b \in Range(Marked(phone[p].buttons))}
            = {b.line : b \in Range(phone[p].buttons)}
    BY <2>1, MarkedIsButtons
  <2>3. Changed(begun, marked, p, d, begun.conn[p])
    <3> HIDE DEF PhoneType, ThreadType, ButtonType
    <3> QED
      BY <1>6 DEF Changed, Good, Typed
  <2>4. /\ d \in PhoneType /\ d.reg = phone[p].reg /\ d.session = phone[p].session
        /\ d.crossed = phone[p].crossed /\ d.buttons = Marked(phone[p].buttons)
    <3> HIDE DEF ButtonType
    <3> QED
      BY <1>1, <2>2 DEF PhoneType
  <2>5. More(begun, p, d)
    <3>1. ~Building(begun, p)
      BY <1>1, <1>6, WorldIs DEF Building
    <3> HIDE DEF d, PhoneType
    <3> QED
      BY <1>1, <1>6, <2>2, <2>4, <3>1 DEF More
  <2>6. /\ marked.conn = [begun.conn EXCEPT ![p] = begun.conn[p]]
        /\ marked.clean = begun.clean /\ marked.mgr = begun.mgr
    BY <2>3 DEF Changed
  <2> HIDE DEF marked, d
  <2>7. Good(marked)
    BY <1>6, <2>3, <2>5, MoreKeeps
  <2>8. marked.conn = conn
    <3> HIDE DEF ThreadType
    <3> QED
      BY <1>6, <2>6, TypesHere
  <2> QED
    BY <1>6, <2>6, <2>7, <2>8
<1> HIDE DEF marked
<1>8. Good(built)
  <2>1. ~Building(marked, p) /\ marked.clean[Manager].at # "lines"
    BY <1>1, <1>7, WorldIs DEF Building
  <2> QED
    BY <1>7, <2>1, FileIs, BuildDeviceKeeps
<1>9. built.clean = clean /\ built.mgr = m
  BY <1>7 DEF BuildDevice, Good, Typed
<1> HIDE DEF built
<1>10. Good(CheckUpdate(built, Manager, p))
  <2>1. built.clean[Manager].at = "no" /\ built.mgr.op = "reload device"
    BY <1>1, <1>3, <1>9
  <2> QED
    BY <1>8, <2>1, CheckUpdateKeeps DEF Threads
<1>11. Good(last)
  <2> DEFINE d == [built.phone[p] EXCEPT !.update = phone[p].update]
  <2>1. built.phone[p] \in PhoneType /\ built.conn[p] \in ThreadType
    BY <1>8 DEF Good, Typed
  <2>2. Changed(built, last, p, d, built.conn[p])
    <3> HIDE DEF PhoneType, ThreadType
    <3> QED
      BY <1>8 DEF Changed, Good, Typed
  <2>3. /\ d \in PhoneType /\ d.buttons = built.phone[p].buttons
        /\ d.reg = built.phone[p].reg /\ d.crossed = built.phone[p].crossed
        /\ d.session = built.phone[p].session
    BY <1>1, <2>1 DEF PhoneType
  <2>4. Calm(built, p, d, built.conn[p])
    <3>1. AttachFact(built)
      BY <1>8 DEF Good, Facts
    <3> HIDE DEF d
    <3> QED
      BY <2>1, <2>3, <3>1 DEF Calm, Busy, Building, AttachFact
  <2> HIDE DEF last, d
  <2> QED
    BY <1>8, <2>2, <2>4, ChangeKeeps
<1> QED
  BY <1>2, <1>10, <1>11, Lands

LEMMA ReloadBeginKeeps ==
    ASSUME IInv, NEW f \in Files, ReloadBegin(f)
    PROVE  IInv'
<1> DEFINE m == [op |-> "read", file |-> f, todo |-> Phones \cup Lines]
           phones == [p \in Phones |-> [phone[p] EXCEPT !.delete = @ \/ p \notin Realtime,
                                           !.update = FALSE, !.buttons = Marked(@)]]
           lines == [x \in Lines |-> [line[x] EXCEPT !.delete = TRUE, !.update = FALSE]]
           v == [World EXCEPT !.mgr = m, !.count.changes = @ + 1, !.phone = phones,
                              !.line = lines]
<1>1. /\ Become(v) /\ Facts(World) /\ clean[Manager].at = "no" /\ mgr.op = "idle" /\ ~Returns(f)
      /\ \A p \in Phones : ~Building(World, p)
  <2>1. Become(v)
    BY DEF ReloadBegin
  <2> QED
    BY <2>1 DEF ReloadBegin, MgrIdle, IInv, Good
<1>2. m \in ManagerType /\ m.op = "read" /\ m.file = f /\ m.todo = Phones \cup Lines
  BY DEF ManagerType
<1>3. \A p \in Phones : /\ phones[p] \in PhoneType /\ phones[p].reg = phone[p].reg
                        /\ phones[p].session = phone[p].session
                        /\ phones[p].crossed = phone[p].crossed
                        /\ phones[p].buttons = Marked(phone[p].buttons)
                        /\ {b.line : b \in Range(Marked(phone[p].buttons))}
                            = {b.line : b \in Range(phone[p].buttons)}
  <2>1. ASSUME NEW p \in Phones
        PROVE  /\ phones[p] \in PhoneType /\ phones[p].reg = phone[p].reg
               /\ phones[p].session = phone[p].session
               /\ phones[p].crossed = phone[p].crossed
               /\ phones[p].buttons = Marked(phone[p].buttons)
               /\ {b.line : b \in Range(Marked(phone[p].buttons))}
                   = {b.line : b \in Range(phone[p].buttons)}
    <3>1. phone[p] \in PhoneType /\ (phone[p].delete \/ p \notin Realtime) \in BOOLEAN
      BY TypesHere
    <3>2. phone[p].buttons \in Seq(ButtonType)
      BY <3>1 DEF PhoneType
    <3>3. /\ Marked(phone[p].buttons) \in Seq(ButtonType)
          /\ {b.line : b \in Range(Marked(phone[p].buttons))}
              = {b.line : b \in Range(phone[p].buttons)}
      BY <3>2, MarkedIsButtons
    <3>4. phones[p] = [phone[p] EXCEPT !.delete = phone[p].delete \/ p \notin Realtime,
                         !.update = FALSE, !.buttons = Marked(phone[p].buttons)]
      OBVIOUS
    <3> HIDE DEF phones, ButtonType
    <3> QED
      BY ONLY <3>1, <3>3, <3>4 DEF PhoneType
  <2> HIDE DEF phones
  <2> QED
    BY <2>1
<1>4. \A x \in Lines : /\ lines[x] \in LineType /\ lines[x].known = line[x].known
                       /\ lines[x].devices = line[x].devices
  <2>1. ASSUME NEW x \in Lines
        PROVE  /\ lines[x] \in LineType /\ lines[x].known = line[x].known
               /\ lines[x].devices = line[x].devices
    <3>1. line[x] \in LineType /\ lines[x] = [line[x] EXCEPT !.delete = TRUE, !.update = FALSE]
      BY TypesHere
    <3> HIDE DEF lines
    <3> QED
      BY ONLY <3>1 DEF LineType
  <2> HIDE DEF lines
  <2> QED
    BY <2>1
<1>5. phones = [p \in Phones |-> phones[p]] /\ lines = [x \in Lines |-> lines[x]]
  OBVIOUS
<1> HIDE DEF phones, lines, m
<1>6. /\ v.phone = phones /\ v.line = lines /\ v.mgr = m /\ v.conn = conn /\ v.calls = calls
      /\ v.clean = clean /\ DOMAIN v = DOMAIN World
  BY ONLY WorldIs
<1> HIDE DEF v
<1>7. Typed(v)
  <2> HIDE DEF PhoneType, LineType, ManagerType
  <2>1. phones \in [Phones -> PhoneType] /\ lines \in [Lines -> LineType]
    BY ONLY <1>3, <1>4, <1>5
  <2> QED
    BY <1>2, <1>6, <2>1, WorldIs, TypesHere DEF Typed
<1>8. Frame(World, v)
  <2>1. /\ \A q \in Phones : LinesTakenDown(v, q) = LinesTakenDown(World, q)
        /\ \A q \in Phones : Busy(v, q) = Busy(World, q)
    BY <1>3, <1>6, WorldIs DEF LinesTakenDown, Busy, Building
  <2> QED
    BY <1>3, <1>4, <1>6, <2>1, WorldIs DEF Frame
<1>9. ManagerFact(v)
  BY <1>1, <1>6 DEF ManagerFact
<1>10. LineFact(v)
  <2>1. ASSUME NEW x \in Lines, ~v.line[x].known PROVE f.lines[x] = 0
    <3>1. mgr.file.lines[x] = 0
      BY <1>1, <1>4, <1>6, <2>1, WorldIs DEF Facts, LineFact
    <3>2. ~(f.lines[x] > 0) /\ f.lines[x] \in Nat
      BY <1>1, <3>1, DevicesAssumption DEF Returns, DevicesAssumption, FileType
    <3> QED
      BY ONLY <3>2
  <2> QED
    BY <1>2, <1>6, <2>1 DEF LineFact
<1>11. AttachFact(v)
  BY <1>1, <1>6, WorldIs DEF AttachFact, Building
<1> QED
  BY <1>1, <1>7, <1>8, <1>9, <1>10, <1>11, FrameKeeps, Lands DEF IInv
----------------------------------------------------------------------------
(* The invariant *)

LEMMA InitHolds ==
    ASSUME Init
    PROVE  IInv
<1> PICK f \in Files : StartFrom(Loaded(f))
  BY DEF Init
<1> DEFINE w == Loaded(f)
           phones == [p \in Phones |->
                        [NewPhone EXCEPT !.known = f.settings[p] > 0, !.version = f.settings[p],
                                         !.buttons = Buttons(f.buttons[p])]]
           lines == [x \in Lines |-> [NewLine EXCEPT !.known = f.lines[x] > 0,
                                                     !.version = f.lines[x]]]
<1>1. /\ f.settings \in [Phones -> Nat] /\ f.lines \in [Lines -> Nat]
      /\ f.buttons \in [Phones -> Seq(Lines \cup {NoLine})]
  BY DevicesAssumption DEF DevicesAssumption, FileType
<1>2. <<>> \in Seq(KeyType) /\ <<>> \in Seq(ButtonType)
  <2> HIDE DEF KeyType, ButtonType
  <2> QED
    OBVIOUS
<1>3. \A p \in Phones : phones[p] \in PhoneType /\ phones[p].reg = "NONE"
  <2>1. ASSUME NEW p \in Phones PROVE phones[p] \in PhoneType /\ phones[p].reg = "NONE"
    <3>1. f.settings[p] \in Nat /\ Buttons(f.buttons[p]) \in Seq(ButtonType)
      BY <1>1, NewIsButtons
    <3>2. (f.settings[p] > 0) \in BOOLEAN
      OBVIOUS
    <3>3. phones[p] = [NewPhone EXCEPT !.known = f.settings[p] > 0, !.version = f.settings[p],
                                       !.buttons = Buttons(f.buttons[p])]
      OBVIOUS
    <3> HIDE DEF phones, ButtonType, KeyType
    <3> QED
      BY <1>2, <3>1, <3>2, <3>3 DEF PhoneType, NewPhone, RegStates
  <2> HIDE DEF phones
  <2> QED
    BY <2>1
<1>4. \A x \in Lines : /\ lines[x] \in LineType /\ lines[x].devices = {}
                       /\ ~lines[x].delete /\ (lines[x].known <=> f.lines[x] > 0)
  <2>1. ASSUME NEW x \in Lines
        PROVE  /\ lines[x] \in LineType /\ lines[x].devices = {}
               /\ ~lines[x].delete /\ (lines[x].known <=> f.lines[x] > 0)
    <3>1. f.lines[x] \in Nat /\ (f.lines[x] > 0) \in BOOLEAN
      BY <1>1
    <3>2. lines[x] = [NewLine EXCEPT !.known = f.lines[x] > 0, !.version = f.lines[x]]
      OBVIOUS
    <3> HIDE DEF lines
    <3> QED
      BY <3>1, <3>2 DEF LineType, NewLine
  <2> HIDE DEF lines
  <2> QED
    BY <2>1
<1>5. NoThread \in ThreadType /\ NoThread.at = "none"
  <2> HIDE DEF KeyType
  <2> QED
    BY <1>2 DEF ThreadType, NoThread
<1>6. NoClean \in CleanType /\ NoClean.at = "no"
  BY DEF CleanType, NoClean
<1>7. [op |-> "idle", file |-> f, todo |-> {}] \in ManagerType
  BY DEF ManagerType
<1>8. /\ DOMAIN w = {"phone", "conn", "line", "calls", "mgr", "clean", "count"}
      /\ w.phone = phones /\ w.line = lines /\ w.conn = [p \in Phones |-> NoThread]
      /\ w.calls = {} /\ w.mgr = [op |-> "idle", file |-> f, todo |-> {}]
      /\ w.clean = [t \in Threads |-> NoClean]
  <2> HIDE DEF phones, lines
  <2> QED
    BY DEF Loaded, phones, lines
<1>9. phones = [p \in Phones |-> phones[p]] /\ lines = [x \in Lines |-> lines[x]]
  OBVIOUS
<1> HIDE DEF phones, lines, w
<1>10. Typed(w)
  <2> HIDE DEF PhoneType, ThreadType, LineType, ManagerType, CleanType
  <2>1. phones \in [Phones -> PhoneType] /\ lines \in [Lines -> LineType]
    BY ONLY <1>3, <1>4, <1>9
  <2>2. w.conn \in [Phones -> ThreadType] /\ w.clean \in [Threads -> CleanType]
    BY ONLY <1>5, <1>6, <1>8
  <2> QED
    BY <1>7, <1>8, <2>1, <2>2, FS_EmptySet DEF Typed
<1>11. /\ \A p \in Phones : KnownAttached(w, p) = {} /\ ~Busy(w, p)
       /\ \A t \in Threads : w.clean[t].at = "no"
  BY <1>3, <1>4, <1>5, <1>6, <1>8 DEF KnownAttached, Busy, Building
<1>12. Manager \in Threads
  BY DEF Threads
<1>13. CrossFact(w) /\ CallsFact(w) /\ ManagerFact(w)
  BY <1>11, <1>12 DEF CrossFact, CallsFact, ManagerFact, Taken
<1>14. LineFact(w)
  <2>1. \A x \in Lines : ~w.line[x].known => f.lines[x] = 0
    BY <1>1, <1>4, <1>8
  <2>2. w.mgr.op = "idle" /\ w.mgr.file = f
    BY <1>8
  <2> QED
    BY <1>4, <1>8, <2>1, <2>2 DEF LineFact
<1>15. ButtonFact(w) /\ GoneFact(w) /\ SessionFact(w) /\ AttachedFact(w)
  BY <1>11 DEF ButtonFact, GoneFact, SessionFact, AttachedFact
<1>16. AttachFact(w)
  BY <1>5, <1>8 DEF AttachFact
<1>17. Good(w)
  BY <1>10, <1>13, <1>14, <1>15, <1>16 DEF Good, Facts
<1>18. Same(World, w)
  BY <1>8, WorldIs DEF Same, StartFrom, w
<1> QED
  BY <1>17, <1>18, SameIsGood DEF IInv

LEMMA StutterKeeps ==
    ASSUME IInv, UNCHANGED vars
    PROVE  IInv'
<1>1. Become(World)
  BY WorldIs DEF vars, Become
<1> QED
  BY <1>1, Lands DEF IInv

LEMMA StepKeeps ==
    ASSUME IInv, [Next]_vars
    PROVE  IInv'
<1>1. ASSUME NEW p \in Phones, Working(p) PROVE IInv'
  BY <1>1, RegisterEndKeeps, PlaceButtonKeeps, AttachLineKeeps, TemplateMadeKeeps,
     CreateButtonsArrayKeeps, LoopKeeps, ThreadExitKeeps DEF Working, MakeTemplate
<1>2. ASSUME NEW p \in Phones, Asked(p) PROVE IInv'
  BY <1>2, ConnectKeeps, RegisterBeginKeeps, ButtonTemplateReqKeeps, RegisteredKeeps,
     UnregisterKeeps DEF Asked
<1>3. ASSUME NEW p \in Phones, Commands(p) PROVE IInv'
  BY <1>3, RestartDeviceKeeps, ReloadDeviceKeeps, AddLineKeeps, RemoveLineKeeps DEF Commands
<1>4. ASSUME NEW p \in Phones, NEW x \in Lines, StartCall(p, x) PROVE IInv'
  BY <1>4, StartCallKeeps
<1>5. ASSUME NEW c \in calls, EndCall(c) PROVE IInv'
  BY <1>5, EndCallKeeps
<1>6. ASSUME NEW t \in Threads, CleanStep(t) PROVE IInv'
  BY <1>6, CleanLinesKeeps, CleanTemplateKeeps, CleanSessionKeeps DEF CleanStep
<1>7. ASSUME NEW f \in Files, ReloadBegin(f) PROVE IInv'
  BY <1>7, ReloadBeginKeeps
<1>8. CASE ReloadStep
  BY <1>8, ReadDeviceKeeps, DevicePostReloadKeeps, ReadLineKeeps, LinePostReloadKeeps, ReadKeeps,
     LinesDoneKeeps, ReloadEndKeeps DEF ReloadStep
<1>9. CASE UNCHANGED vars
  BY <1>9, StutterKeeps
<1> QED
  BY <1>1, <1>2, <1>3, <1>4, <1>5, <1>6, <1>7, <1>8, <1>9 DEF Next

THEOREM AlwaysGood == Spec => []IInv
<1>1. Init => IInv
  BY InitHolds
<1>2. IInv /\ [Next]_vars => IInv'
  BY StepKeeps
<1> QED
  BY <1>1, <1>2, PTL DEF Spec

\* A phone without a session that nobody is busy with is attached to no line, however its
\* registration ended and whatever was reloaded meanwhile, unless it was crossed.
THEOREM NobodyIsLeft == Spec => []NoneLeftAttached
<1>1. IInv => NoneLeftAttached
  <2> SUFFICES ASSUME IInv, NEW p \in Phones, ~phone[p].session, Quiet(p), ~phone[p].crossed,
                      NEW x \in Attached(World, p), line[x].known
               PROVE  FALSE
    BY DEF NoneLeftAttached
  <2>1. x \in KnownAttached(World, p)
    BY WorldIs DEF Attached, KnownAttached
  <2>2. \A t \in Threads : clean[t].phone # p
    BY DEF Quiet
  <2>3. AttachedFact(World)
    BY DEF IInv, Good, Facts
  <2> QED
    BY <2>1, <2>2, <2>3, WorldIs DEF AttachedFact
<1> QED
  BY <1>1, AlwaysGood, PTL

\* What the manager and the reload do between the sections of the file.
LEMMA QuietStepsKeepCalls ==
    ASSUME IInv,
           \/ \E p \in Phones : ReadDevice(p) \/ DevicePostReload(p)
           \/ \E x \in Lines : ReadLine(x)
           \/ Read \/ LinesDone \/ ReloadEnd
           \/ CleanTemplate(Manager) \/ CleanSession(Manager)
    PROVE  calls' = calls
<1>1. ASSUME NEW p \in Phones, ReadDevice(p) PROVE calls' = calls
  <2> DEFINE read == [World EXCEPT !.mgr.todo = @ \ {p}]
  <2>1. read.calls = calls /\ DOMAIN read = DOMAIN World
    BY WorldIs
  <2>2. \/ Become([read EXCEPT !.phone[p].delete = phone[p].known])
        \/ Become(BuildDevice(read, p, mgr.file))
    BY <1>1 DEF ReadDevice
  <2> HIDE DEF read
  <2>3. /\ [read EXCEPT !.phone[p].delete = phone[p].known].calls = calls
        /\ BuildDevice(read, p, mgr.file).calls = calls
    BY <2>1, WorldIs DEF BuildDevice
  <2> QED
    BY <2>2, <2>3 DEF Become
<1>2. ASSUME NEW p \in Phones, DevicePostReload(p) PROVE calls' = calls
  <2> DEFINE done == [World EXCEPT !.mgr.todo = @ \ {p}]
             u == [done EXCEPT !.phone[p].update = FALSE]
             taken == CleanBegin(u, Manager, p, done.phone[p].delete)
  <2>1. done.calls = calls /\ DOMAIN done = DOMAIN World
    BY WorldIs
  <2>2. Become(done) \/ Become(CheckUpdate(done, Manager, p))
    BY <1>2 DEF DevicePostReload
  <2> HIDE DEF done
  <2>3. u.calls = calls /\ DOMAIN u = DOMAIN World
    BY <2>1, WorldIs
  <2> HIDE DEF u
  <2>4. taken.calls = calls
    BY <2>3, WorldIs DEF CleanBegin
  <2>5. CheckUpdate(done, Manager, p) \in {done, taken}
    BY DEF CheckUpdate, u
  <2> HIDE DEF taken
  <2> QED
    BY <2>1, <2>2, <2>4, <2>5 DEF Become
<1>3. ASSUME NEW x \in Lines, ReadLine(x) PROVE calls' = calls
  BY <1>3, WorldIs DEF ReadLine, Become
<1>4. CASE Read \/ LinesDone \/ ReloadEnd
  BY <1>4, WorldIs DEF Read, LinesDone, ReloadEnd, Become
<1>5. CASE CleanTemplate(Manager)
  BY <1>5, WorldIs DEF CleanTemplate, Become
<1>6. CASE CleanSession(Manager)
  <2> DEFINE p == clean[Manager].phone
             freed == IF phone[p].session
                      THEN [World EXCEPT !.phone[p].session = FALSE, !.conn[p].bound = FALSE,
                                         !.conn[p].stop = TRUE]
                      ELSE World
             done == [freed EXCEPT !.phone[p].reg = "NONE", !.clean[Manager] = NoClean]
  <2>1. Become(done) \/ Become([done EXCEPT !.conn[p] = NoThread])
    BY <1>6 DEF CleanSession
  <2>2. freed.calls = calls /\ DOMAIN freed = DOMAIN World
    BY WorldIs
  <2> HIDE DEF freed
  <2>3. done.calls = calls /\ DOMAIN done = DOMAIN World
    BY <2>2, WorldIs
  <2> HIDE DEF done
  <2>4. [done EXCEPT !.conn[p] = NoThread].calls = calls
    BY <2>3, WorldIs
  <2> QED
    BY <2>1, <2>3, <2>4 DEF Become
<1> QED
  BY <1>1, <1>2, <1>3, <1>4, <1>5, <1>6

\* The calls a step of the reload, or of the manager that takes a phone down, ends are calls
\* of lines that change or go, or of a phone that was crossed (sccp_line_post_reload,
\* sccp_device_check_update).
THEOREM OnlyChangedLinesLoseCalls == Spec => CallsSurvive
<1> DEFINE Changes(c) == line[c[2]].delete \/ line[c[2]].update \/ phone[c[1]].crossed
<1>1. ASSUME IInv, NEW c \in calls \ calls', CleanLines(Manager)
      PROVE  Changes(c)
  <2> DEFINE p == clean[Manager].phone
             found == {x \in LinesTakenDown(World, p) : line[x].known}
             ended == {<<p, x>> : x \in found}
             u == TakeDown(World, p)
  <2>1. Become([u EXCEPT !.clean[Manager].at = "template"]) /\ clean[Manager].at = "lines"
    BY <1>1 DEF CleanLines
  <2>2. u.calls = calls \ ended /\ DOMAIN u = DOMAIN World
    <3>1. ended = {<<p, x>> : x \in {y \in LinesTakenDown(World, p) : World.line[y].known}}
      BY WorldIs
    <3> HIDE DEF ended, found
    <3> QED
      BY <3>1, WorldIs DEF TakeDown
  <2> HIDE DEF u
  <2>3. calls' = calls \ ended
    BY <2>1, <2>2, WorldIs DEF Become
  <2>4. PICK x \in found : c = <<p, x>>
    BY <1>1, <2>3
  <2>5. c \in Phones \X Lines /\ clean[Manager].phone \in Phones
    BY <1>1, <2>1, TypesHere, CleaningType DEF Threads
  <2>6. x \in LinesTakenDown(World, p) \cap Lines /\ line[x].known /\ c[1] = p
    BY <2>4, <2>5
  <2>7. CallsFact(World)
    BY <1>1 DEF IInv, Good, Facts
  <2>8. phone[p].crossed
    BY <1>1, <2>1, <2>4, <2>5, <2>6, <2>7, WorldIs DEF CallsFact
  <2> QED
    BY <2>6, <2>8
<1>2. ASSUME IInv, NEW c \in calls \ calls', NEW x \in Lines, LinePostReload(x)
      PROVE  Changes(c)
  <2> DEFINE done == [World EXCEPT !.mgr.todo = @ \ {x}]
             u == MarkPhones(done, x)
  <2>1. done.calls = calls /\ DOMAIN done = DOMAIN World
    BY WorldIs
  <2>2. IF line[x].delete \/ line[x].update THEN Become(LineClean(u, x, line[x].delete))
        ELSE Become(done)
    BY <1>2 DEF LinePostReload
  <2> HIDE DEF done
  <2>3. u.calls = calls /\ DOMAIN u = DOMAIN World
    BY <2>1, WorldIs DEF MarkPhones
  <2> HIDE DEF u
  <2>4. LineClean(u, x, line[x].delete).calls = {e \in calls : e[2] # x}
    BY <2>3, WorldIs DEF LineClean
  <2>5. CASE line[x].delete \/ line[x].update
    <3>1. calls' = {e \in calls : e[2] # x}
      BY <2>2, <2>4, <2>5 DEF Become
    <3>2. c[2] = x
      BY <1>2, <3>1
    <3> QED
      BY <2>5, <3>2
  <2>6. CASE ~(line[x].delete \/ line[x].update)
    BY <1>2, <2>1, <2>2, <2>6 DEF Become
  <2> QED
    BY <2>5, <2>6
<1>3. ASSUME IInv, ReloadStep \/ CleanStep(Manager), NEW c \in calls \ calls'
      PROVE  Changes(c)
  <2>1. CASE CleanLines(Manager)
    BY <1>1, <1>3, <2>1
  <2>2. CASE \E x \in Lines : LinePostReload(x)
    BY <1>2, <1>3, <2>2
  <2>3. CASE \/ \E p \in Phones : ReadDevice(p) \/ DevicePostReload(p)
             \/ \E x \in Lines : ReadLine(x)
             \/ Read \/ LinesDone \/ ReloadEnd
             \/ CleanTemplate(Manager) \/ CleanSession(Manager)
    BY <1>3, <2>3, QuietStepsKeepCalls
  <2> QED
    BY <1>3, <2>1, <2>2, <2>3 DEF ReloadStep, CleanStep
<1>4. IInv /\ [Next]_vars =>
        [(ReloadStep \/ CleanStep(Manager)) => \A c \in calls \ calls' : Changes(c)]_vars
  BY <1>3
<1> QED
  BY <1>4, AlwaysGood, PTL DEF Spec, CallsSurvive
=============================================================================
