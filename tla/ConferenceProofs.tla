--------------------------- MODULE ConferenceProofs ---------------------------
(***************************************************************************)
(* Proofs about Conference: the references to a conference are exactly     *)
(* those its owners hold, no moderator is left out of the count on which   *)
(* its end depends, and a conference that was ended is in no list.         *)
(*                                                                         *)
(* The operators of Conference that make a step take a world and return    *)
(* one.  Two numbers are followed through them: Balance, the references    *)
(* counted less those owned, and Surplus, the moderators counted less the  *)
(* parties that moderate.  A Release lowers the balance by as much as it   *)
(* releases, provided there is as much to release: so a step that takes    *)
(* away an owner and then releases its reference ends with a balance of 0  *)
(* again, and the conference is freed by its last owner only.              *)
(***************************************************************************)
EXTENDS Conference, FiniteSetTheorems, TLAPS

(* What is counted *)

Alive(parts) == {p \in Parties : parts[p].life = "alive"}
OnCall(parts) == {p \in Parties : parts[p].chan}
OnDevice(parts) == {p \in Parties : parts[p].dev}
Joins(parts) == {p \in Parties : parts[p].joining # NoParty}
Holders(parts) ==
    Cardinality(Alive(parts)) + Cardinality(OnCall(parts)) + Cardinality(OnDevice(parts))
        + Cardinality(Joins(parts))
\* what one party adds to Holders
Due(q) == One(q.life = "alive") + One(q.chan) + One(q.dev) + One(q.joining # NoParty)

\* The owner counts as a moderator from its creation, before AttachPhone makes it one.
Moderates(p, q) == q.life = "alive" /\ (q.mod \/ (p = Owner /\ q.adding # "no"))
Moderating(parts) == {p \in Parties : Moderates(p, parts[p])}

Owed(c, cm) ==
    One(c.listed) + c.lost + One(c.setup \in {"creating", "created"}) + One(cm # Idle)
Balance(w) == w.conf.refs - Owed(w.conf, w.cmd) - Holders(w.part)
Surplus(w) == w.conf.mods - Cardinality(Moderating(w.part))

(* The invariant *)

Commands == [op : {"mute", "kick", "moderate", "exit", "end"}, from : {"phone", "console"},
             p : Parties]
\* The shape of a world: what its operators need to be able to change it.
Shape(w) ==
    /\ DOMAIN w = DOMAIN Nobody /\ DOMAIN w.conf = DOMAIN NoConference
    /\ DOMAIN w.part = Parties /\ DOMAIN w.end = Actors
    /\ \A p \in Parties : DOMAIN w.part[p] = DOMAIN NewParty
    /\ w.conf.refs \in Int /\ w.conf.mods \in Int /\ w.conf.lost \in Nat
    /\ w.conf.finishing \in Nat /\ w.cmd \in {Idle} \cup Commands /\ w.roster \in Seq(Parties)

\* A party that was not added has no channel pointer, is no moderator and has no
\* thread yet; neither the roster nor a command names such a party.
PartyFact(q) ==
    /\ q.life = "none" => ~q.mod
    /\ q.life = "none" => q.adding = "no"
    /\ q.life = "none" \/ q.adding # "no" => ~q.chan
    /\ q.life = "none" \/ q.adding = "made" => q.thread = "none"
PartyFacts(parts) == \A p \in Parties : PartyFact(parts[p])
Known(parts, list, cm) ==
    /\ \A n \in DOMAIN list : parts[list[n]].life # "none"
    /\ cm # Idle => parts[cm.p].life # "none"

\* The owner is added once, while the conference is being created.
OwnerFact(c, q) == q.life # "none" /\ (q.adding # "no" => c.setup = "creating")

\* Only its own thread, or the command, is in sccp_conference_end; while the
\* conference is listed and finishing, somebody is to take it off the list.
Unlists(e) == \E a \in Actors : e[a] \in {"others", "moderators", "unlist"}
EndFacts(c, parts, cm, e) ==
    /\ e[NoParty] # "no" => cm.op = "end"
    /\ \A p \in Parties : e[p] # "no" => parts[p].thread = "ending"
    /\ c.finishing > 0 /\ c.listed => Unlists(e)

Good(w) ==
    /\ Shape(w) /\ w.conf.setup # "no"
    /\ PartyFacts(w.part) /\ OwnerFact(w.conf, w.part[Owner])
    /\ Known(w.part, w.roster, w.cmd)
    /\ EndFacts(w.conf, w.part, w.cmd, w.end)
    /\ Surplus(w) >= 0
Sound(w) == Good(w) /\ Balance(w) = 0

\* Before Create there is nothing.
Untouched(q) ==
    /\ q.life # "alive" /\ q.adding = "no" /\ q.thread = "none" /\ q.kick = "no"
    /\ ~q.chan /\ ~q.dev /\ q.joining = NoParty
Fresh(w) ==
    /\ w.conf.setup = "no" /\ ~w.conf.listed /\ w.conf.refs = 0 /\ w.conf.lost = 0
    /\ w.conf.finishing = 0 /\ w.conf.mods >= 0
    /\ w.cmd = Idle /\ w.roster = <<>> /\ \A a \in Actors : w.end[a] = "no"
    /\ PartyFacts(w.part) /\ \A p \in Parties : Untouched(w.part[p])
    /\ w.part[Owner].life = "none"

IInv == Shape(World) /\ (conf.state = "crashed" \/ Fresh(World) \/ Sound(World))

----------------------------------------------------------------------------
(* Counting parties *)

\* A set of parties counts one more or one less for the one party that changes.
LEMMA CountOne ==
    ASSUME NEW A \in SUBSET Parties, NEW B \in SUBSET Parties, NEW p \in Parties,
           \A q \in Parties \ {p} : q \in A <=> q \in B
    PROVE  /\ Cardinality(A) \in Nat /\ Cardinality(B) \in Nat
           /\ Cardinality(B) = Cardinality(A) - One(p \in A) + One(p \in B)
<1> DEFINE C == A \ {p}
<1>1. IsFiniteSet(A) /\ IsFiniteSet(B) /\ IsFiniteSet(C)
  BY FS_Subset, ConferenceAssumption DEF ConferenceAssumption
<1>2. Cardinality(A) \in Nat /\ Cardinality(B) \in Nat /\ Cardinality(C) \in Nat
  BY <1>1, FS_CardinalityType
<1>3. Cardinality(C \cup {p}) = Cardinality(C) + 1
  <2>1. p \notin C
    OBVIOUS
  <2> QED
    BY <1>1, <2>1, FS_AddElement
<1>4. Cardinality(A) = Cardinality(C) + One(p \in A)
  <2>1. CASE p \in A
    <3>1. A = C \cup {p}
      BY <2>1
    <3> HIDE DEF C
    <3> QED
      BY <1>3, <2>1, <3>1 DEF One
  <2>2. CASE p \notin A
    <3>1. A = C
      BY <2>2
    <3> HIDE DEF C
    <3> QED
      BY <1>2, <2>2, <3>1 DEF One
  <2> QED
    BY <2>1, <2>2
<1>5. Cardinality(B) = Cardinality(C) + One(p \in B)
  <2> B \ {p} = C
    OBVIOUS
  <2>1. CASE p \in B
    <3>1. B = C \cup {p}
      BY <2>1
    <3> HIDE DEF C
    <3> QED
      BY <1>3, <2>1, <3>1 DEF One
  <2>2. CASE p \notin B
    <3>1. B = C
      BY <2>2
    <3> HIDE DEF C
    <3> QED
      BY <1>2, <2>2, <3>1 DEF One
  <2> QED
    BY <2>1, <2>2
<1> QED
  BY <1>2, <1>4, <1>5 DEF One

\* What the parties hold, and the moderators, when one party changes.
LEMMA OnePartyChanges ==
    ASSUME NEW f, NEW g, NEW p \in Parties, \A q \in Parties \ {p} : g[q] = f[q]
    PROVE  /\ Holders(f) \in Nat /\ Holders(g) \in Nat
           /\ Holders(g) = Holders(f) - Due(f[p]) + Due(g[p])
           /\ Cardinality(Moderating(f)) \in Nat /\ Cardinality(Moderating(g)) \in Nat
           /\ Cardinality(Moderating(g)) = Cardinality(Moderating(f))
                - One(Moderates(p, f[p])) + One(Moderates(p, g[p]))
<1>1. /\ Cardinality(Alive(f)) \in Nat /\ Cardinality(Alive(g)) \in Nat
      /\ Cardinality(Alive(g)) = Cardinality(Alive(f)) - One(f[p].life = "alive")
                                    + One(g[p].life = "alive")
  BY CountOne DEF Alive, One
<1>2. /\ Cardinality(OnCall(f)) \in Nat /\ Cardinality(OnCall(g)) \in Nat
      /\ Cardinality(OnCall(g)) = Cardinality(OnCall(f)) - One(f[p].chan) + One(g[p].chan)
  BY CountOne DEF OnCall, One
<1>3. /\ Cardinality(OnDevice(f)) \in Nat /\ Cardinality(OnDevice(g)) \in Nat
      /\ Cardinality(OnDevice(g)) = Cardinality(OnDevice(f)) - One(f[p].dev) + One(g[p].dev)
  BY CountOne DEF OnDevice, One
<1>4. /\ Cardinality(Joins(f)) \in Nat /\ Cardinality(Joins(g)) \in Nat
      /\ Cardinality(Joins(g)) = Cardinality(Joins(f)) - One(f[p].joining # NoParty)
                                    + One(g[p].joining # NoParty)
  BY CountOne DEF Joins, One
<1>5. /\ Cardinality(Moderating(f)) \in Nat /\ Cardinality(Moderating(g)) \in Nat
      /\ Cardinality(Moderating(g)) = Cardinality(Moderating(f))
                - One(Moderates(p, f[p])) + One(Moderates(p, g[p]))
  <2>1. \A q \in Parties : (q \in Moderating(f) <=> Moderates(q, f[q]))
                            /\ (q \in Moderating(g) <=> Moderates(q, g[q]))
    BY DEF Moderating
  <2>2. \A q \in Parties \ {p} : q \in Moderating(f) <=> q \in Moderating(g)
    BY <2>1
  <2>3. Moderating(f) \in SUBSET Parties /\ Moderating(g) \in SUBSET Parties
    BY DEF Moderating
  <2> QED
    BY <2>1, <2>2, <2>3, CountOne DEF One
<1> QED
  BY <1>1, <1>2, <1>3, <1>4, <1>5 DEF Holders, Due, One

----------------------------------------------------------------------------
(* What the operators do to a world *)

\* Worlds that differ in what neither the counts nor the facts look at.
SameOf(q, r) ==
    /\ r.life = q.life /\ r.adding = q.adding /\ r.thread = q.thread /\ r.mod = q.mod
    /\ r.chan = q.chan /\ r.dev = q.dev /\ r.joining = q.joining /\ r.phone = q.phone
SameConf(c, d) ==
    /\ d.setup = c.setup /\ d.listed = c.listed /\ d.refs = c.refs /\ d.mods = c.mods
    /\ d.finishing = c.finishing /\ d.lost = c.lost
Alike(w, v) ==
    /\ Shape(v) /\ v.cmd = w.cmd /\ v.end = w.end /\ v.roster = w.roster
    /\ SameConf(w.conf, v.conf)
    /\ \A p \in Parties : SameOf(w.part[p], v.part[p])

LEMMA AlikeKeeps ==
    ASSUME NEW w, NEW v, Good(w), Alike(w, v)
    PROVE  Good(v) /\ Balance(v) = Balance(w)
<1>1. Holders(v.part) = Holders(w.part)
  <2>1. /\ Alive(v.part) = Alive(w.part) /\ OnCall(v.part) = OnCall(w.part)
        /\ OnDevice(v.part) = OnDevice(w.part) /\ Joins(v.part) = Joins(w.part)
    BY DEF Alive, OnCall, OnDevice, Joins, Alike, SameOf
  <2> QED
    BY <2>1 DEF Holders
<1>2. Moderating(v.part) = Moderating(w.part)
  BY DEF Moderating, Moderates, Alike, SameOf
<1>3. Surplus(v) = Surplus(w) /\ Balance(v) = Balance(w)
  BY <1>1, <1>2 DEF Surplus, Balance, Owed, Alike, SameConf
<1>4. PartyFacts(v.part) /\ OwnerFact(v.conf, v.part[Owner])
  BY ConferenceAssumption
     DEF Good, PartyFacts, PartyFact, OwnerFact, Alike, SameOf, SameConf, ConferenceAssumption
<1>5. EndFacts(v.conf, v.part, v.cmd, v.end)
  BY DEF Good, EndFacts, Alike, SameOf, SameConf
<1>6. Known(v.part, v.roster, v.cmd)
  BY DEF Good, Shape, Commands, Known, Alike, SameOf
<1> QED
  BY <1>3, <1>4, <1>5, <1>6 DEF Good, Alike, SameConf

\* A release takes as much from the balance, if there is as much to release.
LEMMA Releasing ==
    ASSUME NEW w, Good(w), NEW n \in Nat, NEW m \in Nat, Balance(w) = n + m
    PROVE  /\ Good(Release(w, n)) /\ Balance(Release(w, n)) = m
           /\ Release(w, n).part = w.part /\ Release(w, n).cmd = w.cmd
<1> DEFINE v == Release(w, n)
<1>1. w.conf.refs >= n
  <2>1. Holders(w.part) \in Nat
    BY OnePartyChanges, ConferenceAssumption DEF ConferenceAssumption
  <2>2. Owed(w.conf, w.cmd) \in Nat
    BY DEF Owed, One, Good, Shape
  <2> QED
    BY <2>1, <2>2 DEF Balance, Good, Shape
<1>2. /\ v.part = w.part /\ v.cmd = w.cmd /\ v.end = w.end /\ v.roster = w.roster
      /\ v.conf.refs = w.conf.refs - n
      /\ v.conf.setup = w.conf.setup /\ v.conf.listed = w.conf.listed
      /\ v.conf.mods = w.conf.mods /\ v.conf.finishing = w.conf.finishing
      /\ v.conf.lost = w.conf.lost
      /\ DOMAIN v = DOMAIN w /\ DOMAIN v.conf = DOMAIN w.conf
  BY <1>1 DEF Release, Good, Shape, Nobody, NoConference
<1> HIDE DEF v
<1>3. Shape(v)
  BY <1>2 DEF Good, Shape
<1>4. Good(v)
  BY <1>2, <1>3 DEF Good, OwnerFact, EndFacts, Surplus
<1>5. Balance(v) = m
  <2>1. Owed(v.conf, v.cmd) = Owed(w.conf, w.cmd) /\ Holders(v.part) = Holders(w.part)
    BY <1>2 DEF Owed
  <2>2. Owed(w.conf, w.cmd) \in Int /\ Holders(w.part) \in Int
    BY OnePartyChanges, ConferenceAssumption DEF ConferenceAssumption, Owed, One, Good, Shape
  <2>3. w.conf.refs \in Int /\ v.conf.refs = w.conf.refs - n
    BY <1>2 DEF Good, Shape
  <2> QED
    BY <2>1, <2>2, <2>3 DEF Balance
<1> QED
  BY <1>2, <1>4, <1>5 DEF v

\* One party changes, and with it perhaps what the conference itself counts.
Moved(w, v, p) ==
    /\ Shape(v) /\ v.cmd = w.cmd /\ v.end = w.end /\ v.roster = w.roster
    /\ v.part[p].life = "none" => w.part[p].life = "none"
    /\ \A q \in Parties \ {p} : v.part[q] = w.part[q]
    /\ v.conf.finishing = w.conf.finishing /\ v.conf.listed = w.conf.listed
    /\ p = Owner => v.conf.setup # "no" /\ OwnerFact(v.conf, v.part[p])
    /\ p # Owner => v.conf.setup = w.conf.setup
    /\ PartyFact(v.part[p]) /\ (w.end[p] # "no" => v.part[p].thread = "ending")
    /\ v.conf.mods + One(Moderates(p, w.part[p])) >= w.conf.mods + One(Moderates(p, v.part[p]))
Net(w) == w.conf.refs - Owed(w.conf, w.cmd)

LEMMA OneMoves ==
    ASSUME NEW w, NEW v, NEW p \in Parties, Good(w), Moved(w, v, p)
    PROVE  /\ Good(v)
           /\ Balance(v) = Balance(w) + Net(v) - Net(w) + Due(w.part[p]) - Due(v.part[p])
<1> USE DEF Moved
<1>1. /\ Holders(w.part) \in Nat /\ Holders(v.part) \in Nat
      /\ Holders(v.part) = Holders(w.part) - Due(w.part[p]) + Due(v.part[p])
      /\ Cardinality(Moderating(w.part)) \in Nat /\ Cardinality(Moderating(v.part)) \in Nat
      /\ Cardinality(Moderating(v.part)) = Cardinality(Moderating(w.part))
           - One(Moderates(p, w.part[p])) + One(Moderates(p, v.part[p]))
  BY OnePartyChanges
<1>2. /\ w.conf.refs \in Int /\ v.conf.refs \in Int /\ w.conf.mods \in Int /\ v.conf.mods \in Int
      /\ Owed(w.conf, w.cmd) \in Int /\ Owed(v.conf, v.cmd) \in Int
      /\ Due(w.part[p]) \in Int /\ Due(v.part[p]) \in Int
      /\ One(Moderates(p, w.part[p])) \in Int /\ One(Moderates(p, v.part[p])) \in Int
  BY DEF Good, Shape, Owed, Due, One
<1>3. Surplus(v) >= 0
  <2>1. w.conf.mods - Cardinality(Moderating(w.part)) >= 0
    BY DEF Good, Surplus
  <2> QED
    BY <1>1, <1>2, <2>1 DEF Surplus
<1>4. PartyFacts(v.part)
  BY DEF Good, PartyFacts
<1>5. OwnerFact(v.conf, v.part[Owner]) /\ v.conf.setup # "no"
  BY ConferenceAssumption DEF Good, OwnerFact, ConferenceAssumption
<1>6. EndFacts(v.conf, v.part, v.cmd, v.end)
  BY DEF Good, EndFacts
<1>7. Known(v.part, v.roster, v.cmd)
  <2>1. \A q \in Parties : v.part[q].life = "none" => w.part[q].life = "none"
    OBVIOUS
  <2> QED
    BY <2>1 DEF Good, Shape, Commands, Known
<1> QED
  BY <1>1, <1>2, <1>3, <1>4, <1>5, <1>6, <1>7 DEF Good, Balance, Net

\* The pointers of a phone are given back with what they owe.
LEMMA ReleasingPhone ==
    ASSUME NEW w, NEW p \in Parties, NEW m \in Nat, Good(w), Balance(w) = m
    PROVE  Good(ReleasePhone(w, p)) /\ Balance(ReleasePhone(w, p)) = m
<1> DEFINE v == [w EXCEPT !.part[p].chan = FALSE, !.part[p].dev = FALSE]
           n == One(w.part[p].chan) + One(w.part[p].dev)
<1>1. /\ v.cmd = w.cmd /\ v.end = w.end /\ v.roster = w.roster /\ v.conf = w.conf
      /\ \A q \in Parties \ {p} : v.part[q] = w.part[q]
      /\ v.part[p] = [w.part[p] EXCEPT !.chan = FALSE, !.dev = FALSE]
      /\ DOMAIN v = DOMAIN w /\ DOMAIN v.part = DOMAIN w.part
  BY DEF Good, Shape, Nobody
<1> HIDE DEF v
<1>2. /\ ~v.part[p].chan /\ ~v.part[p].dev /\ DOMAIN v.part[p] = DOMAIN NewParty
      /\ v.part[p].life = w.part[p].life /\ v.part[p].adding = w.part[p].adding
      /\ v.part[p].thread = w.part[p].thread /\ v.part[p].mod = w.part[p].mod
      /\ v.part[p].joining = w.part[p].joining
  BY <1>1 DEF Good, Shape, NewParty
<1>3. Shape(v)
  BY <1>1, <1>2 DEF Good, Shape
<1>4. PartyFact(v.part[p]) /\ (w.end[p] # "no" => v.part[p].thread = "ending")
  BY <1>2 DEF Good, PartyFacts, PartyFact, EndFacts
<1>5. Good(v) /\ Balance(v) = m + n
  <2>1. p = Owner => OwnerFact(v.conf, v.part[p])
    BY <1>1, <1>2 DEF Good, OwnerFact
  <2>2. Moderates(p, v.part[p]) = Moderates(p, w.part[p])
    BY <1>2 DEF Moderates
  <2>3. Due(w.part[p]) - Due(v.part[p]) = n
    BY <1>2 DEF Due, One
  <2>4. Moved(w, v, p)
    <3>1. v.conf.mods + One(Moderates(p, w.part[p])) >= w.conf.mods + One(Moderates(p, v.part[p]))
      BY <1>1, <2>2 DEF Good, Shape, One
    <3> QED
      BY <1>1, <1>3, <1>4, <2>1, <3>1 DEF Moved, Good
  <2>5. Net(v) = Net(w) /\ Net(w) \in Int
    BY <1>1 DEF Net, Good, Shape, Owed, One
  <2>6. Due(w.part[p]) \in Int /\ Due(v.part[p]) \in Int /\ n \in Int
    BY DEF Due, One
  <2> QED
    BY <2>3, <2>4, <2>5, <2>6, OneMoves
<1>6. n \in Nat
  BY DEF One
<1>7. ReleasePhone(w, p) = Release(v, n)
  BY DEF ReleasePhone, v
<1> QED
  BY <1>5, <1>6, <1>7, Releasing

\* The counts are numbers.
LEMMA Numbers ==
    ASSUME NEW w, Good(w)
    PROVE  /\ Net(w) \in Int /\ w.conf.mods \in Int /\ w.conf.refs \in Int
           /\ w.conf.lost \in Nat /\ \A q : Due(q) \in Nat
           /\ \A p, q : One(Moderates(p, q)) \in {0, 1}
  BY DEF Net, Good, Shape, Owed, Due, One

\* A participant that is destroyed gives back its own reference and its pointers.
LEMMA Dropping ==
    ASSUME NEW w, NEW p \in Parties, NEW m \in Nat, Good(w), Balance(w) = m
    PROVE  Good(Dropped(w, p)) /\ Balance(Dropped(w, p)) = m
<1>1. CASE w.part[p].life # "alive" \/ InUse(w, p)
  BY <1>1 DEF Dropped
<1>2. CASE w.part[p].life = "alive" /\ ~InUse(w, p)
  <2> DEFINE v == [w EXCEPT !.part[p].life = "gone", !.conf.mods = @ - One(w.part[p].mod)]
  <2>1. /\ v.cmd = w.cmd /\ v.end = w.end /\ v.roster = w.roster
        /\ \A q \in Parties \ {p} : v.part[q] = w.part[q]
        /\ v.part[p] = [w.part[p] EXCEPT !.life = "gone"]
        /\ v.conf = [w.conf EXCEPT !.mods = w.conf.mods - One(w.part[p].mod)]
        /\ DOMAIN v = DOMAIN w /\ DOMAIN v.part = DOMAIN w.part
    BY DEF Good, Shape, Nobody
  <2>2. Dropped(w, p) = Release(IF w.part[p].phone THEN ReleasePhone(v, p) ELSE v, 1)
    BY <1>2 DEF Dropped
  <2> HIDE DEF v
  <2>3. /\ DOMAIN v.part[p] = DOMAIN NewParty
        /\ v.part[p].life = "gone" /\ v.part[p].adding = w.part[p].adding
        /\ v.part[p].thread = w.part[p].thread /\ v.part[p].mod = w.part[p].mod
        /\ v.part[p].joining = w.part[p].joining
        /\ v.part[p].chan = w.part[p].chan /\ v.part[p].dev = w.part[p].dev
    BY <2>1 DEF Good, Shape, NewParty
  <2>4. /\ DOMAIN v.conf = DOMAIN NoConference
        /\ v.conf.setup = w.conf.setup /\ v.conf.listed = w.conf.listed
        /\ v.conf.refs = w.conf.refs /\ v.conf.finishing = w.conf.finishing
        /\ v.conf.lost = w.conf.lost /\ v.conf.mods = w.conf.mods - One(w.part[p].mod)
    BY <2>1 DEF Good, Shape, NoConference
  <2>5. w.part[p].adding = "no"
    BY <1>2 DEF InUse
  <2>6. Moved(w, v, p)
    <3>1. Shape(v)
      BY <2>1, <2>3, <2>4 DEF Good, Shape, One
    <3>2. p = Owner => OwnerFact(v.conf, v.part[p])
      BY <2>3, <2>5 DEF OwnerFact
    <3>3. PartyFact(v.part[p]) /\ (w.end[p] # "no" => v.part[p].thread = "ending")
      BY <2>3 DEF Good, PartyFacts, PartyFact, EndFacts
    <3>4. v.conf.mods + One(Moderates(p, w.part[p])) >= w.conf.mods + One(Moderates(p, v.part[p]))
      <4>1. One(Moderates(p, w.part[p])) = One(w.part[p].mod)
        BY <1>2, <2>5 DEF Moderates, One
      <4>2. One(Moderates(p, v.part[p])) = 0
        BY <2>3 DEF Moderates, One
      <4> QED
        BY <2>4, <4>1, <4>2 DEF Good, Shape, One
    <3> QED
      BY <2>1, <2>4, <3>1, <3>2, <3>3, <3>4 DEF Moved, Good
  <2>7. Good(v) /\ Balance(v) = m + 1
    <3>1. Due(w.part[p]) = Due(v.part[p]) + 1
      BY <1>2, <2>3 DEF Due, One
    <3>2. Net(v) = Net(w)
      BY <2>1, <2>4 DEF Net, Owed
    <3> QED
      BY <2>6, <3>1, <3>2, OneMoves, Numbers
  <2>8. /\ Good(IF w.part[p].phone THEN ReleasePhone(v, p) ELSE v)
        /\ Balance(IF w.part[p].phone THEN ReleasePhone(v, p) ELSE v) = m + 1
    BY <2>7, ReleasingPhone
  <2> QED
    BY <2>2, <2>8, Releasing
<1> QED
  BY <1>1, <1>2

LEMMA Retaining ==
    ASSUME NEW w, Good(w)
    PROVE  /\ Good(Retain(w)) /\ Balance(Retain(w)) = Balance(w) + 1
           /\ Retain(w).part = w.part /\ Retain(w).cmd = w.cmd /\ Retain(w).end = w.end
           /\ Retain(w).roster = w.roster
           /\ SameConf([w.conf EXCEPT !.refs = w.conf.refs + 1], Retain(w).conf)
<1> DEFINE v == Retain(w)
<1>1. /\ v.part = w.part /\ v.cmd = w.cmd /\ v.end = w.end /\ v.roster = w.roster
      /\ v.conf = [w.conf EXCEPT !.refs = w.conf.refs + 1] /\ DOMAIN v = DOMAIN w
  BY DEF Retain, Good, Shape, Nobody
<1> HIDE DEF v
<1>2. /\ v.conf.refs = w.conf.refs + 1
      /\ v.conf.setup = w.conf.setup /\ v.conf.listed = w.conf.listed
      /\ v.conf.mods = w.conf.mods /\ v.conf.finishing = w.conf.finishing
      /\ v.conf.lost = w.conf.lost /\ DOMAIN v.conf = DOMAIN NoConference
  BY <1>1 DEF Good, Shape, NoConference
<1>3. Shape(v)
  BY <1>1, <1>2 DEF Good, Shape
<1>4. Good(v)
  BY <1>1, <1>2, <1>3 DEF Good, OwnerFact, EndFacts, Surplus
<1>5. Balance(v) = Balance(w) + 1
  <2>1. Owed(v.conf, v.cmd) = Owed(w.conf, w.cmd) /\ Holders(v.part) = Holders(w.part)
    BY <1>1, <1>2 DEF Owed
  <2>2. Owed(w.conf, w.cmd) \in Int /\ Holders(w.part) \in Int
    BY OnePartyChanges, ConferenceAssumption DEF ConferenceAssumption, Owed, One, Good, Shape
  <2>3. w.conf.refs \in Int
    BY DEF Good, Shape
  <2> QED
    BY <1>2, <2>1, <2>2, <2>3 DEF Balance
<1> QED
  BY <1>1, <1>4, <1>5 DEF v, SameConf

\* The list of participants, mute and music leave the counts and the facts alone.
LEMMA AlikeComposes ==
    ASSUME NEW u, NEW v, NEW w, Alike(u, v), Alike(v, w)
    PROVE  Alike(u, w)
  BY DEF Alike, SameOf, SameConf

LEMMA ListIsAlike ==
    ASSUME NEW w, Shape(w)
    PROVE  Alike(w, UpdateList(w))
<1>1. CASE w.conf.finishing > 0
  BY <1>1 DEF UpdateList, Alike, SameOf, SameConf
<1>2. CASE ~(w.conf.finishing > 0)
  <2> DEFINE v == UpdateList(w)
  <2>1. /\ v.cmd = w.cmd /\ v.end = w.end /\ v.roster = w.roster
      /\ v.conf = w.conf /\ DOMAIN v = DOMAIN w
        /\ DOMAIN v.part = Parties
        /\ \A p \in Parties : v.part[p] = [w.part[p] EXCEPT !.list = @ \/ ShowsList(w, p)]
    BY <1>2 DEF UpdateList, Shape, Nobody
  <2> HIDE DEF v
  <2>2. \A p \in Parties : DOMAIN v.part[p] = DOMAIN NewParty /\ SameOf(w.part[p], v.part[p])
    BY <2>1 DEF Shape, NewParty, SameOf
  <2>3. Alike(w, v)
    BY <2>1, <2>2 DEF Alike, SameConf, Shape
  <2> QED
    BY <2>3 DEF v
<1> QED
  BY <1>1, <1>2

LEMMA MuteIsAlike ==
    ASSUME NEW w, NEW p \in Parties, Shape(w)
    PROVE  Alike(w, ToggleMute(w, p))
<1> DEFINE v == [w EXCEPT !.part[p].mute = ~@]
<1>1. /\ v.cmd = w.cmd /\ v.end = w.end /\ v.roster = w.roster
      /\ v.conf = w.conf /\ DOMAIN v = DOMAIN w
      /\ DOMAIN v.part = Parties
      /\ \A q \in Parties : v.part[q] = IF q = p THEN [w.part[p] EXCEPT !.mute = ~@]
                                                 ELSE w.part[q]
  BY DEF Shape, Nobody
<1>2. ToggleMute(w, p) = UpdateList(v)
  BY DEF ToggleMute
<1> HIDE DEF v
<1>3. \A q \in Parties : DOMAIN v.part[q] = DOMAIN NewParty /\ SameOf(w.part[q], v.part[q])
  BY <1>1 DEF Shape, NewParty, SameOf
<1>4. Alike(w, v) /\ Shape(v)
  BY <1>1, <1>3 DEF Alike, SameConf, Shape
<1> QED
  BY <1>2, <1>4, ListIsAlike, AlikeComposes

LEMMA MusicIsAlike ==
    ASSUME NEW w, NEW start, Shape(w)
    PROVE  Alike(w, MusicForAll(w, start))
<1> DEFINE v == MusicForAll(w, start)
<1>1. /\ v.cmd = w.cmd /\ v.end = w.end /\ v.roster = w.roster
      /\ v.conf = w.conf /\ DOMAIN v = DOMAIN w
      /\ DOMAIN v.part = Parties
      /\ \A p \in Parties : v.part[p] =
            CASE p \notin Range(w.roster) -> w.part[p]
              [] p \in Range(w.roster) /\ ~w.part[p].mod -> PlayMusic(w.part[p], p, start)
              [] OTHER -> [w.part[p] EXCEPT !.list = @ /\ ~start]
  BY DEF MusicForAll, Shape, Nobody
<1>2. ASSUME NEW p \in Parties
      PROVE  DOMAIN v.part[p] = DOMAIN NewParty /\ SameOf(w.part[p], v.part[p])
  <2> DEFINE q == w.part[p]
  <2>1. DOMAIN q = DOMAIN NewParty
    BY DEF Shape
  <2>2. /\ SameOf(q, q)
        /\ SameOf(q, [q EXCEPT !.mute = ~@]) /\ DOMAIN [q EXCEPT !.mute = ~@] = DOMAIN q
        /\ SameOf(q, [q EXCEPT !.moh = start]) /\ DOMAIN [q EXCEPT !.moh = start] = DOMAIN q
        /\ SameOf(q, [q EXCEPT !.list = @ /\ ~start])
        /\ DOMAIN [q EXCEPT !.list = @ /\ ~start] = DOMAIN q
    BY <2>1 DEF SameOf, NewParty
  <2>3. v.part[p] \in {q, [q EXCEPT !.mute = ~@], [q EXCEPT !.moh = start],
                       [q EXCEPT !.list = @ /\ ~start]}
    BY <1>1 DEF PlayMusic
  <2> QED
    BY <2>1, <2>2, <2>3
<1> HIDE DEF v
<1>3. Alike(w, v)
  BY <1>1, <1>2 DEF Alike, SameConf, Shape
<1> QED
  BY <1>3 DEF v

LEMMA HoldIsAlike ==
    ASSUME NEW w, Shape(w)
    PROVE  Alike(w, ConferenceHold(w)) /\ Alike(w, ConferenceResume(w))
<1>1. ASSUME NEW u, NEW b, Shape(u)
      PROVE  Alike(u, [u EXCEPT !.conf.held = b]) /\ Shape([u EXCEPT !.conf.held = b])
  <2> DEFINE v == [u EXCEPT !.conf.held = b]
  <2>1. /\ v.cmd = u.cmd /\ v.end = u.end /\ v.roster = u.roster
        /\ v.part = u.part /\ DOMAIN v = DOMAIN u
        /\ v.conf = [u.conf EXCEPT !.held = b]
    BY <1>1 DEF Shape, Nobody
  <2> HIDE DEF v
  <2>2. DOMAIN v.conf = DOMAIN NoConference /\ SameConf(u.conf, v.conf)
    BY <1>1, <2>1 DEF Shape, NoConference, SameConf
  <2>3. Shape(v)
    BY <1>1, <2>1, <2>2 DEF Shape, SameConf
  <2> QED
    BY <2>1, <2>2, <2>3 DEF v, Alike, SameOf
<1>2. Alike(w, w)
  BY DEF Alike, SameOf, SameConf
<1>3. Alike(w, ConferenceHold(w))
  <2> DEFINE u == [w EXCEPT !.conf.held = TRUE]
  <2>1. Alike(w, u) /\ Shape(u)
    BY <1>1
  <2>2. Alike(w, MusicForAll(u, TRUE))
    BY <2>1, MusicIsAlike, AlikeComposes
  <2> QED
    BY <1>2, <2>2 DEF ConferenceHold
<1>4. Alike(w, ConferenceResume(w))
  <2> DEFINE u == MusicForAll(w, FALSE)
             v == [u EXCEPT !.conf.held = FALSE]
  <2>1. Alike(w, u) /\ Shape(u)
    BY MusicIsAlike DEF Alike
  <2> HIDE DEF u
  <2>2. Alike(u, v) /\ Shape(v)
    BY <1>1, <2>1
  <2>3. Alike(w, UpdateList(v))
    BY <2>1, <2>2, ListIsAlike, AlikeComposes
  <2> QED
    BY <1>2, <2>3 DEF ConferenceResume, u
<1> QED
  BY <1>3, <1>4

\* A party's thread, or its being added, goes on.
Goes(w, v, p) ==
    /\ Shape(v) /\ v.cmd = w.cmd /\ v.end = w.end /\ v.roster = w.roster
    /\ SameConf(w.conf, v.conf) /\ \A q \in Parties \ {p} : v.part[q] = w.part[q]
    /\ SameOf([w.part[p] EXCEPT !.thread = v.part[p].thread, !.adding = v.part[p].adding],
              v.part[p])
    /\ w.part[p].adding = "no" <=> v.part[p].adding = "no"
    /\ v.part[p].adding = "made" => w.part[p].adding = "made"

LEMMA GoingOn ==
    ASSUME NEW w, NEW v, NEW p \in Parties, Good(w), Goes(w, v, p),
           \/ v.part[p].thread = w.part[p].thread
           \/ w.part[p].thread \notin {"none", "ending"}
           \/ w.part[p].thread # "none" /\ w.end[p] = "no"
           \/ w.part[p].adding = "made" /\ v.part[p].adding # "made"
    PROVE  Good(v) /\ Balance(v) = Balance(w)
<1>1. DOMAIN w.part[p] = DOMAIN NewParty
  BY DEF Good, Shape
<1>2. /\ v.part[p].life = w.part[p].life /\ v.part[p].mod = w.part[p].mod
      /\ v.part[p].chan = w.part[p].chan /\ v.part[p].dev = w.part[p].dev
      /\ v.part[p].joining = w.part[p].joining
      /\ w.part[p].adding = "no" <=> v.part[p].adding = "no"
      /\ v.part[p].adding = "made" => w.part[p].adding = "made"
  BY <1>1 DEF Goes, SameOf, NewParty
<1>3. PartyFact(w.part[p]) /\ (w.end[p] # "no" => w.part[p].thread = "ending")
  BY DEF Good, PartyFacts, EndFacts
<1>4. PartyFact(v.part[p]) /\ (w.end[p] # "no" => v.part[p].thread = "ending")
  BY <1>2, <1>3 DEF PartyFact
<1>5. Moved(w, v, p)
  <2>1. p = Owner => v.conf.setup # "no" /\ OwnerFact(v.conf, v.part[p])
    BY <1>2 DEF Good, Goes, SameConf, OwnerFact
  <2>2. Moderates(p, v.part[p]) <=> Moderates(p, w.part[p])
    BY <1>2 DEF Moderates
  <2>3. v.conf.mods + One(Moderates(p, w.part[p])) >= w.conf.mods + One(Moderates(p, v.part[p]))
    BY <2>2 DEF Goes, SameConf, Good, Shape, One
  <2> QED
    BY <1>2, <1>4, <2>1, <2>3 DEF Moved, Goes, SameConf
<1>6. Net(v) = Net(w) /\ Due(v.part[p]) = Due(w.part[p])
  BY <1>2 DEF Net, Owed, Due, Goes, SameConf
<1>7. Balance(w) \in Int
  BY OnePartyChanges, Numbers DEF Balance, Net, Good, Shape, Owed, One
<1> QED
  BY <1>5, <1>6, <1>7, OneMoves, Numbers

----------------------------------------------------------------------------
(* A step begins with a sound world and leaves one, or a crash *)

LEMMA Fields ==
    /\ World.conf = conf /\ World.roster = roster /\ World.part = part /\ World.cmd = cmd
    /\ World.end = end /\ DOMAIN World = DOMAIN Nobody
  BY DEF World, Nobody

LEMMA Starting ==
    ASSUME IInv, conf.state = "up", ~Fresh(World)
    PROVE  Sound(World) /\ Good(World) /\ Shape(World) /\ Balance(World) = 0
  BY Fields DEF IInv, Sound, Good

Leaves(w) ==
    /\ conf' = w.conf /\ roster' = w.roster /\ part' = w.part /\ cmd' = w.cmd /\ end' = w.end

LEMMA Leaving ==
    ASSUME NEW w, Leaves(w), Shape(w), w.conf.state = "crashed" \/ Sound(w)
    PROVE  IInv'
<1>1. /\ conf' = w.conf /\ roster' = w.roster /\ part' = w.part /\ cmd' = w.cmd /\ end' = w.end
  BY DEF Leaves
<1>2. World' = [conf |-> w.conf, roster |-> w.roster, part |-> w.part, cmd |-> w.cmd,
                end |-> w.end]
  BY <1>1 DEF World
<1> DEFINE v == [conf |-> w.conf, roster |-> w.roster, part |-> w.part, cmd |-> w.cmd,
                 end |-> w.end]
<1>3. /\ v.conf = w.conf /\ v.roster = w.roster /\ v.part = w.part /\ v.cmd = w.cmd
      /\ v.end = w.end /\ DOMAIN v = DOMAIN w
  BY DEF Shape, Nobody
<1> HIDE DEF v
<1>4. Shape(v)
  BY <1>3 DEF Shape
<1>5. Sound(w) => Sound(v)
  BY <1>3, <1>4 DEF Sound, Good, Surplus, Balance
<1>6. World' = v
  BY <1>2 DEF v
<1>7. Shape(World') /\ (conf'.state = "crashed" \/ Sound(World'))
  BY <1>1, <1>4, <1>5, <1>6
<1> QED
  BY <1>7 DEF IInv

LEMMA Becoming ==
    ASSUME NEW w, Become(w), Shape(w), w.conf.state = "crashed" \/ Sound(w)
    PROVE  IInv'
  BY Leaving DEF Become, Leaves

----------------------------------------------------------------------------
(* A party is added *)

LEMMA StartThreadKeeps ==
    ASSUME IInv, NEW p \in Parties, StartThread(p)
    PROVE  IInv'
<1> USE Fields
<1>1. conf.state = "up" /\ ~Fresh(World)
  BY DEF StartThread, Become, CanStep, Fresh, Untouched
<1>2. Good(World) /\ Shape(World) /\ Balance(World) = 0
  BY <1>1, Starting
<1>3. DOMAIN part[p] = DOMAIN NewParty /\ DOMAIN part = Parties
  BY <1>2 DEF Shape
<1>4. CASE Become([World EXCEPT !.part[p].adding = "started", !.part[p].thread = "join"])
  <2> DEFINE v == [World EXCEPT !.part[p].adding = "started", !.part[p].thread = "join"]
  <2>1. /\ v.cmd = cmd /\ v.end = end /\ v.roster = roster /\ v.conf = conf
        /\ \A q \in Parties \ {p} : v.part[q] = part[q]
        /\ v.part[p] = [part[p] EXCEPT !.adding = "started", !.thread = "join"]
        /\ DOMAIN v = DOMAIN Nobody /\ DOMAIN v.part = Parties
    BY <1>3 DEF Nobody
  <2>2. Become(v)
    BY <1>4
  <2> HIDE DEF v
  <2>3. DOMAIN v.part[p] = DOMAIN NewParty
    BY <1>3, <2>1
  <2>4. Shape(v)
    BY <1>2, <2>1, <2>3 DEF Shape
  <2>5. Goes(World, v, p)
    BY <1>3, <2>1, <2>4 DEF Goes, StartThread, SameConf, SameOf, NewParty
  <2>6. Good(v) /\ Balance(v) = 0
    BY <1>2, <1>3, <2>1, <2>5, GoingOn DEF StartThread, NewParty
  <2> QED
    BY <2>2, <2>4, <2>6, Becoming DEF Sound
<1>5. CASE \/ p = Owner /\ Become(Dropped([[World EXCEPT !.part[p].adding = "no"]
                        EXCEPT !.conf.lost = @ + 1, !.conf.setup = "failed"], p))
           \/ p # Owner /\ Become(Dropped([World EXCEPT !.part[p].adding = "no"], p))
  <2> DEFINE u == [World EXCEPT !.part[p].adding = "no"]
             v == IF p = Owner THEN [u EXCEPT !.conf.lost = @ + 1, !.conf.setup = "failed"]
                  ELSE u
  <2>1. Become(Dropped(v, p))
    BY <1>5
  <2>2. /\ u.cmd = cmd /\ u.end = end /\ u.roster = roster /\ u.conf = conf
        /\ \A q \in Parties \ {p} : u.part[q] = part[q]
        /\ u.part[p] = [part[p] EXCEPT !.adding = "no"]
        /\ DOMAIN u = DOMAIN Nobody /\ DOMAIN u.part = Parties
    BY <1>3 DEF Nobody
  <2> HIDE DEF u
  <2>3. /\ v.cmd = cmd /\ v.end = end /\ v.roster = roster /\ v.part = u.part
        /\ v.conf = IF p = Owner THEN [conf EXCEPT !.lost = conf.lost + 1, !.setup = "failed"]
                    ELSE conf
        /\ DOMAIN v = DOMAIN Nobody
    BY <2>2 DEF Nobody
  <2> HIDE DEF v
  <2>4. /\ DOMAIN v.part[p] = DOMAIN NewParty
        /\ v.part[p].life = part[p].life /\ v.part[p].adding = "no"
        /\ v.part[p].thread = part[p].thread /\ v.part[p].mod = part[p].mod
        /\ v.part[p].joining = part[p].joining
        /\ v.part[p].chan = part[p].chan /\ v.part[p].dev = part[p].dev
    BY <1>3, <2>2, <2>3 DEF NewParty
  <2>5. /\ v.conf.refs = conf.refs /\ v.conf.mods = conf.mods /\ v.conf.listed = conf.listed
        /\ v.conf.finishing = conf.finishing /\ DOMAIN v.conf = DOMAIN NoConference
        /\ v.conf.lost = conf.lost + One(p = Owner)
        /\ v.conf.setup = IF p = Owner THEN "failed" ELSE conf.setup
    BY <1>2, <2>3 DEF Shape, NoConference, One
  <2>6. Shape(v)
    BY <1>2, <2>2, <2>3, <2>4, <2>5 DEF Shape, One
  <2>7. Moved(World, v, p)
    <3>1. p = Owner => v.conf.setup # "no" /\ OwnerFact(v.conf, v.part[p])
      BY <1>2, <2>4, <2>5 DEF OwnerFact, Good
    <3>2. PartyFact(v.part[p]) /\ (end[p] # "no" => v.part[p].thread = "ending")
      BY <1>2, <2>4 DEF Good, PartyFacts, PartyFact, EndFacts
    <3>3. v.conf.mods + One(Moderates(p, part[p])) >= conf.mods + One(Moderates(p, v.part[p]))
      BY <1>2, <2>4, <2>5, Numbers DEF Moderates, One
    <3> QED
      BY <2>2, <2>3, <2>4, <2>5, <2>6, <3>1, <3>2, <3>3 DEF Moved
  <2>8. Good(v) /\ Balance(v) = 0
    <3>1. Due(v.part[p]) = Due(part[p])
      BY <2>4 DEF Due
    <3>2. Net(v) = Net(World)
      <4>1. p = Owner => conf.setup = "creating"
        BY <1>2 DEF Good, OwnerFact, StartThread
      <4> QED
        BY <1>2, <2>3, <2>5, <4>1 DEF Net, Owed, One, Good, Shape
    <3> QED
      BY <1>2, <2>7, <3>1, <3>2, OneMoves, Numbers
  <2>9. Good(Dropped(v, p)) /\ Balance(Dropped(v, p)) = 0
    BY <2>8, Dropping
  <2> QED
    BY <2>1, <2>9, Becoming DEF Sound, Good
<1> QED
  BY <1>4, <1>5 DEF StartThread

\* The roster may take a party that was added, or lose one.
LEMMA RosterMoves ==
    ASSUME NEW w, NEW v, Good(w), v.conf = w.conf, v.part = w.part, v.cmd = w.cmd,
           v.end = w.end, DOMAIN v = DOMAIN w, v.roster \in Seq(Parties),
           \A n \in DOMAIN v.roster : w.part[v.roster[n]].life # "none"
    PROVE  Good(v) /\ Balance(v) = Balance(w)
<1>1. Shape(v)
  BY DEF Good, Shape
<1>2. Known(v.part, v.roster, v.cmd)
  BY DEF Good, Known
<1> QED
  BY <1>1, <1>2 DEF Good, Surplus, Balance

LEMMA AddToListKeeps ==
    ASSUME IInv, NEW p \in Parties, AddToList(p)
    PROVE  IInv'
<1> USE Fields
<1>1. conf.state = "up" /\ ~Fresh(World)
  BY DEF AddToList, Become, CanStep, Fresh, Untouched
<1>2. Good(World) /\ Shape(World) /\ Balance(World) = 0
  BY <1>1, Starting
<1>3. DOMAIN part[p] = DOMAIN NewParty /\ DOMAIN part = Parties /\ roster \in Seq(Parties)
  BY <1>2 DEF Shape
<1> DEFINE u == [World EXCEPT !.part[p].adding = "listed"]
           v == [World EXCEPT !.part[p].adding = "listed", !.roster = Append(@, p)]
<1>4. /\ u.cmd = cmd /\ u.end = end /\ u.roster = roster /\ u.conf = conf
      /\ \A q \in Parties \ {p} : u.part[q] = part[q]
      /\ u.part[p] = [part[p] EXCEPT !.adding = "listed"]
      /\ DOMAIN u = DOMAIN Nobody /\ DOMAIN u.part = Parties
  BY <1>3 DEF Nobody
<1>5. /\ v.cmd = u.cmd /\ v.end = u.end /\ v.conf = u.conf /\ v.part = u.part
      /\ v.roster = Append(roster, p) /\ DOMAIN v = DOMAIN u
  BY <1>3 DEF Nobody
<1>6. Become(v)
  BY DEF AddToList
<1> HIDE DEF u, v
<1>7. DOMAIN u.part[p] = DOMAIN NewParty
  BY <1>3, <1>4
<1>8. Shape(u)
  BY <1>2, <1>4, <1>7 DEF Shape
<1>9. Goes(World, u, p)
  BY <1>3, <1>4, <1>8 DEF Goes, AddToList, SameConf, SameOf, NewParty
<1>10. Good(u) /\ Balance(u) = 0
  BY <1>2, <1>3, <1>4, <1>9, GoingOn DEF NewParty
<1>11. Good(v) /\ Balance(v) = 0
  <2>1. u.part[p].life # "none"
    BY <1>2, <1>3, <1>4 DEF Good, PartyFacts, PartyFact, AddToList, NewParty
  <2>2. \A n \in DOMAIN roster : u.part[roster[n]].life # "none"
    BY <1>4, <1>10 DEF Good, Known
  <2>3. \A n \in DOMAIN v.roster :
            v.roster[n] = p \/ (n \in DOMAIN roster /\ v.roster[n] = roster[n])
    BY <1>3, <1>5
  <2>4. v.roster \in Seq(Parties)
    BY <1>3, <1>5
  <2>5. \A n \in DOMAIN v.roster : u.part[v.roster[n]].life # "none"
    BY <2>1, <2>2, <2>3
  <2> QED
    BY <1>5, <1>10, <2>4, <2>5, RosterMoves
<1> QED
  BY <1>6, <1>11, Becoming DEF Sound, Good

\* The phone is a moderator from then on only if it is the owner, who counted as
\* one already.
LEMMA AttachPhoneKeeps ==
    ASSUME IInv, NEW p \in Parties, AttachPhone(p)
    PROVE  IInv'
<1> USE Fields
<1>1. conf.state = "up" /\ ~Fresh(World)
  BY DEF AttachPhone, Become, CanStep, Fresh, Untouched
<1>2. Good(World) /\ Shape(World) /\ Balance(World) = 0
  BY <1>1, Starting
<1>3. DOMAIN part[p] = DOMAIN NewParty /\ DOMAIN part = Parties
  BY <1>2 DEF Shape
<1>4. part[p].adding = "listed" /\ part[p].life # "none" /\ ~part[p].chan
  BY <1>2 DEF AttachPhone, Good, PartyFacts, PartyFact
<1> DEFINE added == [World EXCEPT !.part[p].adding = "no"]
           taken == [added EXCEPT !.part[p].chan = TRUE, !.part[p].phone = TRUE]
           held == Retain(taken)
           made == [held EXCEPT !.part[p].mod = TRUE, !.part[p].list = ShowList,
                                !.conf.setup = "created"]
           v == CASE p = Owner -> made [] p \in Phones \ {Owner} -> held [] OTHER -> added
<1>5. Become(Dropped(v, p))
  BY DEF AttachPhone
<1>7. /\ added.cmd = cmd /\ added.end = end /\ added.roster = roster /\ added.conf = conf
      /\ \A q \in Parties \ {p} : added.part[q] = part[q]
      /\ added.part[p] = [part[p] EXCEPT !.adding = "no"]
      /\ DOMAIN added = DOMAIN Nobody /\ DOMAIN added.part = Parties
  BY <1>3 DEF Nobody
<1>8. /\ held.cmd = cmd /\ held.end = end /\ held.roster = roster
      /\ held.conf = [conf EXCEPT !.refs = conf.refs + 1]
      /\ \A q \in Parties \ {p} : held.part[q] = part[q]
      /\ held.part[p] = [part[p] EXCEPT !.adding = "no", !.chan = TRUE, !.phone = TRUE]
      /\ DOMAIN held = DOMAIN Nobody /\ DOMAIN held.part = Parties
  BY <1>3 DEF Nobody, Retain
<1> HIDE DEF added, held
<1>9. /\ made.cmd = cmd /\ made.end = end /\ made.roster = roster
      /\ made.conf = [held.conf EXCEPT !.setup = "created"]
      /\ \A q \in Parties \ {p} : made.part[q] = part[q]
      /\ made.part[p] = [held.part[p] EXCEPT !.mod = TRUE, !.list = ShowList]
      /\ DOMAIN made = DOMAIN Nobody /\ DOMAIN made.part = Parties
  BY <1>8 DEF Nobody
<1> HIDE DEF made
<1> DEFINE Parts(x, attached) ==
        /\ x.cmd = cmd /\ x.end = end /\ x.roster = roster
        /\ \A q \in Parties \ {p} : x.part[q] = part[q]
        /\ DOMAIN x = DOMAIN Nobody /\ DOMAIN x.part = Parties
        /\ DOMAIN x.part[p] = DOMAIN NewParty
        /\ x.part[p].life = part[p].life /\ x.part[p].adding = "no"
        /\ x.part[p].thread = part[p].thread /\ x.part[p].joining = part[p].joining
        /\ x.part[p].dev = part[p].dev /\ x.part[p].chan = attached
        /\ p # Owner => x.part[p].mod = part[p].mod
    Counts(x, attached) ==
        /\ x.conf.refs = conf.refs + One(attached) /\ x.conf.mods = conf.mods
        /\ x.conf.listed = conf.listed /\ x.conf.finishing = conf.finishing
        /\ x.conf.lost = conf.lost /\ DOMAIN x.conf = DOMAIN NoConference
        /\ x.conf.setup = IF p = Owner THEN "created" ELSE conf.setup
<1>a. p \notin Phones => Parts(added, part[p].chan) /\ Counts(added, FALSE)
  <2>1. Parts(added, part[p].chan)
    BY <1>3, <1>7 DEF NewParty
  <2>2. p \notin Phones => Counts(added, FALSE)
    BY <1>2, <1>7, ConferenceAssumption DEF Shape, One, ConferenceAssumption
  <2> QED
    BY <2>1, <2>2
<1>b. Parts(held, TRUE) /\ (p # Owner => Counts(held, TRUE))
  BY <1>2, <1>3, <1>8 DEF NewParty, NoConference, Shape, One
<1>c. p = Owner => Parts(made, TRUE) /\ Counts(made, TRUE)
  <2>1. p = Owner => Parts(made, TRUE)
    BY <1>b, <1>9 DEF NewParty
  <2>2. p = Owner => Counts(made, TRUE)
    BY <1>2, <1>8, <1>9 DEF NoConference, Shape, One
  <2> QED
    BY <2>1, <2>2
<1>d. /\ p \in Phones => Parts(v, TRUE) /\ Counts(v, TRUE)
      /\ p \notin Phones => Parts(v, part[p].chan) /\ Counts(v, FALSE)
  <2>1. p = Owner => v = made
    OBVIOUS
  <2>2. p \in Phones /\ p # Owner => v = held
    OBVIOUS
  <2>3. p \notin Phones => v = added
    BY ConferenceAssumption DEF ConferenceAssumption
  <2> HIDE DEF v, Parts, Counts
  <2> QED
    BY <1>a, <1>b, <1>c, <2>1, <2>2, <2>3, ConferenceAssumption DEF ConferenceAssumption
<1> HIDE DEF v
<1>10. /\ v.cmd = cmd /\ v.end = end /\ v.roster = roster
       /\ \A q \in Parties \ {p} : v.part[q] = part[q]
       /\ DOMAIN v = DOMAIN Nobody /\ DOMAIN v.part = Parties
       /\ DOMAIN v.part[p] = DOMAIN NewParty
       /\ v.part[p].life = part[p].life /\ v.part[p].adding = "no"
       /\ v.part[p].thread = part[p].thread /\ v.part[p].joining = part[p].joining
       /\ v.part[p].dev = part[p].dev
       /\ p \in Phones => v.part[p].chan
       /\ p \notin Phones => ~v.part[p].chan
       /\ p # Owner => (v.part[p].mod <=> part[p].mod)
  BY <1>4, <1>d
<1>11. /\ v.conf.refs = conf.refs + One(p \in Phones) /\ v.conf.mods = conf.mods
       /\ v.conf.listed = conf.listed /\ v.conf.finishing = conf.finishing
       /\ v.conf.lost = conf.lost /\ DOMAIN v.conf = DOMAIN NoConference
       /\ v.conf.setup = IF p = Owner THEN "created" ELSE conf.setup
  BY <1>d DEF One
<1> HIDE DEF Parts, Counts
<1>12. Shape(v)
  BY <1>2, <1>10, <1>11 DEF Shape, One
<1>13. Moved(World, v, p)
  <2>1. p = Owner => v.conf.setup # "no" /\ OwnerFact(v.conf, v.part[p])
    BY <1>4, <1>10, <1>11 DEF OwnerFact
  <2>2. PartyFact(v.part[p]) /\ (end[p] # "no" => v.part[p].thread = "ending")
    BY <1>2, <1>4, <1>10 DEF Good, PartyFacts, PartyFact, EndFacts
  <2>3. v.conf.mods + One(Moderates(p, part[p])) >= conf.mods + One(Moderates(p, v.part[p]))
    BY <1>2, <1>4, <1>10, <1>11, Numbers DEF Moderates, One
  <2> QED
    BY <1>4, <1>10, <1>11, <1>12, <2>1, <2>2, <2>3 DEF Moved
<1>14. Good(v) /\ Balance(v) = 0
  <2>1. Due(v.part[p]) = Due(part[p]) + One(p \in Phones)
    BY <1>4, <1>10 DEF Due, One
  <2>2. Net(v) = Net(World) + One(p \in Phones)
    <3>1. p = Owner => conf.setup = "creating"
      BY <1>2, <1>4 DEF Good, OwnerFact
    <3>2. Owed(v.conf, v.cmd) = Owed(conf, cmd)
      BY <1>10, <1>11, <3>1 DEF Owed, One
    <3>3. Owed(conf, cmd) \in Int /\ conf.refs \in Int
      BY <1>2 DEF Shape, Owed, One
    <3> QED
      BY <1>11, <3>2, <3>3 DEF Net, One
  <2> QED
    BY <1>2, <1>13, <2>1, <2>2, OneMoves, Numbers DEF One
<1>15. Good(Dropped(v, p)) /\ Balance(Dropped(v, p)) = 0
  BY <1>14, Dropping
<1> QED
  BY <1>5, <1>15, Becoming DEF Sound, Good

\* Before the conference is created nobody holds it.
LEMMA NobodyHolds ==
    ASSUME Fresh(World)
    PROVE  Holders(part) = 0 /\ Cardinality(Moderating(part)) = 0
<1> USE Fields
<1>1. /\ Alive(part) = {} /\ OnCall(part) = {} /\ OnDevice(part) = {} /\ Joins(part) = {}
      /\ Moderating(part) = {}
  BY DEF Fresh, Untouched, Alive, OnCall, OnDevice, Joins, Moderating, Moderates
<1> QED
  BY <1>1, FS_EmptySet DEF Holders

LEMMA CreateKeeps ==
    ASSUME IInv, Create
    PROVE  IInv'
<1> USE Fields
<1>1. Fresh(World) /\ Shape(World)
  BY DEF Create, Become, CanStep, IInv, Sound, Good
<1>2. DOMAIN part[Owner] = DOMAIN NewParty /\ DOMAIN part = Parties /\ Owner \in Parties
  BY <1>1, ConferenceAssumption DEF Shape, ConferenceAssumption
<1> DEFINE made == [World EXCEPT !.conf.setup = "creating", !.conf.listed = TRUE,
                                 !.conf.refs = 2, !.conf.bridge = TRUE]
           v == [CreateParticipant(made, Owner) EXCEPT !.conf.mods = 1,
                                                       !.part[Owner].phone = TRUE]
<1>3. Become(v)
  BY DEF Create
<1>4. /\ made.cmd = Idle /\ made.end = end /\ made.roster = <<>> /\ made.part = part
      /\ DOMAIN made = DOMAIN Nobody
      /\ made.conf.setup = "creating" /\ made.conf.listed = TRUE /\ made.conf.refs = 2
      /\ made.conf.lost = 0 /\ made.conf.finishing = 0
      /\ DOMAIN made.conf = DOMAIN NoConference
  BY <1>1 DEF Nobody, Shape, NoConference, Fresh
<1> HIDE DEF made
<1> DEFINE u == [made EXCEPT !.part[Owner].life = "alive",
                             !.part[Owner].id = Len(made.roster) + 1,
                             !.part[Owner].adding = "made", !.part[Owner].mute = MuteOnEntry,
                             !.part[Owner].wish = MuteOnEntry]
           r == Retain(u)
<1>a. /\ u.cmd = Idle /\ u.end = end /\ u.roster = <<>> /\ DOMAIN u = DOMAIN Nobody
      /\ u.conf = made.conf /\ \A q \in Parties \ {Owner} : u.part[q] = part[q]
      /\ DOMAIN u.part = Parties
      /\ u.part[Owner].life = "alive" /\ u.part[Owner].adding = "made"
      /\ u.part[Owner].thread = part[Owner].thread /\ u.part[Owner].mod = part[Owner].mod
      /\ u.part[Owner].chan = part[Owner].chan /\ u.part[Owner].dev = part[Owner].dev
      /\ u.part[Owner].joining = part[Owner].joining
      /\ DOMAIN u.part[Owner] = DOMAIN NewParty
  BY <1>2, <1>4 DEF Nobody, NewParty
<1>b. v = [r EXCEPT !.conf.mods = 1, !.part[Owner].phone = TRUE]
  BY DEF CreateParticipant
<1> HIDE DEF u
<1>c. /\ r.cmd = Idle /\ r.end = end /\ r.roster = <<>> /\ DOMAIN r = DOMAIN Nobody
      /\ r.part = u.part /\ r.conf = [made.conf EXCEPT !.refs = 3]
  BY <1>4, <1>a DEF Retain, Nobody, NoConference
<1> HIDE DEF r, v
<1>d. /\ v.cmd = Idle /\ v.end = end /\ v.roster = <<>> /\ DOMAIN v = DOMAIN Nobody
      /\ v.conf = [r.conf EXCEPT !.mods = 1]
      /\ \A q \in Parties \ {Owner} : v.part[q] = part[q]
      /\ v.part[Owner] = [u.part[Owner] EXCEPT !.phone = TRUE] /\ DOMAIN v.part = Parties
  BY <1>2, <1>a, <1>b, <1>c DEF Nobody
<1>5. /\ v.conf.setup = "creating" /\ v.conf.listed = TRUE /\ v.conf.refs = 3
      /\ v.conf.lost = 0 /\ v.conf.finishing = 0 /\ v.conf.mods = 1
      /\ DOMAIN v.conf = DOMAIN NoConference
  BY <1>4, <1>c, <1>d DEF NoConference
<1>6. /\ v.part[Owner].life = "alive" /\ v.part[Owner].adding = "made"
      /\ v.part[Owner].thread = part[Owner].thread /\ v.part[Owner].mod = part[Owner].mod
      /\ v.part[Owner].chan = part[Owner].chan /\ v.part[Owner].dev = part[Owner].dev
      /\ v.part[Owner].joining = part[Owner].joining
      /\ DOMAIN v.part[Owner] = DOMAIN NewParty
  BY <1>a, <1>d DEF NewParty
<1>7. Shape(v)
  BY <1>1, <1>d, <1>5, <1>6 DEF Shape
<1>8. PartyFacts(v.part) /\ OwnerFact(v.conf, v.part[Owner]) /\ Known(v.part, v.roster, v.cmd)
  <2>1. PartyFact(v.part[Owner])
    BY <1>1, <1>2, <1>6 DEF Fresh, Untouched, PartyFact
  <2> QED
    BY <1>1, <1>d, <1>5, <1>6, <2>1 DEF Fresh, PartyFacts, OwnerFact, Known
<1>9. EndFacts(v.conf, v.part, v.cmd, v.end)
  BY <1>1, <1>d, <1>5 DEF EndFacts, Fresh, Actors
<1>10. /\ Holders(v.part) = 1 /\ Cardinality(Moderating(v.part)) \in {0, 1}
  <2>1. Due(part[Owner]) = 0 /\ Due(v.part[Owner]) = 1
    BY <1>1, <1>2, <1>6 DEF Fresh, Untouched, Due, One
  <2>2. /\ Holders(v.part) = 1
        /\ Cardinality(Moderating(v.part)) = 0 - One(Moderates(Owner, part[Owner]))
             + One(Moderates(Owner, v.part[Owner]))
        /\ Cardinality(Moderating(v.part)) \in Nat
    <3>1. \A q \in Parties \ {Owner} : v.part[q] = part[q]
      BY <1>d
    <3>2. /\ Holders(v.part) = Holders(part) - Due(part[Owner]) + Due(v.part[Owner])
          /\ Cardinality(Moderating(v.part)) \in Nat
          /\ Cardinality(Moderating(v.part)) = Cardinality(Moderating(part))
                - One(Moderates(Owner, part[Owner])) + One(Moderates(Owner, v.part[Owner]))
      BY ONLY <1>2, <3>1, OnePartyChanges
    <3> QED
      BY <1>1, <2>1, <3>2, NobodyHolds
  <2> QED
    BY <2>2 DEF One
<1>11. Sound(v)
  <2>1. Owed(v.conf, v.cmd) = 2
    BY <1>d, <1>5 DEF Owed, One
  <2>2. Balance(v) = 0 /\ Surplus(v) >= 0
    BY <1>5, <1>10, <2>1 DEF Balance, Surplus
  <2> QED
    BY <1>d, <1>5, <1>7, <1>8, <1>9, <2>2 DEF Sound, Good
<1> QED
  BY <1>3, <1>7, <1>11, Becoming

\* A party other than the owner is made: it holds one more reference.
LEMMA CreatingParticipant ==
    ASSUME NEW w, NEW p \in Parties, NEW m \in Nat, Good(w), Balance(w) = m,
           w.part[p].life = "none"
    PROVE  LET v == CreateParticipant(w, p)
           IN  /\ Good(v) /\ Balance(v) = m
               /\ \A q \in Parties : v.part[q].joining = w.part[q].joining
<1> DEFINE u == [w EXCEPT !.part[p].life = "alive", !.part[p].id = Len(w.roster) + 1,
                          !.part[p].adding = "made", !.part[p].mute = MuteOnEntry,
                          !.part[p].wish = MuteOnEntry]
<1>1. CreateParticipant(w, p) = Retain(u)
  BY DEF CreateParticipant
<1>2. DOMAIN w.part[p] = DOMAIN NewParty /\ DOMAIN w.part = Parties /\ p # Owner
  BY DEF Good, Shape, OwnerFact
<1>3. /\ u.cmd = w.cmd /\ u.end = w.end /\ u.roster = w.roster /\ u.conf = w.conf
      /\ \A q \in Parties \ {p} : u.part[q] = w.part[q]
      /\ DOMAIN u = DOMAIN Nobody /\ DOMAIN u.part = Parties
      /\ u.part[p].life = "alive" /\ u.part[p].adding = "made"
      /\ u.part[p].thread = w.part[p].thread /\ u.part[p].mod = w.part[p].mod
      /\ u.part[p].chan = w.part[p].chan /\ u.part[p].dev = w.part[p].dev
      /\ u.part[p].joining = w.part[p].joining
      /\ DOMAIN u.part[p] = DOMAIN NewParty
  BY <1>2 DEF Good, Shape, Nobody, NewParty
<1> HIDE DEF u
<1>4. Shape(u)
  BY <1>3 DEF Good, Shape
<1>5. PartyFact(w.part[p]) /\ (w.end[p] # "no" => w.part[p].thread = "ending")
  BY DEF Good, PartyFacts, EndFacts
<1>6. Moved(w, u, p)
  <2>1. One(Moderates(p, w.part[p])) = 0 /\ One(Moderates(p, u.part[p])) = 0
    BY <1>2, <1>3, <1>5 DEF Moderates, One, PartyFact
  <2>2. PartyFact(u.part[p])
    BY <1>3, <1>5 DEF PartyFact
  <2> QED
    BY <1>2, <1>3, <1>4, <1>5, <2>1, <2>2, Numbers DEF Moved
<1>7. Good(u) /\ Balance(u) = m - 1
  <2>1. Due(u.part[p]) = Due(w.part[p]) + 1
    BY <1>3 DEF Due, One
  <2>2. Net(u) = Net(w)
    BY <1>3 DEF Net
  <2> QED
    BY <1>6, <2>1, <2>2, OneMoves, Numbers
<1>8. \A q \in Parties : u.part[q].joining = w.part[q].joining
  BY <1>3
<1>9. Good(Retain(u)) /\ Balance(Retain(u)) = Balance(u) + 1 /\ Retain(u).part = u.part
  BY <1>7, Retaining
<1> QED
  BY <1>1, <1>7, <1>8, <1>9

LEMMA Crashing ==
    ASSUME NEW w, Shape(w)
    PROVE  Shape(Crash(w)) /\ Crash(w).conf.state = "crashed"
<1> DEFINE v == Crash(w)
<1>1. /\ v.cmd = w.cmd /\ v.end = w.end /\ v.roster = w.roster /\ v.part = w.part
      /\ v.conf = [w.conf EXCEPT !.state = "crashed"] /\ DOMAIN v = DOMAIN w
  BY DEF Crash, Shape, Nobody
<1> HIDE DEF v
<1>2. /\ v.conf.refs = w.conf.refs /\ v.conf.mods = w.conf.mods /\ v.conf.lost = w.conf.lost
      /\ v.conf.finishing = w.conf.finishing /\ v.conf.state = "crashed"
      /\ DOMAIN v.conf = DOMAIN NoConference
  BY <1>1 DEF Shape, NoConference
<1> QED
  BY <1>1, <1>2 DEF v, Shape

\* What a phone shows and what was asked for it.
Shows(w, v, p) ==
    /\ v.conf = w.conf /\ v.cmd = w.cmd /\ v.end = w.end /\ v.roster = w.roster
    /\ DOMAIN v = DOMAIN w /\ DOMAIN v.part = DOMAIN w.part
    /\ \A q \in Parties \ {p} : v.part[q] = w.part[q]
    /\ DOMAIN v.part[p] = DOMAIN NewParty /\ SameOf(w.part[p], v.part[p])

LEMMA Cosmetic ==
    ASSUME NEW w, NEW v, NEW p \in Parties, Shape(w), Shows(w, v, p)
    PROVE  Alike(w, v)
  BY DEF Alike, Shape, SameConf, SameOf, Shows

LEMMA AddHeldCallKeeps ==
    ASSUME IInv, NEW p \in Parties, AddHeldCall(p)
    PROVE  IInv'
<1> USE Fields
<1>1. conf.state = "up" /\ ~Fresh(World)
  BY DEF AddHeldCall, Become, CanStep, Fresh
<1>2. Good(World) /\ Shape(World) /\ Balance(World) = 0
  BY <1>1, Starting
<1>3. CASE part[Owner].dev
  <2>1. Become(CreateParticipant(World, p))
    BY <1>3 DEF AddHeldCall
  <2>2. Good(CreateParticipant(World, p)) /\ Balance(CreateParticipant(World, p)) = 0
    BY <1>2, CreatingParticipant DEF AddHeldCall
  <2> QED
    BY <2>1, <2>2, Becoming DEF Sound, Good
<1>4. CASE ~part[Owner].dev
  <2>1. Become(Crash(World))
    BY <1>4 DEF AddHeldCall
  <2> QED
    BY <1>2, <2>1, Crashing, Becoming
<1> QED
  BY <1>3, <1>4

LEMMA ConferenceCreatedKeeps ==
    ASSUME IInv, ConferenceCreated
    PROVE  IInv'
<1> USE Fields
<1>1. conf.state = "up" /\ ~Fresh(World) /\ conf.setup = "created"
  BY DEF ConferenceCreated, Become, CanStep, Fresh
<1>2. Good(World) /\ Shape(World) /\ Balance(World) = 0
  BY <1>1, Starting
<1>3. DOMAIN part[Owner] = DOMAIN NewParty /\ DOMAIN part = Parties /\ Owner \in Parties
  BY <1>2, ConferenceAssumption DEF Shape, ConferenceAssumption
<1> DEFINE u == [World EXCEPT !.conf.setup = "adding"]
           v == PointDevice(u, Owner)
<1>4. Become(v)
  BY DEF ConferenceCreated
<1>5. /\ u.cmd = cmd /\ u.end = end /\ u.roster = roster /\ u.part = part
      /\ u.conf = [conf EXCEPT !.setup = "adding"] /\ DOMAIN u = DOMAIN Nobody
  BY DEF Nobody
<1> HIDE DEF u
<1>6. /\ v.cmd = cmd /\ v.end = end /\ v.roster = roster /\ DOMAIN v = DOMAIN Nobody
      /\ v.conf = [u.conf EXCEPT !.lost = u.conf.lost + One(part[Owner].dev)]
      /\ v.part[Owner] = [part[Owner] EXCEPT !.dev = TRUE] /\ DOMAIN v.part = Parties
      /\ \A q \in Parties \ {Owner} : v.part[q] = part[q]
  BY <1>3, <1>5 DEF PointDevice, Nobody, One
<1> HIDE DEF v
<1>7. /\ v.conf.setup = "adding" /\ v.conf.listed = conf.listed /\ v.conf.refs = conf.refs
      /\ v.conf.mods = conf.mods /\ v.conf.finishing = conf.finishing
      /\ v.conf.lost = conf.lost + One(part[Owner].dev)
      /\ DOMAIN v.conf = DOMAIN NoConference
  BY <1>2, <1>5, <1>6 DEF Shape, NoConference
<1>8. /\ v.part[Owner].life = part[Owner].life /\ v.part[Owner].adding = part[Owner].adding
      /\ v.part[Owner].thread = part[Owner].thread /\ v.part[Owner].mod = part[Owner].mod
      /\ v.part[Owner].chan = part[Owner].chan /\ v.part[Owner].dev = TRUE
      /\ v.part[Owner].joining = part[Owner].joining
      /\ DOMAIN v.part[Owner] = DOMAIN NewParty
  BY <1>3, <1>6 DEF NewParty
<1>9. Shape(v)
  BY <1>2, <1>6, <1>7, <1>8 DEF Shape, One
<1>10. Moved(World, v, Owner)
  <2>1. OwnerFact(v.conf, v.part[Owner])
    BY <1>1, <1>2, <1>8 DEF Good, OwnerFact
  <2>2. PartyFact(part[Owner]) /\ (end[Owner] # "no" => part[Owner].thread = "ending")
    BY <1>2, <1>3 DEF Good, PartyFacts, EndFacts
  <2>3. PartyFact(v.part[Owner]) /\ (end[Owner] # "no" => v.part[Owner].thread = "ending")
    BY <1>8, <2>2 DEF PartyFact
  <2>4. v.conf.mods + One(Moderates(Owner, part[Owner]))
            >= conf.mods + One(Moderates(Owner, v.part[Owner]))
    BY <1>2, <1>7, <1>8, Numbers DEF Moderates
  <2> QED
    BY <1>6, <1>7, <1>8, <1>9, <2>1, <2>3, <2>4 DEF Moved
<1>11. Good(v) /\ Balance(v) = 0
  <2>1. Due(v.part[Owner]) = Due(part[Owner]) + 1 - One(part[Owner].dev)
    BY <1>8 DEF Due, One
  <2>2. Net(v) = Net(World) + 1 - One(part[Owner].dev)
    BY <1>1, <1>2, <1>6, <1>7 DEF Net, Owed, One, Good, Shape
  <2> QED
    BY <1>2, <1>3, <1>10, <2>1, <2>2, OneMoves, Numbers DEF One
<1> QED
  BY <1>4, <1>11, Becoming DEF Sound, Good

LEMMA ConferenceStartedKeeps ==
    ASSUME IInv, ConferenceStarted
    PROVE  IInv'
<1> USE Fields
<1>1. conf.state = "up" /\ ~Fresh(World) /\ conf.setup = "adding"
  BY DEF ConferenceStarted, Become, CanStep, Fresh
<1>2. Good(World) /\ Shape(World) /\ Balance(World) = 0
  BY <1>1, Starting
<1>3. CASE part[Owner].dev
  <2> DEFINE v == [World EXCEPT !.conf.setup = "done"]
  <2>1. Become(UpdateList(v))
    BY <1>3 DEF ConferenceStarted
  <2>2. /\ v.cmd = cmd /\ v.end = end /\ v.roster = roster /\ v.part = part
        /\ v.conf = [conf EXCEPT !.setup = "done"] /\ DOMAIN v = DOMAIN Nobody
    BY DEF Nobody
  <2> HIDE DEF v
  <2>3. /\ v.conf.setup = "done" /\ v.conf.listed = conf.listed /\ v.conf.refs = conf.refs
        /\ v.conf.mods = conf.mods /\ v.conf.finishing = conf.finishing
        /\ v.conf.lost = conf.lost /\ DOMAIN v.conf = DOMAIN NoConference
    BY <1>2, <2>2 DEF Shape, NoConference
  <2>4. Shape(v)
    BY <1>2, <2>2, <2>3 DEF Shape
  <2>5. part[Owner].life # "none" /\ part[Owner].adding = "no"
    BY <1>1, <1>2 DEF Good, OwnerFact
  <2>6. Good(v)
    BY <1>2, <2>2, <2>3, <2>4, <2>5 DEF Good, OwnerFact, EndFacts, Surplus
  <2>7. Balance(v) = 0
    <3>1. Owed(v.conf, v.cmd) = Owed(conf, cmd)
      BY <1>1, <2>2, <2>3 DEF Owed
    <3> QED
      BY <1>2, <2>2, <2>3, <3>1 DEF Balance
  <2>8. Good(UpdateList(v)) /\ Balance(UpdateList(v)) = 0
    BY <2>4, <2>6, <2>7, ListIsAlike, AlikeKeeps
  <2> QED
    BY <2>1, <2>8, Becoming DEF Sound, Good
<1>4. CASE ~part[Owner].dev
  <2>1. Become(Crash(World))
    BY <1>4 DEF ConferenceStarted
  <2> QED
    BY <1>2, <2>1, Crashing, Becoming
<1> QED
  BY <1>3, <1>4

----------------------------------------------------------------------------
(* Join, hold and resume *)

LEMMA JoiningMoves ==
    ASSUME NEW w, NEW d \in Parties, NEW x, Good(w)
    PROVE  /\ Good([w EXCEPT !.part[d].joining = x])
           /\ Balance([w EXCEPT !.part[d].joining = x])
                = Balance(w) + One(w.part[d].joining # NoParty) - One(x # NoParty)
<1> DEFINE v == [w EXCEPT !.part[d].joining = x]
<1>1. DOMAIN w.part[d] = DOMAIN NewParty /\ DOMAIN w.part = Parties
  BY DEF Good, Shape
<1>2. /\ v.cmd = w.cmd /\ v.end = w.end /\ v.roster = w.roster /\ v.conf = w.conf
      /\ \A q \in Parties \ {d} : v.part[q] = w.part[q]
      /\ DOMAIN v = DOMAIN Nobody /\ DOMAIN v.part = Parties
      /\ v.part[d].life = w.part[d].life /\ v.part[d].adding = w.part[d].adding
      /\ v.part[d].thread = w.part[d].thread /\ v.part[d].mod = w.part[d].mod
      /\ v.part[d].chan = w.part[d].chan /\ v.part[d].dev = w.part[d].dev
      /\ v.part[d].joining = x /\ DOMAIN v.part[d] = DOMAIN NewParty
  BY <1>1 DEF Good, Shape, Nobody, NewParty
<1> HIDE DEF v
<1>3. Moved(w, v, d)
  <2>1. Shape(v)
    BY <1>2 DEF Good, Shape
  <2>2. PartyFact(w.part[d]) /\ (w.end[d] # "no" => w.part[d].thread = "ending")
    BY DEF Good, PartyFacts, EndFacts
  <2>3. PartyFact(v.part[d])
    BY <1>2, <2>2 DEF PartyFact
  <2>4. d = Owner => v.conf.setup # "no" /\ OwnerFact(v.conf, v.part[d])
    BY <1>2 DEF Good, OwnerFact
  <2>5. v.conf.mods + One(Moderates(d, w.part[d])) >= w.conf.mods + One(Moderates(d, v.part[d]))
    <3>1. Moderates(d, v.part[d]) <=> Moderates(d, w.part[d])
      BY <1>2 DEF Moderates
    <3> QED
      BY <1>2, <3>1, Numbers DEF One
  <2> QED
    BY <1>2, <2>1, <2>2, <2>3, <2>4, <2>5 DEF Moved
<1>4. Net(v) = Net(w)
  BY <1>2 DEF Net
<1>5. Due(v.part[d]) = Due(w.part[d]) - One(w.part[d].joining # NoParty) + One(x # NoParty)
  BY <1>2 DEF Due, One
<1>6. Good(v) /\ Balance(v) = Balance(w) + One(w.part[d].joining # NoParty)
                               - One(x # NoParty)
  <2>1. Balance(w) \in Int
    BY OnePartyChanges, Numbers DEF Balance, Net, Good, Shape, Owed, One
  <2> QED
    BY <1>3, <1>4, <1>5, <2>1, OneMoves, Numbers DEF One
<1> QED
  BY <1>6 DEF v

LEMMA JoinKeeps ==
    ASSUME IInv, NEW d \in Phones, NEW p \in Parties, Join(d, p)
    PROVE  IInv'
<1> USE Fields
<1>1. conf.state = "up" /\ ~Fresh(World)
  BY DEF Join, Become, CanStep, Fresh
<1>2. Good(World) /\ Shape(World) /\ Balance(World) = 0 /\ d \in Parties
  BY <1>1, Starting, ConferenceAssumption DEF ConferenceAssumption
<1> DEFINE kept == Retain(World)
           held == ConferenceHold(kept)
           made == CreateParticipant(held, p)
           v == [made EXCEPT !.part[d].joining = p]
<1>3. Become(v) /\ part[p].life = "none" /\ part[d].joining = NoParty
  BY DEF Join
<1>4. Good(kept) /\ Balance(kept) = 1 /\ kept.part = part
  <2>1. Good(kept) /\ Balance(kept) = Balance(World) + 1 /\ kept.part = World.part
    BY <1>2, Retaining
  <2> QED
    BY <1>2, <2>1
<1> HIDE DEF kept
<1>5. Alike(kept, held)
  <2>1. Shape(kept)
    BY <1>4 DEF Good
  <2> QED
    BY <2>1, HoldIsAlike
<1> HIDE DEF held
<1>6. Good(held) /\ Balance(held) = 1
  BY <1>4, <1>5, AlikeKeeps
<1>7. held.part[p].life = "none" /\ held.part[d].joining = NoParty
  BY <1>2, <1>3, <1>4, <1>5 DEF Alike, SameOf
<1>8. Good(made) /\ Balance(made) = 1 /\ made.part[d].joining = NoParty
  BY <1>2, <1>6, <1>7, CreatingParticipant
<1> HIDE DEF made
<1>9. Good(v) /\ Balance(v) = 0
  <2>1. p # NoParty
    BY ConferenceAssumption DEF ConferenceAssumption
  <2>2. Good(v) /\ Balance(v) = Balance(made) + One(made.part[d].joining # NoParty)
                                  - One(p # NoParty)
    BY <1>2, <1>8, JoiningMoves
  <2> QED
    BY <1>8, <2>1, <2>2 DEF One
<1> QED
  BY <1>3, <1>9, Becoming DEF Sound, Good

\* The phone's call, whether it is on hold there or not.
LEMMA AwayIsAlike ==
    ASSUME NEW w, NEW d \in Parties, NEW b, Shape(w)
    PROVE  Alike(w, [w EXCEPT !.part[d].away = b])
<1> DEFINE v == [w EXCEPT !.part[d].away = b]
<1>1. DOMAIN w.part[d] = DOMAIN NewParty /\ DOMAIN w.part = Parties
  BY DEF Shape
<1>2. /\ v.cmd = w.cmd /\ v.end = w.end /\ v.roster = w.roster /\ v.conf = w.conf
      /\ \A q \in Parties \ {d} : v.part[q] = w.part[q]
      /\ v.part[d] = [w.part[d] EXCEPT !.away = b]
      /\ DOMAIN v = DOMAIN w /\ DOMAIN v.part = DOMAIN w.part
  BY <1>1 DEF Shape, Nobody
<1> HIDE DEF v
<1>3. DOMAIN v.part[d] = DOMAIN NewParty /\ SameOf(w.part[d], v.part[d])
  BY <1>1, <1>2 DEF SameOf, NewParty
<1>4. Alike(w, v)
  <2>1. Shows(w, v, d)
    BY <1>2, <1>3 DEF Shows
  <2> QED
    BY <2>1, Cosmetic
<1> QED
  BY <1>4 DEF v

LEMMA JoinedKeeps ==
    ASSUME IInv, NEW d \in Phones, Joined(d)
    PROVE  IInv'
<1> USE Fields
<1>1. conf.state = "up" /\ ~Fresh(World) /\ d \in Parties
  BY ConferenceAssumption
     DEF Joined, Become, CanStep, Fresh, Untouched, ConferenceAssumption
<1>2. Good(World) /\ Shape(World) /\ Balance(World) = 0
  BY <1>1, Starting
<1> DEFINE back == IF part[d].chan THEN [ConferenceResume(World) EXCEPT !.part[d].away = FALSE]
                   ELSE World
           v == [back EXCEPT !.part[d].joining = NoParty]
<1>3. Become(Release(v, 1)) /\ part[d].joining # NoParty
  BY DEF Joined
<1>4. Alike(World, back)
  <2>1. Alike(World, World)
    BY <1>2 DEF Alike, SameOf, SameConf
  <2>2. Alike(World, ConferenceResume(World)) /\ Shape(ConferenceResume(World))
    BY <1>2, HoldIsAlike DEF Alike
  <2>3. Alike(World, [ConferenceResume(World) EXCEPT !.part[d].away = FALSE])
    BY <1>1, <2>2, AwayIsAlike, AlikeComposes
  <2> QED
    BY <2>1, <2>3
<1> HIDE DEF back
<1>5. Good(back) /\ Balance(back) = 0 /\ back.part[d].joining # NoParty
  BY <1>1, <1>2, <1>3, <1>4, AlikeKeeps DEF Alike, SameOf
<1>6. Good(v) /\ Balance(v) = 1
  <2>1. Good(v) /\ Balance(v) = Balance(back) + One(back.part[d].joining # NoParty)
                                  - One(NoParty # NoParty)
    BY <1>1, <1>5, JoiningMoves
  <2> QED
    BY <1>5, <2>1 DEF One
<1> HIDE DEF v
<1>7. Good(Release(v, 1)) /\ Balance(Release(v, 1)) = 0
  BY <1>6, Releasing
<1> QED
  BY <1>3, <1>7, Becoming DEF Sound, Good

LEMMA HoldCallKeeps ==
    ASSUME IInv, NEW d \in Phones, HoldCall(d) \/ ResumeCall(d)
    PROVE  IInv'
<1> USE Fields
<1>1. conf.state = "up" /\ ~Fresh(World) /\ d \in Parties
  BY ConferenceAssumption
     DEF HoldCall, ResumeCall, Become, CanStep, Fresh, Untouched, ConferenceAssumption
<1>2. Good(World) /\ Shape(World) /\ Balance(World) = 0
  BY <1>1, Starting
<1>3. ASSUME NEW w, NEW b, Alike(World, w), Become([w EXCEPT !.part[d].away = b])
      PROVE  IInv'
  <2>1. Shape(w)
    BY <1>3 DEF Alike
  <2>2. Alike(World, [w EXCEPT !.part[d].away = b])
    BY <1>1, <1>3, <2>1, AwayIsAlike, AlikeComposes
  <2>3. Good([w EXCEPT !.part[d].away = b]) /\ Balance([w EXCEPT !.part[d].away = b]) = 0
    BY <1>2, <2>2, AlikeKeeps
  <2> QED
    BY <1>3, <2>3, Becoming DEF Sound, Good
<1>4. Alike(World, ConferenceHold(World)) /\ Alike(World, ConferenceResume(World))
  BY <1>2, HoldIsAlike
<1>5. CASE HoldCall(d)
  BY <1>3, <1>4, <1>5 DEF HoldCall
<1>6. CASE ResumeCall(d)
  BY <1>3, <1>4, <1>6 DEF ResumeCall
<1> QED
  BY <1>5, <1>6

----------------------------------------------------------------------------
(* A participant's thread *)

\* The thread moves on; what else of the party changes, nobody counts.
Threads(w, v, p) ==
    /\ v.cmd = w.cmd /\ v.end = w.end /\ v.roster = w.roster /\ DOMAIN v = DOMAIN Nobody
    /\ SameConf(w.conf, v.conf) /\ DOMAIN v.conf = DOMAIN NoConference
    /\ DOMAIN v.part = Parties /\ \A q \in Parties \ {p} : v.part[q] = w.part[q]
    /\ DOMAIN v.part[p] = DOMAIN NewParty
    /\ v.part[p].life = w.part[p].life /\ v.part[p].adding = w.part[p].adding
    /\ v.part[p].mod = w.part[p].mod /\ v.part[p].phone = w.part[p].phone
    /\ v.part[p].chan = w.part[p].chan /\ v.part[p].dev = w.part[p].dev
    /\ v.part[p].joining = w.part[p].joining

LEMMA ThreadGoesOn ==
    ASSUME NEW w, NEW v, NEW p \in Parties, Good(w), Balance(w) = 0, Threads(w, v, p),
           \/ w.part[p].thread \notin {"none", "ending"}
           \/ w.part[p].thread # "none" /\ w.end[p] = "no"
    PROVE  Sound(v)
<1>1. DOMAIN w.part[p] = DOMAIN NewParty
  BY DEF Good, Shape
<1>2. Shape(v)
  BY DEF Good, Shape, SameConf, Threads
<1>3. SameOf([w.part[p] EXCEPT !.thread = v.part[p].thread, !.adding = v.part[p].adding],
             v.part[p])
  BY <1>1 DEF SameOf, NewParty, Threads
<1>4. Goes(w, v, p)
  BY <1>2, <1>3 DEF Goes, Threads
<1>5. Good(v) /\ Balance(v) = Balance(w)
  BY <1>4, GoingOn
<1> QED
  BY <1>5 DEF Sound

LEMMA JoinBridgeKeeps ==
    ASSUME IInv, NEW p \in Parties, JoinBridge(p)
    PROVE  IInv'
<1> USE Fields
<1>1. conf.state = "up" /\ ~Fresh(World)
  BY DEF JoinBridge, Become, CanStep, Fresh, Untouched
<1>2. Good(World) /\ Shape(World) /\ Balance(World) = 0
  BY <1>1, Starting
<1>3. DOMAIN part[p] = DOMAIN NewParty /\ DOMAIN part = Parties
  BY <1>2 DEF Shape
<1>4. PICK t, b : Become([World EXCEPT !.part[p].thread = t, !.part[p].pending = b])
  BY DEF JoinBridge
<1> DEFINE v == [World EXCEPT !.part[p].thread = t, !.part[p].pending = b]
<1>5. /\ v.cmd = cmd /\ v.end = end /\ v.roster = roster /\ v.conf = conf
      /\ \A q \in Parties \ {p} : v.part[q] = part[q]
      /\ DOMAIN v = DOMAIN Nobody /\ DOMAIN v.part = Parties
      /\ v.part[p] = [part[p] EXCEPT !.thread = t, !.pending = b]
  BY <1>3 DEF Nobody
<1>6. Become(v)
  BY <1>4
<1> HIDE DEF v
<1>7. /\ DOMAIN v.part[p] = DOMAIN NewParty
      /\ v.part[p].life = part[p].life /\ v.part[p].adding = part[p].adding
      /\ v.part[p].mod = part[p].mod /\ v.part[p].phone = part[p].phone
      /\ v.part[p].chan = part[p].chan /\ v.part[p].dev = part[p].dev
      /\ v.part[p].joining = part[p].joining
  BY <1>3, <1>5 DEF NewParty
<1>8. part[p].thread \notin {"none", "ending"}
  BY DEF JoinBridge
<1>9. SameConf(conf, v.conf) /\ DOMAIN v.conf = DOMAIN NoConference
  BY <1>2, <1>5 DEF SameConf, Shape
<1>10. Sound(v)
  <2>1. Threads(World, v, p)
    BY <1>5, <1>7, <1>9 DEF Threads
  <2> QED
    BY <1>2, <1>8, <2>1, ThreadGoesOn
<1> QED
  BY <1>6, <1>10, Becoming DEF Sound, Good

LEMMA LeaveBridgeKeeps ==
    ASSUME IInv, NEW p \in Parties, LeaveBridge(p)
    PROVE  IInv'
<1> USE Fields
<1>1. conf.state = "up" /\ ~Fresh(World)
  BY DEF LeaveBridge, Become, CanStep, Fresh, Untouched
<1>2. Good(World) /\ Shape(World) /\ Balance(World) = 0
  BY <1>1, Starting
<1>3. DOMAIN part[p] = DOMAIN NewParty /\ DOMAIN part = Parties
  BY <1>2 DEF Shape
<1>4. PICK b : Become([World EXCEPT !.part[p].thread = "left", !.part[p].pending = TRUE,
                                    !.conf.bridge = b])
  BY DEF LeaveBridge
<1> DEFINE v == [World EXCEPT !.part[p].thread = "left", !.part[p].pending = TRUE,
                              !.conf.bridge = b]
<1>5. /\ v.cmd = cmd /\ v.end = end /\ v.roster = roster
      /\ v.conf = [conf EXCEPT !.bridge = b]
      /\ \A q \in Parties \ {p} : v.part[q] = part[q]
      /\ DOMAIN v = DOMAIN Nobody /\ DOMAIN v.part = Parties
      /\ v.part[p] = [part[p] EXCEPT !.thread = "left", !.pending = TRUE]
  BY <1>3 DEF Nobody
<1>6. Become(v)
  BY <1>4
<1> HIDE DEF v
<1>7. /\ DOMAIN v.part[p] = DOMAIN NewParty
      /\ v.part[p].life = part[p].life /\ v.part[p].adding = part[p].adding
      /\ v.part[p].mod = part[p].mod /\ v.part[p].phone = part[p].phone
      /\ v.part[p].chan = part[p].chan /\ v.part[p].dev = part[p].dev
      /\ v.part[p].joining = part[p].joining
  BY <1>3, <1>5 DEF NewParty
<1>8. part[p].thread \notin {"none", "ending"}
  BY DEF LeaveBridge
<1>9. SameConf(conf, v.conf) /\ DOMAIN v.conf = DOMAIN NoConference
  BY <1>2, <1>5 DEF SameConf, Shape, NoConference
<1>10. Sound(v)
  <2>1. Threads(World, v, p)
    BY <1>5, <1>7, <1>9 DEF Threads
  <2> QED
    BY <1>2, <1>8, <2>1, ThreadGoesOn
<1> QED
  BY <1>6, <1>10, Becoming DEF Sound, Good

LEMMA HangupPeerKeeps ==
    ASSUME IInv, NEW p \in Parties, HangupPeer(p)
    PROVE  IInv'
<1> USE Fields
<1>1. conf.state = "up" /\ ~Fresh(World)
  BY DEF HangupPeer, Become, CanStep, Fresh, Untouched
<1>2. Good(World) /\ Shape(World) /\ Balance(World) = 0
  BY <1>1, Starting
<1>3. DOMAIN part[p] = DOMAIN NewParty /\ DOMAIN part = Parties
  BY <1>2 DEF Shape
<1> DEFINE v == [World EXCEPT !.part[p].thread = "out", !.part[p].hung = TRUE,
                              !.part[p].list = FALSE]
<1>4. Become(IF p \in Phones THEN ReleasePhone(v, p) ELSE v)
  BY DEF HangupPeer
<1>5. /\ v.cmd = cmd /\ v.end = end /\ v.roster = roster /\ v.conf = conf
      /\ \A q \in Parties \ {p} : v.part[q] = part[q]
      /\ DOMAIN v = DOMAIN Nobody /\ DOMAIN v.part = Parties
      /\ v.part[p] = [part[p] EXCEPT !.thread = "out", !.hung = TRUE, !.list = FALSE]
  BY <1>3 DEF Nobody
<1> HIDE DEF v
<1>6. /\ DOMAIN v.part[p] = DOMAIN NewParty
      /\ v.part[p].life = part[p].life /\ v.part[p].adding = part[p].adding
      /\ v.part[p].mod = part[p].mod /\ v.part[p].phone = part[p].phone
      /\ v.part[p].chan = part[p].chan /\ v.part[p].dev = part[p].dev
      /\ v.part[p].joining = part[p].joining
  BY <1>3, <1>5 DEF NewParty
<1>7. part[p].thread \notin {"none", "ending"}
  BY DEF HangupPeer
<1>8. SameConf(conf, v.conf) /\ DOMAIN v.conf = DOMAIN NoConference
  BY <1>2, <1>5 DEF SameConf, Shape
<1>9. Sound(v)
  <2>1. Threads(World, v, p)
    BY <1>5, <1>6, <1>8 DEF Threads
  <2> QED
    BY <1>2, <1>7, <2>1, ThreadGoesOn
<1>10. Good(ReleasePhone(v, p)) /\ Balance(ReleasePhone(v, p)) = 0
  BY <1>9, ReleasingPhone DEF Sound
<1> QED
  BY <1>4, <1>9, <1>10, Becoming DEF Sound, Good

LEMMA Unlinking ==
    ASSUME NEW s \in Seq(Parties), NEW p
    PROVE  /\ Unlink(s, p) \in Seq(Parties)
           /\ \A n \in DOMAIN Unlink(s, p) : \E m \in DOMAIN s : Unlink(s, p)[n] = s[m]
<1>1. CASE Contains(s, p)
  <2> DEFINE i == CHOOSE n \in DOMAIN s : s[n] = p
             t == SubSeq(s, 1, i - 1) \o SubSeq(s, i + 1, Len(s))
  <2>1. i \in DOMAIN s
    BY <1>1 DEF Contains
  <2>2. Unlink(s, p) = t
    BY <1>1 DEF Unlink, RemoveAt
  <2> HIDE DEF i
  <2>3. i \in 1..Len(s) /\ Len(s) \in Nat
    BY <2>1
  <2> DEFINE a == SubSeq(s, 1, i - 1)
             b == SubSeq(s, i + 1, Len(s))
  <2>4. a \in Seq(Parties) /\ Len(a) = i - 1 /\ \A n \in 1..(i - 1) : a[n] = s[n]
    BY <2>3
  <2>5. /\ b \in Seq(Parties) /\ Len(b) = Len(s) - i
        /\ \A n \in 1..(Len(s) - i) : b[n] = s[n + i]
    BY <2>3
  <2>6. t = a \o b
    OBVIOUS
  <2> HIDE DEF a, b, t
  <2>7. t \in Seq(Parties) /\ Len(t) = Len(s) - 1
    BY <2>3, <2>4, <2>5, <2>6
  <2>8. ASSUME NEW n \in DOMAIN t
        PROVE  \E m \in DOMAIN s : t[n] = s[m]
    <3>1. n \in 1..(Len(s) - 1)
      BY <2>7
    <3>2. CASE n <= i - 1
      BY <2>3, <2>4, <2>5, <2>6, <3>1, <3>2
    <3>3. CASE n > i - 1
      <4>1. t[n] = b[n - (i - 1)] /\ n - (i - 1) \in 1..(Len(s) - i)
        BY <2>3, <2>4, <2>5, <2>6, <3>1, <3>3
      <4>2. t[n] = s[(n - (i - 1)) + i] /\ (n - (i - 1)) + i \in DOMAIN s
        BY <2>3, <2>5, <3>1, <4>1
      <4> QED
        BY <4>2
    <3> QED
      BY <2>3, <3>1, <3>2, <3>3
  <2> QED
    BY <2>2, <2>7, <2>8
<1>2. CASE ~Contains(s, p)
  BY <1>2 DEF Unlink
<1> QED
  BY <1>1, <1>2

LEMMA RemoveParticipantKeeps ==
    ASSUME IInv, NEW p \in Parties, RemoveParticipant(p)
    PROVE  IInv'
<1> USE Fields
<1>1. conf.state = "up" /\ ~Fresh(World)
  BY DEF RemoveParticipant, Become, CanStep, Fresh, Untouched
<1>2. Good(World) /\ Shape(World) /\ Balance(World) = 0
  BY <1>1, Starting
<1>3. DOMAIN part[p] = DOMAIN NewParty /\ DOMAIN part = Parties /\ roster \in Seq(Parties)
  BY <1>2 DEF Shape
<1>4. CASE Become(Crash(World))
  BY <1>2, <1>4, Crashing, Becoming
<1>5. CASE Become([World EXCEPT !.roster = Unlink(roster, p),
                                !.part[p].num = Len(Unlink(roster, p)),
                                !.part[p].thread = "decide"])
  <2> DEFINE left == Unlink(roster, p)
             u == [World EXCEPT !.part[p].num = Len(left), !.part[p].thread = "decide"]
             v == [World EXCEPT !.roster = left, !.part[p].num = Len(left),
                                !.part[p].thread = "decide"]
  <2>1. Become(v)
    BY <1>5
  <2>2. /\ left \in Seq(Parties)
        /\ \A n \in DOMAIN left : \E m \in DOMAIN roster : left[n] = roster[m]
    BY <1>3, Unlinking
  <2> HIDE DEF left
  <2>3. /\ u.cmd = cmd /\ u.end = end /\ u.roster = roster /\ u.conf = conf
        /\ \A q \in Parties \ {p} : u.part[q] = part[q]
        /\ DOMAIN u = DOMAIN Nobody /\ DOMAIN u.part = Parties
        /\ u.part[p] = [part[p] EXCEPT !.num = Len(left), !.thread = "decide"]
    BY <1>3 DEF Nobody
  <2>4. /\ v.cmd = u.cmd /\ v.end = u.end /\ v.roster = left /\ v.conf = u.conf
        /\ v.part = u.part /\ DOMAIN v = DOMAIN u
    BY <1>3 DEF Nobody
  <2> HIDE DEF u, v
  <2>5. Threads(World, u, p)
    BY <1>2, <1>3, <2>3 DEF Threads, NewParty, SameConf, Shape
  <2>6. Sound(u)
    BY <1>2, <2>5, ThreadGoesOn DEF RemoveParticipant
  <2>7. \A n \in DOMAIN v.roster : u.part[v.roster[n]].life # "none"
    BY <2>2, <2>3, <2>4, <2>6 DEF Sound, Good, Known
  <2>8. Good(v) /\ Balance(v) = 0
    BY <2>2, <2>4, <2>6, <2>7, RosterMoves DEF Sound
  <2> QED
    BY <2>1, <2>8, Becoming DEF Sound, Good
<1> QED
  BY <1>4, <1>5 DEF RemoveParticipant

\* The conference's end moves on: the worlds differ in end, finishing and listed.
EndsOnly(w, v) ==
    /\ Shape(v) /\ v.cmd = w.cmd /\ v.roster = w.roster
    /\ \A p \in Parties : SameOf(w.part[p], v.part[p])
    /\ v.conf.setup = w.conf.setup /\ v.conf.refs = w.conf.refs /\ v.conf.mods = w.conf.mods
    /\ v.conf.lost = w.conf.lost

LEMMA EndMoves ==
    ASSUME NEW w, NEW v, Good(w), EndsOnly(w, v), EndFacts(v.conf, v.part, v.cmd, v.end)
    PROVE  Good(v) /\ Balance(v) = Balance(w) + One(w.conf.listed) - One(v.conf.listed)
<1> DEFINE u == [conf |-> [v.conf EXCEPT !.listed = w.conf.listed,
                                        !.finishing = w.conf.finishing],
                 roster |-> v.roster, part |-> v.part, cmd |-> v.cmd, end |-> w.end]
<1>1. /\ DOMAIN u = DOMAIN Nobody /\ DOMAIN u.conf = DOMAIN NoConference
      /\ SameConf(w.conf, u.conf) /\ u.roster = v.roster /\ u.part = v.part
      /\ u.cmd = v.cmd /\ u.end = w.end
  BY DEF EndsOnly, Shape, Nobody, NoConference, SameConf
<1> HIDE DEF u
<1>2. Shape(u)
  BY <1>1 DEF Shape, EndsOnly, SameConf, Good
<1>3. Alike(w, u)
  BY <1>1, <1>2 DEF Alike, EndsOnly
<1>4. Good(u) /\ Balance(u) = Balance(w)
  BY <1>3, AlikeKeeps
<1>5. Good(v)
  BY <1>1, <1>4 DEF Good, EndsOnly, SameConf, OwnerFact, Surplus
<1>6. Balance(v) = Balance(u) + One(u.conf.listed) - One(v.conf.listed)
  <2>1. Holders(v.part) \in Nat
    BY OnePartyChanges, ConferenceAssumption DEF ConferenceAssumption
  <2>2. /\ v.conf.refs \in Int /\ v.conf.lost \in Nat /\ u.conf.refs = v.conf.refs
        /\ u.conf.lost = v.conf.lost /\ u.conf.setup = v.conf.setup
    BY <1>1 DEF EndsOnly, Shape, SameConf
  <2> QED
    BY <1>1, <2>1, <2>2 DEF Balance, Owed, One
<1> QED
  BY <1>1, <1>4, <1>5, <1>6 DEF SameConf

LEMMA ThreadExits ==
    ASSUME NEW w, NEW p \in Parties, Good(w), Balance(w) = 0,
           w.part[p].thread # "none", w.end[p] = "no"
    PROVE  Sound(ThreadExit(w, p))
<1> DEFINE u == [w EXCEPT !.part[p].thread = "done"]
           v == UpdateList(u)
<1>1. DOMAIN w.part[p] = DOMAIN NewParty /\ DOMAIN w.part = Parties
  BY DEF Good, Shape
<1>2. /\ u.cmd = w.cmd /\ u.end = w.end /\ u.roster = w.roster /\ u.conf = w.conf
      /\ \A q \in Parties \ {p} : u.part[q] = w.part[q]
      /\ DOMAIN u = DOMAIN Nobody /\ DOMAIN u.part = Parties
      /\ u.part[p] = [w.part[p] EXCEPT !.thread = "done"]
  BY <1>1 DEF Good, Shape, Nobody
<1>3. ThreadExit(w, p) = Dropped(v, p)
  BY DEF ThreadExit
<1> HIDE DEF u
<1>4. Threads(w, u, p)
  BY <1>1, <1>2 DEF Threads, NewParty, SameConf, Good, Shape
<1>5. Sound(u)
  BY <1>4, ThreadGoesOn
<1>6. Good(v) /\ Balance(v) = 0
  <2>1. Alike(u, v)
    BY <1>5, ListIsAlike DEF Sound, Good
  <2> HIDE DEF v
  <2> QED
    BY <1>5, <2>1, AlikeKeeps DEF Sound
<1> HIDE DEF v
<1>7. Good(Dropped(v, p)) /\ Balance(Dropped(v, p)) = 0
  BY <1>6, Dropping
<1> QED
  BY <1>3, <1>7 DEF Sound

LEMMA DecideEndKeeps ==
    ASSUME IInv, NEW p \in Parties, DecideEnd(p)
    PROVE  IInv'
<1> USE Fields
<1>1. conf.state = "up" /\ ~Fresh(World)
  BY DEF DecideEnd, Become, CanStep, Fresh, Untouched
<1>2. Good(World) /\ Shape(World) /\ Balance(World) = 0
  BY <1>1, Starting
<1>3. /\ DOMAIN part[p] = DOMAIN NewParty /\ DOMAIN part = Parties /\ DOMAIN end = Actors
      /\ p \in Actors /\ p # NoParty
  BY <1>2, ConferenceAssumption DEF Shape, Actors, ConferenceAssumption
<1>4. part[p].thread = "decide" /\ end[p] = "no"
  BY <1>2 DEF DecideEnd, Good, EndFacts
<1>5. CASE Become(ThreadExit(World, p))
  BY <1>2, <1>4, <1>5, ThreadExits, Becoming DEF Sound, Good
<1>6. CASE Become([World EXCEPT !.part[p].thread = "ending", !.end[p] = "begin"])
  <2> DEFINE u == [World EXCEPT !.part[p].thread = "ending"]
             v == [World EXCEPT !.part[p].thread = "ending", !.end[p] = "begin"]
  <2>1. Become(v)
    BY <1>6
  <2>2. /\ u.cmd = cmd /\ u.end = end /\ u.roster = roster /\ u.conf = conf
        /\ \A q \in Parties \ {p} : u.part[q] = part[q]
        /\ DOMAIN u = DOMAIN Nobody /\ DOMAIN u.part = Parties
        /\ u.part[p] = [part[p] EXCEPT !.thread = "ending"]
    BY <1>3 DEF Nobody
  <2>3. /\ v.cmd = cmd /\ v.end = [end EXCEPT ![p] = "begin"] /\ v.roster = roster
        /\ v.conf = conf /\ v.part = u.part /\ DOMAIN v = DOMAIN Nobody
    BY <1>3 DEF Nobody
  <2> HIDE DEF u, v
  <2>4. Threads(World, u, p)
    BY <1>2, <1>3, <2>2 DEF Threads, NewParty, SameConf, Shape
  <2>5. Sound(u)
    BY <1>2, <1>4, <2>4, ThreadGoesOn
  <2>6. EndFacts(v.conf, v.part, v.cmd, v.end)
    <3>1. EndFacts(conf, u.part, cmd, end)
      BY <2>2, <2>5 DEF Sound, Good
    <3>2. u.part[p].thread = "ending"
      BY <1>3, <2>2 DEF NewParty
    <3> QED
      BY <1>3, <1>4, <2>3, <3>1, <3>2 DEF EndFacts, Unlists
  <2>7. Shape(v)
    BY <1>3, <2>2, <2>3, <2>5 DEF Sound, Good, Shape
  <2>8. EndsOnly(u, v)
    BY <2>2, <2>3, <2>7 DEF EndsOnly, SameOf
  <2>9. Good(v) /\ Balance(v) = 0
    BY <2>2, <2>3, <2>5, <2>6, <2>8, EndMoves DEF Sound, One
  <2> QED
    BY <2>1, <2>9, Becoming DEF Sound, Good
<1> QED
  BY <1>5, <1>6 DEF DecideEnd

\* A kick marks the party, a hangup is seen by its thread: nothing that is counted.
LEMMA KickMarkKeeps ==
    ASSUME IInv, NEW p \in Parties, KickMark(p)
    PROVE  IInv'
<1> USE Fields
<1>1. conf.state = "up" /\ ~Fresh(World)
  BY DEF KickMark, Become, CanStep, Fresh, Untouched
<1>2. Good(World) /\ Shape(World) /\ Balance(World) = 0
  BY <1>1, Starting
<1>3. DOMAIN part[p] = DOMAIN NewParty /\ DOMAIN part = Parties
  BY <1>2 DEF Shape
<1> DEFINE v == [World EXCEPT !.part[p].kick = "marked", !.part[p].pending = TRUE]
<1>4. /\ v.cmd = cmd /\ v.end = end /\ v.roster = roster /\ v.conf = conf
      /\ \A q \in Parties \ {p} : v.part[q] = part[q]
      /\ DOMAIN v = DOMAIN World /\ DOMAIN v.part = DOMAIN part
      /\ v.part[p] = [part[p] EXCEPT !.kick = "marked", !.pending = TRUE]
  BY <1>3 DEF Nobody
<1>5. Become(v)
  BY DEF KickMark
<1> HIDE DEF v
<1>6. DOMAIN v.part[p] = DOMAIN NewParty /\ SameOf(part[p], v.part[p])
  BY <1>3, <1>4 DEF SameOf, NewParty
<1>7. Alike(World, v)
  <2>1. Shows(World, v, p)
    BY <1>4, <1>6 DEF Shows
  <2> QED
    BY <1>2, <2>1, Cosmetic
<1>8. Good(v) /\ Balance(v) = 0
  BY <1>2, <1>7, AlikeKeeps
<1> QED
  BY <1>5, <1>8, Becoming DEF Sound, Good

LEMMA KickRemoveKeeps ==
    ASSUME IInv, NEW p \in Parties, KickRemove(p)
    PROVE  IInv'
<1> USE Fields
<1>1. conf.state = "up" /\ ~Fresh(World)
  BY DEF KickRemove, Become, CanStep, Fresh, Untouched
<1>2. Good(World) /\ Shape(World) /\ Balance(World) = 0
  BY <1>1, Starting
<1>3. DOMAIN part[p] = DOMAIN NewParty /\ DOMAIN part = Parties
  BY <1>2 DEF Shape
<1> DEFINE v == [World EXCEPT !.part[p].kick = "no", !.part[p].told = part[p].thread = "in",
                              !.part[p].pending = part[p].thread = "in"]
<1>4. /\ v.cmd = cmd /\ v.end = end /\ v.roster = roster /\ v.conf = conf
      /\ \A q \in Parties \ {p} : v.part[q] = part[q]
      /\ DOMAIN v = DOMAIN World /\ DOMAIN v.part = DOMAIN part
      /\ v.part[p] = [part[p] EXCEPT !.kick = "no", !.told = part[p].thread = "in",
                                     !.pending = part[p].thread = "in"]
  BY <1>3 DEF Nobody
<1>5. Become(Dropped(v, p))
  BY DEF KickRemove
<1> HIDE DEF v
<1>6. DOMAIN v.part[p] = DOMAIN NewParty /\ SameOf(part[p], v.part[p])
  BY <1>3, <1>4 DEF SameOf, NewParty
<1>7. Alike(World, v)
  <2>1. Shows(World, v, p)
    BY <1>4, <1>6 DEF Shows
  <2> QED
    BY <1>2, <2>1, Cosmetic
<1>8. Good(v) /\ Balance(v) = 0
  BY <1>2, <1>7, AlikeKeeps
<1>9. Good(Dropped(v, p)) /\ Balance(Dropped(v, p)) = 0
  BY <1>8, Dropping
<1> QED
  BY <1>5, <1>9, Becoming DEF Sound, Good

LEMMA HangupKeeps ==
    ASSUME IInv, NEW p \in Parties, Hangup(p)
    PROVE  IInv'
<1> USE Fields
<1>1. conf.state = "up" /\ ~Fresh(World)
  BY DEF Hangup, Become, CanStep, Fresh, Untouched
<1>2. Good(World) /\ Shape(World) /\ Balance(World) = 0
  BY <1>1, Starting
<1>3. DOMAIN part[p] = DOMAIN NewParty /\ DOMAIN part = Parties
  BY <1>2 DEF Shape
<1> DEFINE v == [World EXCEPT !.part[p].hung = TRUE]
<1>4. /\ v.cmd = cmd /\ v.end = end /\ v.roster = roster /\ v.conf = conf
      /\ \A q \in Parties \ {p} : v.part[q] = part[q]
      /\ DOMAIN v = DOMAIN World /\ DOMAIN v.part = DOMAIN part
      /\ v.part[p] = [part[p] EXCEPT !.hung = TRUE]
  BY <1>3 DEF Nobody
<1>5. Become(v)
  BY DEF Hangup
<1> HIDE DEF v
<1>6. DOMAIN v.part[p] = DOMAIN NewParty /\ SameOf(part[p], v.part[p])
  BY <1>3, <1>4 DEF SameOf, NewParty
<1>7. Alike(World, v)
  <2>1. Shows(World, v, p)
    BY <1>4, <1>6 DEF Shows
  <2> QED
    BY <1>2, <2>1, Cosmetic
<1>8. Good(v) /\ Balance(v) = 0
  BY <1>2, <1>7, AlikeKeeps
<1> QED
  BY <1>5, <1>8, Becoming DEF Sound, Good

----------------------------------------------------------------------------
(* Commands *)

\* A command lets its participant and the conference go.
LEMMA CommandEnds ==
    ASSUME NEW w, Good(w), Balance(w) = 0, w.cmd # Idle, w.end[NoParty] = "no"
    PROVE  Sound(CommandDone(w))
<1> DEFINE u == [w EXCEPT !.cmd = Idle]
           p == w.cmd.p
<1>1. p \in Parties
  BY DEF Good, Shape, Commands
<1>2. /\ u.cmd = Idle /\ u.end = w.end /\ u.roster = w.roster /\ u.conf = w.conf
      /\ u.part = w.part /\ DOMAIN u = DOMAIN Nobody
  BY DEF Good, Shape, Nobody
<1>3. CommandDone(w) = Release(Dropped(u, p), 1)
  BY DEF CommandDone
<1> HIDE DEF u, p
<1>4. Good(u)
  <2>1. Shape(u)
    BY <1>2 DEF Good, Shape
  <2>2. EndFacts(u.conf, u.part, u.cmd, u.end) /\ Known(u.part, u.roster, u.cmd)
    BY <1>2 DEF Good, EndFacts, Known
  <2> QED
    BY <1>2, <2>1, <2>2 DEF Good, Surplus
<1>5. Balance(u) = 1
  <2>1. Holders(w.part) \in Nat
    BY OnePartyChanges, ConferenceAssumption DEF ConferenceAssumption
  <2> QED
    BY <1>2, <2>1, Numbers DEF Balance, Owed, One
<1>6. Good(Dropped(u, p)) /\ Balance(Dropped(u, p)) = 1
  BY <1>1, <1>4, <1>5, Dropping
<1>7. Good(Release(Dropped(u, p), 1)) /\ Balance(Release(Dropped(u, p), 1)) = 0
  BY <1>6, Releasing
<1> QED
  BY <1>3, <1>7 DEF Sound

\* While a command is carried out nobody ends the conference for it, unless the
\* command is to end it.
LEMMA Commanding ==
    ASSUME IInv, CanStep, cmd # Idle
    PROVE  /\ Good(World) /\ Shape(World) /\ Balance(World) = 0 /\ cmd.p \in Parties
           /\ DOMAIN part[cmd.p] = DOMAIN NewParty /\ DOMAIN part = Parties
           /\ cmd.op # "end" => end[NoParty] = "no"
<1> USE Fields
<1>1. conf.state = "up" /\ ~Fresh(World)
  BY DEF CanStep, Fresh
<1>2. Good(World) /\ Shape(World) /\ Balance(World) = 0
  BY <1>1, Starting
<1> QED
  BY <1>2 DEF Shape, Commands, Good, EndFacts

LEMMA IssueKeeps ==
    ASSUME IInv, NEW op \in {"mute", "kick", "moderate", "exit", "end"},
           NEW from \in {"phone", "console"}, NEW i, Issue(op, from, i)
    PROVE  IInv'
<1> USE Fields
<1>1. conf.state = "up" /\ ~Fresh(World)
  BY DEF Issue, CanStep, Fresh
<1>2. Good(World) /\ Shape(World) /\ Balance(World) = 0
  BY <1>1, Starting
<1>3. PICK n \in DOMAIN roster :
        /\ conf' = [conf EXCEPT !.refs = @ + 1]
        /\ cmd' = [op |-> op, from |-> from, p |-> roster[n]]
  BY DEF Issue
<1>4. cmd = Idle /\ end[NoParty] = "no" /\ roster' = roster /\ part' = part /\ end' = end
  BY DEF Issue
<1> DEFINE c == [op |-> op, from |-> from, p |-> roster[n]]
           v == [conf |-> [conf EXCEPT !.refs = @ + 1], roster |-> roster, part |-> part,
                 cmd |-> c, end |-> end]
<1>5. roster[n] \in Parties /\ part[roster[n]].life # "none"
  BY <1>2, <1>3 DEF Shape, Good, Known
<1>6. c \in Commands /\ c # Idle /\ c.p = roster[n]
  BY <1>5 DEF Commands, Idle
<1>7. cmd' = c
  BY <1>3
<1> HIDE DEF c
<1>8. Leaves(v)
  BY <1>3, <1>4, <1>7 DEF Leaves
<1>9. /\ v.conf.refs = conf.refs + 1 /\ v.conf.mods = conf.mods /\ v.conf.lost = conf.lost
      /\ v.conf.setup = conf.setup /\ v.conf.listed = conf.listed
      /\ v.conf.finishing = conf.finishing
      /\ DOMAIN v.conf = DOMAIN NoConference
  BY <1>2 DEF Shape, NoConference
<1>10. /\ v.roster = roster /\ v.part = part /\ v.cmd = c /\ v.end = end
       /\ DOMAIN v = DOMAIN Nobody
  BY DEF Nobody
<1> HIDE DEF v
<1>11. Shape(v)
  BY <1>2, <1>6, <1>9, <1>10 DEF Shape
<1>12. Good(v)
  <2>1. Known(v.part, v.roster, v.cmd)
    BY <1>2, <1>5, <1>6, <1>10 DEF Good, Known
  <2>2. EndFacts(v.conf, v.part, v.cmd, v.end)
    BY <1>2, <1>4, <1>9, <1>10 DEF Good, EndFacts
  <2> QED
    BY <1>2, <1>9, <1>10, <1>11, <2>1, <2>2 DEF Good, OwnerFact, Surplus
<1>13. Balance(v) = 0
  <2>1. Holders(part) \in Nat
    BY OnePartyChanges, ConferenceAssumption DEF ConferenceAssumption
  <2> QED
    BY <1>2, <1>4, <1>6, <1>9, <1>10, <2>1, Numbers DEF Balance, Owed, One
<1> QED
  BY <1>8, <1>12, <1>13, Leaving DEF Sound, Good

LEMMA MuteKeeps ==
    ASSUME IInv, Mute
    PROVE  IInv'
<1> USE Fields
<1>1. CanStep /\ cmd # Idle /\ cmd.op # "end"
  BY DEF Mute, Become, Idle
<1>2. /\ Good(World) /\ Shape(World) /\ Balance(World) = 0 /\ cmd.p \in Parties
      /\ end[NoParty] = "no"
  BY <1>1, Commanding
<1> DEFINE p == cmd.p
           u == ToggleMute(World, p)
           v == [u EXCEPT !.part[p].wish = ~@]
<1>3. Become(CommandDone(v))
  BY DEF Mute
<1> HIDE DEF p
<1>4. p \in Parties
  BY <1>2 DEF p
<1>5. Alike(World, u) /\ Shape(u)
  BY <1>2, <1>4, MuteIsAlike DEF Alike
<1> HIDE DEF u
<1>6. /\ v.cmd = u.cmd /\ v.end = u.end /\ v.roster = u.roster /\ v.conf = u.conf
      /\ \A q \in Parties \ {p} : v.part[q] = u.part[q]
      /\ DOMAIN v = DOMAIN u /\ DOMAIN v.part = DOMAIN u.part
      /\ v.part[p] = [u.part[p] EXCEPT !.wish = ~@]
  BY <1>4, <1>5 DEF Shape, Nobody
<1> HIDE DEF v
<1>7. DOMAIN v.part[p] = DOMAIN NewParty /\ SameOf(u.part[p], v.part[p])
  BY <1>4, <1>5, <1>6 DEF Shape, SameOf, NewParty
<1>8. Alike(u, v)
  <2>1. Shows(u, v, p)
    BY <1>6, <1>7 DEF Shows
  <2> QED
    BY <1>4, <1>5, <2>1, Cosmetic
<1>9. Alike(World, v)
  BY <1>5, <1>8, AlikeComposes
<1>10. Good(v) /\ Balance(v) = 0 /\ v.cmd # Idle /\ v.end[NoParty] = "no"
  BY <1>1, <1>2, <1>9, AlikeKeeps DEF Alike
<1>11. Sound(CommandDone(v))
  BY <1>10, CommandEnds
<1> QED
  BY <1>3, <1>11, Becoming DEF Sound, Good

LEMMA QueueKickKeeps ==
    ASSUME IInv, QueueKick
    PROVE  IInv'
<1> USE Fields
<1>1. CanStep /\ cmd # Idle /\ cmd.op # "end"
  BY DEF QueueKick, Become, Idle
<1>2. /\ Good(World) /\ Shape(World) /\ Balance(World) = 0 /\ cmd.p \in Parties
      /\ DOMAIN part[cmd.p] = DOMAIN NewParty /\ DOMAIN part = Parties
      /\ end[NoParty] = "no"
  BY <1>1, Commanding
<1> DEFINE p == cmd.p
           v == [World EXCEPT !.part[p].kick = "queued"]
<1>3. Become(CommandDone(v)) \/ Become(CommandDone(World))
  BY DEF QueueKick
<1> HIDE DEF p
<1>4. p \in Parties /\ DOMAIN part[p] = DOMAIN NewParty
  BY <1>2 DEF p
<1>5. /\ v.cmd = cmd /\ v.end = end /\ v.roster = roster /\ v.conf = conf
      /\ \A q \in Parties \ {p} : v.part[q] = part[q]
      /\ DOMAIN v = DOMAIN World /\ DOMAIN v.part = DOMAIN part
      /\ v.part[p] = [part[p] EXCEPT !.kick = "queued"]
  BY <1>2, <1>4 DEF Nobody
<1> HIDE DEF v
<1>6. DOMAIN v.part[p] = DOMAIN NewParty /\ SameOf(part[p], v.part[p])
  BY <1>4, <1>5 DEF SameOf, NewParty
<1>7. Alike(World, v)
  <2>1. Shows(World, v, p)
    BY <1>5, <1>6 DEF Shows
  <2> QED
    BY <1>2, <1>4, <2>1, Cosmetic
<1>8. Good(v) /\ Balance(v) = 0 /\ v.cmd # Idle /\ v.end[NoParty] = "no"
  BY <1>1, <1>2, <1>7, AlikeKeeps DEF Alike
<1>9. Sound(CommandDone(v)) /\ Sound(CommandDone(World))
  BY <1>1, <1>2, <1>8, CommandEnds
<1> QED
  BY <1>3, <1>9, Becoming DEF Sound, Good

\* Promotion counts one moderator more and one device pointer more, or a lost one.
LEMMA Promoting ==
    ASSUME NEW w, NEW p \in Parties, Good(w), Balance(w) = 0, w.part[p].life # "none"
    PROVE  /\ Good(Promote(w, p)) /\ Balance(Promote(w, p)) = 0
           /\ Promote(w, p).cmd = w.cmd /\ Promote(w, p).end = w.end
<1> DEFINE u == [w EXCEPT !.part[p].mod = TRUE, !.part[p].list = TRUE, !.conf.mods = @ + 1]
           r == Retain(u)
           v == PointDevice(r, p)
<1>1. DOMAIN w.part[p] = DOMAIN NewParty /\ DOMAIN w.part = Parties
  BY DEF Good, Shape
<1>2. Promote(w, p) = v
  BY DEF Promote
<1>3. /\ u.cmd = w.cmd /\ u.end = w.end /\ u.roster = w.roster
      /\ u.conf = [w.conf EXCEPT !.mods = w.conf.mods + 1]
      /\ \A q \in Parties \ {p} : u.part[q] = w.part[q]
      /\ u.part[p] = [w.part[p] EXCEPT !.mod = TRUE, !.list = TRUE]
      /\ DOMAIN u = DOMAIN Nobody /\ DOMAIN u.part = Parties
  BY <1>1 DEF Good, Shape, Nobody
<1> HIDE DEF u
<1>4. /\ r.cmd = w.cmd /\ r.end = w.end /\ r.roster = w.roster /\ r.part = u.part
      /\ r.conf = [u.conf EXCEPT !.refs = u.conf.refs + 1] /\ DOMAIN r = DOMAIN Nobody
  BY <1>3 DEF Retain, Nobody
<1> HIDE DEF r
<1>5. u.part[p].dev = w.part[p].dev
  BY <1>1, <1>3 DEF NewParty
<1>6. /\ v.cmd = w.cmd /\ v.end = w.end /\ v.roster = w.roster /\ DOMAIN v = DOMAIN Nobody
      /\ v.conf = [r.conf EXCEPT !.lost = r.conf.lost + One(w.part[p].dev)]
      /\ \A q \in Parties \ {p} : v.part[q] = w.part[q]
      /\ v.part[p] = [u.part[p] EXCEPT !.dev = TRUE] /\ DOMAIN v.part = Parties
  BY <1>3, <1>4, <1>5 DEF PointDevice, Nobody, One
<1> HIDE DEF v
<1>7. /\ v.conf.setup = w.conf.setup /\ v.conf.listed = w.conf.listed
      /\ v.conf.refs = w.conf.refs + 1 /\ v.conf.mods = w.conf.mods + 1
      /\ v.conf.finishing = w.conf.finishing
      /\ v.conf.lost = w.conf.lost + One(w.part[p].dev)
      /\ DOMAIN v.conf = DOMAIN NoConference
  BY <1>3, <1>4, <1>6 DEF Good, Shape, NoConference
<1>8. /\ v.part[p].life = w.part[p].life /\ v.part[p].adding = w.part[p].adding
      /\ v.part[p].thread = w.part[p].thread /\ v.part[p].chan = w.part[p].chan
      /\ v.part[p].dev = TRUE /\ v.part[p].joining = w.part[p].joining
      /\ DOMAIN v.part[p] = DOMAIN NewParty
  BY <1>1, <1>3, <1>6 DEF NewParty
<1>9. Shape(v)
  BY <1>6, <1>7, <1>8 DEF Good, Shape, One
<1>10. Moved(w, v, p)
  <2>1. p = Owner => v.conf.setup # "no" /\ OwnerFact(v.conf, v.part[p])
    BY <1>7, <1>8 DEF Good, OwnerFact
  <2>2. PartyFact(w.part[p]) /\ (w.end[p] # "no" => w.part[p].thread = "ending")
    BY DEF Good, PartyFacts, EndFacts
  <2>3. PartyFact(v.part[p])
    BY <1>8, <2>2 DEF PartyFact
  <2>4. v.conf.mods + One(Moderates(p, w.part[p])) >= w.conf.mods + One(Moderates(p, v.part[p]))
    BY <1>7, Numbers DEF One
  <2> QED
    BY <1>6, <1>7, <1>8, <1>9, <2>1, <2>2, <2>3, <2>4 DEF Moved
<1>11. Good(v) /\ Balance(v) = 0
  <2>1. Due(v.part[p]) = Due(w.part[p]) + 1 - One(w.part[p].dev)
    BY <1>8 DEF Due, One
  <2>2. Net(v) = Net(w) + 1 - One(w.part[p].dev)
    BY <1>6, <1>7, Numbers DEF Net, Owed, One
  <2> QED
    BY <1>10, <2>1, <2>2, OneMoves, Numbers DEF One
<1> QED
  BY <1>2, <1>6, <1>11

\* Demotion gives the device's pointer back with its reference.
LEMMA Demoting ==
    ASSUME NEW w, NEW p \in Parties, Good(w), Balance(w) = 0
    PROVE  /\ Good(Demote(w, p)) /\ Balance(Demote(w, p)) = 0
           /\ Demote(w, p).cmd = w.cmd /\ Demote(w, p).end = w.end
<1> DEFINE v == [w EXCEPT !.part[p].mod = FALSE, !.part[p].dev = FALSE, !.conf.mods = @ + 1]
           n == One(w.part[p].dev)
<1>1. DOMAIN w.part[p] = DOMAIN NewParty /\ DOMAIN w.part = Parties
  BY DEF Good, Shape
<1>2. Demote(w, p) = Release(v, n)
  BY DEF Demote
<1>3. /\ v.cmd = w.cmd /\ v.end = w.end /\ v.roster = w.roster
      /\ v.conf = [w.conf EXCEPT !.mods = w.conf.mods + 1]
      /\ \A q \in Parties \ {p} : v.part[q] = w.part[q]
      /\ v.part[p] = [w.part[p] EXCEPT !.mod = FALSE, !.dev = FALSE]
      /\ DOMAIN v = DOMAIN Nobody /\ DOMAIN v.part = Parties
  BY <1>1 DEF Good, Shape, Nobody
<1> HIDE DEF v
<1>4. /\ v.conf.setup = w.conf.setup /\ v.conf.listed = w.conf.listed
      /\ v.conf.refs = w.conf.refs /\ v.conf.mods = w.conf.mods + 1
      /\ v.conf.finishing = w.conf.finishing /\ v.conf.lost = w.conf.lost
      /\ DOMAIN v.conf = DOMAIN NoConference
  BY <1>3 DEF Good, Shape, NoConference
<1>5. /\ v.part[p].life = w.part[p].life /\ v.part[p].adding = w.part[p].adding
      /\ v.part[p].thread = w.part[p].thread /\ v.part[p].chan = w.part[p].chan
      /\ v.part[p].dev = FALSE /\ v.part[p].joining = w.part[p].joining
      /\ v.part[p].mod = FALSE /\ DOMAIN v.part[p] = DOMAIN NewParty
  BY <1>1, <1>3 DEF NewParty
<1>6. Shape(v)
  <2>1. /\ w.conf.refs \in Int /\ w.conf.mods + 1 \in Int /\ w.conf.lost \in Nat
        /\ w.conf.finishing \in Nat /\ w.cmd \in {Idle} \cup Commands
        /\ w.roster \in Seq(Parties) /\ DOMAIN w.end = Actors
        /\ \A q \in Parties : DOMAIN w.part[q] = DOMAIN NewParty
    BY DEF Good, Shape
  <2>2. \A q \in Parties : DOMAIN v.part[q] = DOMAIN NewParty
    BY <1>3, <1>5, <2>1
  <2> QED
    BY <1>3, <1>4, <2>1, <2>2 DEF Shape
<1>7. Moved(w, v, p)
  <2>1. p = Owner => v.conf.setup # "no" /\ OwnerFact(v.conf, v.part[p])
    BY <1>4, <1>5 DEF Good, OwnerFact
  <2>2. PartyFact(w.part[p]) /\ (w.end[p] # "no" => w.part[p].thread = "ending")
    BY DEF Good, PartyFacts, EndFacts
  <2>3. PartyFact(v.part[p])
    BY <1>5, <2>2 DEF PartyFact
  <2>4. v.conf.mods + One(Moderates(p, w.part[p])) >= w.conf.mods + One(Moderates(p, v.part[p]))
    BY <1>4, Numbers DEF One
  <2> QED
    BY <1>3, <1>4, <1>5, <1>6, <2>1, <2>2, <2>3, <2>4 DEF Moved
<1>8. Good(v) /\ Balance(v) = n + 0
  <2>1. Due(v.part[p]) = Due(w.part[p]) - n
    BY <1>5 DEF Due, One
  <2>2. Net(v) = Net(w)
    BY <1>3, <1>4 DEF Net, Owed
  <2>3. n \in Nat
    BY DEF One
  <2> QED
    BY <1>7, <2>1, <2>2, <2>3, OneMoves, Numbers
<1>9. n \in Nat
  BY DEF One
<1> HIDE DEF n
<1>10. Good(Release(v, n)) /\ Balance(Release(v, n)) = 0
  BY <1>8, <1>9, Releasing
<1>11. Release(v, n).cmd = v.cmd /\ Release(v, n).end = v.end
  BY <1>3 DEF Release, Nobody
<1> QED
  BY <1>2, <1>3, <1>10, <1>11

LEMMA PromoteOrDemoteKeeps ==
    ASSUME IInv, PromoteOrDemote
    PROVE  IInv'
<1> USE Fields
<1>1. CanStep /\ cmd # Idle /\ cmd.op # "end"
  BY DEF PromoteOrDemote, Become, Idle
<1>2. /\ Good(World) /\ Shape(World) /\ Balance(World) = 0 /\ cmd.p \in Parties
      /\ end[NoParty] = "no"
  BY <1>1, Commanding
<1>3. part[cmd.p].life # "none"
  BY <1>1, <1>2 DEF Good, Known
<1> DEFINE Kept(w) == Good(w) /\ Balance(w) = 0 /\ w.cmd = cmd /\ w.end = end
<1>4. Kept(World) /\ Kept(Promote(World, cmd.p)) /\ Kept(Demote(World, cmd.p))
  BY <1>2, <1>3, Promoting, Demoting
<1>5. PICK w : Kept(w) /\ Moderate(World, cmd.p) = UpdateList(w)
  <2> HIDE DEF Kept
  <2>1. CASE ~part[cmd.p].phone
    BY <1>4, <2>1 DEF Moderate
  <2>2. CASE part[cmd.p].phone /\ ~part[cmd.p].mod
    BY <1>4, <2>2 DEF Moderate
  <2>3. CASE part[cmd.p].phone /\ part[cmd.p].mod /\ conf.mods > 1
    BY <1>4, <2>3 DEF Moderate
  <2>4. CASE part[cmd.p].phone /\ part[cmd.p].mod /\ ~(conf.mods > 1)
    BY <1>4, <2>4 DEF Moderate
  <2> QED
    BY <2>1, <2>2, <2>3, <2>4
<1>6. Alike(w, UpdateList(w))
  BY <1>5, ListIsAlike DEF Good
<1>7. /\ Good(UpdateList(w)) /\ Balance(UpdateList(w)) = 0
      /\ UpdateList(w).cmd # Idle /\ UpdateList(w).end[NoParty] = "no"
  BY <1>1, <1>2, <1>5, <1>6, AlikeKeeps DEF Alike
<1>8. Sound(CommandDone(UpdateList(w)))
  BY <1>7, CommandEnds
<1>9. Become(CommandDone(UpdateList(w)))
  BY <1>5 DEF PromoteOrDemote
<1> QED
  BY <1>8, <1>9, Becoming DEF Sound, Good

LEMMA ListHides ==
    ASSUME NEW q \in Parties, NEW b, Good(World), Balance(World) = 0
    PROVE  LET v == [World EXCEPT !.part[q].list = b]
           IN  Good(v) /\ Balance(v) = 0 /\ v.cmd = cmd /\ v.end = end
<1> USE Fields
<1> DEFINE v == [World EXCEPT !.part[q].list = b]
<1>1. DOMAIN part[q] = DOMAIN NewParty /\ DOMAIN part = Parties
  BY DEF Good, Shape
<1>2. /\ v.cmd = cmd /\ v.end = end /\ v.roster = roster /\ v.conf = conf
      /\ \A r \in Parties \ {q} : v.part[r] = part[r]
      /\ DOMAIN v = DOMAIN World /\ DOMAIN v.part = DOMAIN part
      /\ v.part[q] = [part[q] EXCEPT !.list = b]
  BY <1>1 DEF Nobody
<1> HIDE DEF v
<1>3. DOMAIN v.part[q] = DOMAIN NewParty /\ SameOf(part[q], v.part[q])
  BY <1>1, <1>2 DEF SameOf, NewParty
<1>4. Alike(World, v)
  <2>1. Shows(World, v, q)
    BY <1>2, <1>3 DEF Shows
  <2> QED
    BY <2>1, Cosmetic DEF Good
<1>5. Good(v) /\ Balance(v) = 0
  BY <1>4, AlikeKeeps
<1> QED
  BY <1>2, <1>5 DEF v

LEMMA ExitListKeeps ==
    ASSUME IInv, ExitList
    PROVE  IInv'
<1> USE Fields
<1>1. CanStep /\ cmd # Idle /\ cmd.op # "end"
  BY DEF ExitList, Become, Idle
<1>2. Good(World) /\ Shape(World) /\ Balance(World) = 0 /\ end[NoParty] = "no"
  BY <1>1, Commanding
<1>3. PICK q \in Range(roster) : Become(CommandDone([World EXCEPT !.part[q].list = FALSE]))
  BY DEF ExitList
<1>4. q \in Parties
  BY <1>2 DEF Shape, Range
<1> DEFINE v == [World EXCEPT !.part[q].list = FALSE]
<1>5. Good(v) /\ Balance(v) = 0 /\ v.cmd = cmd /\ v.end = end
  BY <1>2, <1>4, ListHides
<1>6. Become(CommandDone(v))
  BY <1>3
<1> HIDE DEF v
<1>7. Sound(CommandDone(v))
  BY <1>1, <1>2, <1>5, CommandEnds
<1> QED
  BY <1>6, <1>7, Becoming DEF Sound, Good

LEMMA ListKeyKeeps ==
    ASSUME IInv, NEW d \in Phones, ListKey(d)
    PROVE  IInv'
<1> USE Fields
<1>1. conf.state = "up" /\ ~Fresh(World) /\ d \in Parties
  BY ConferenceAssumption DEF ListKey, CanStep, Fresh, Untouched, ConferenceAssumption
<1>2. Good(World) /\ Shape(World) /\ Balance(World) = 0
  BY <1>1, Starting
<1> DEFINE v == [World EXCEPT !.part[d].list = TRUE]
<1>3. /\ v.part = [part EXCEPT ![d].list = TRUE] /\ v.conf = conf /\ v.roster = roster
      /\ v.cmd = cmd /\ v.end = end
  BY DEF Nobody
<1>4. Good(v) /\ Balance(v) = 0
  BY <1>1, <1>2, ListHides
<1> HIDE DEF v
<1>5. Leaves(v)
  BY <1>3 DEF ListKey, Leaves
<1> QED
  BY <1>4, <1>5, Leaving DEF Sound, Good

LEMMA OtherCallEndsKeeps ==
    ASSUME IInv, NEW d \in Phones, OtherCallEnds(d)
    PROVE  IInv'
<1> USE Fields
<1>1. conf.state = "up" /\ ~Fresh(World) /\ d \in Parties /\ part[d].dev
  BY ConferenceAssumption
     DEF OtherCallEnds, Become, CanStep, Fresh, Untouched, ConferenceAssumption
<1>2. Good(World) /\ Shape(World) /\ Balance(World) = 0
  BY <1>1, Starting
<1>3. DOMAIN part[d] = DOMAIN NewParty /\ DOMAIN part = Parties
  BY <1>1, <1>2 DEF Shape
<1> DEFINE v == [World EXCEPT !.part[d].dev = FALSE]
<1>4. Become(Release(v, 1))
  BY DEF OtherCallEnds
<1>5. /\ v.cmd = cmd /\ v.end = end /\ v.roster = roster /\ v.conf = conf
      /\ \A q \in Parties \ {d} : v.part[q] = part[q]
      /\ v.part[d] = [part[d] EXCEPT !.dev = FALSE]
      /\ DOMAIN v = DOMAIN Nobody /\ DOMAIN v.part = Parties
  BY <1>1, <1>3 DEF Nobody
<1> HIDE DEF v
<1>6. /\ v.part[d].life = part[d].life /\ v.part[d].adding = part[d].adding
      /\ v.part[d].thread = part[d].thread /\ v.part[d].chan = part[d].chan
      /\ v.part[d].dev = FALSE /\ v.part[d].joining = part[d].joining
      /\ v.part[d].mod = part[d].mod /\ DOMAIN v.part[d] = DOMAIN NewParty
  BY <1>3, <1>5 DEF NewParty
<1>7. Moved(World, v, d)
  <2>1. Shape(v)
    BY <1>2, <1>5, <1>6 DEF Shape
  <2>2. PartyFact(part[d]) /\ (end[d] # "no" => part[d].thread = "ending")
    BY <1>1, <1>2 DEF Good, PartyFacts, EndFacts
  <2>3. PartyFact(v.part[d])
    BY <1>6, <2>2 DEF PartyFact
  <2>4. d = Owner => v.conf.setup # "no" /\ OwnerFact(v.conf, v.part[d])
    BY <1>2, <1>5, <1>6 DEF Good, OwnerFact
  <2>5. v.conf.mods + One(Moderates(d, part[d])) >= conf.mods + One(Moderates(d, v.part[d]))
    <3>1. Moderates(d, v.part[d]) <=> Moderates(d, part[d])
      BY <1>6 DEF Moderates
    <3> QED
      BY <1>2, <1>5, <3>1, Numbers DEF One
  <2> QED
    BY <1>2, <1>5, <1>6, <2>1, <2>2, <2>3, <2>4, <2>5 DEF Moved
<1>8. Good(v) /\ Balance(v) = 1
  <2>1. Due(v.part[d]) = Due(part[d]) - 1
    BY <1>1, <1>6 DEF Due, One
  <2>2. Net(v) = Net(World)
    BY <1>5 DEF Net
  <2> QED
    BY <1>1, <1>2, <1>7, <2>1, <2>2, OneMoves, Numbers
<1>9. Good(Release(v, 1)) /\ Balance(Release(v, 1)) = 0
  BY <1>8, Releasing
<1> QED
  BY <1>4, <1>9, Becoming DEF Sound, Good

----------------------------------------------------------------------------
(* The end of the conference *)

LEMMA EndConferenceKeeps ==
    ASSUME IInv, EndConference
    PROVE  IInv'
<1> USE Fields
<1>1. CanStep /\ cmd # Idle /\ cmd.op = "end" /\ end[NoParty] = "no"
  BY DEF EndConference, Become, Idle
<1>2. Good(World) /\ Shape(World) /\ Balance(World) = 0
  BY <1>1, Commanding
<1> DEFINE v == [World EXCEPT !.end[NoParty] = "begin"]
<1>3. Become(v)
  BY DEF EndConference
<1>4. DOMAIN end = Actors /\ NoParty \in Actors /\ NoParty \notin Parties
  BY <1>2, ConferenceAssumption DEF Shape, Actors, ConferenceAssumption
<1>5. /\ v.cmd = cmd /\ v.end = [end EXCEPT ![NoParty] = "begin"] /\ v.roster = roster
      /\ v.conf = conf /\ v.part = part /\ DOMAIN v = DOMAIN Nobody
  BY DEF Nobody
<1> HIDE DEF v
<1>6. EndFacts(v.conf, v.part, v.cmd, v.end)
  <2>1. EndFacts(conf, part, cmd, end)
    BY <1>2 DEF Good
  <2>2. \A a \in Actors : v.end[a] = IF a = NoParty THEN "begin" ELSE end[a]
    BY <1>4, <1>5
  <2>3. \A p \in Parties : v.end[p] = end[p]
    BY <1>4, <2>2 DEF Actors
  <2>4. Unlists(end) => Unlists(v.end)
    BY <1>1, <2>2 DEF Unlists
  <2> QED
    BY <1>1, <1>5, <2>1, <2>3, <2>4 DEF EndFacts
<1>7. EndsOnly(World, v)
  <2>1. Shape(v)
    BY <1>2, <1>4, <1>5 DEF Shape
  <2> QED
    BY <1>5, <2>1 DEF EndsOnly, SameOf
<1>8. Good(v) /\ Balance(v) = 0
  BY <1>2, <1>5, <1>6, <1>7, EndMoves DEF One
<1> QED
  BY <1>3, <1>8, Becoming DEF Sound, Good

\* Telling the parties to leave changes none of what is counted.
LEMMA Telling ==
    ASSUME NEW S, NEW a \in Actors, NEW s, Good(World)
    PROVE  LET v == [Tell(World, S) EXCEPT !.end[a] = s]
           IN  /\ v.cmd = cmd /\ v.roster = roster /\ v.conf = conf
               /\ v.end = [end EXCEPT ![a] = s] /\ Shape(v)
               /\ \A p \in Parties : SameOf(part[p], v.part[p])
<1> USE Fields
<1> DEFINE u == Tell(World, S)
           v == [u EXCEPT !.end[a] = s]
<1>1. /\ u.cmd = cmd /\ u.end = end /\ u.roster = roster /\ u.conf = conf
      /\ DOMAIN u = DOMAIN Nobody /\ DOMAIN u.part = Parties
      /\ \A p \in Parties : u.part[p] = [part[p] EXCEPT
            !.told = @ \/ (p \in S /\ part[p].thread = "in")]
  BY DEF Tell, Nobody
<1> HIDE DEF u
<1>2. ASSUME NEW p \in Parties
      PROVE  DOMAIN u.part[p] = DOMAIN NewParty /\ SameOf(part[p], u.part[p])
  <2>1. DOMAIN part[p] = DOMAIN NewParty
    BY DEF Good, Shape
  <2>2. u.part[p] = [part[p] EXCEPT !.told = @ \/ (p \in S /\ part[p].thread = "in")]
    BY <1>1
  <2> QED
    BY <2>1, <2>2 DEF SameOf, NewParty
<1>3. /\ v.cmd = cmd /\ v.roster = roster /\ v.conf = conf /\ v.end = [end EXCEPT ![a] = s]
      /\ v.part = u.part /\ DOMAIN v = DOMAIN Nobody
  BY <1>1 DEF Nobody
<1> HIDE DEF v
<1>4. Shape(v)
  BY <1>1, <1>2, <1>3 DEF Good, Shape
<1> QED
  BY <1>2, <1>3, <1>4 DEF v, u

\* One more step of sccp_conference_end; the others find it finishing already.
LEMMA EndStepKeeps ==
    ASSUME IInv, NEW a \in Actors, EndStep(a)
    PROVE  IInv'
<1> USE Fields
<1>1. conf.state = "up" /\ ~Fresh(World)
  BY DEF EndStep, Become, CanStep, Fresh
<1>2. Good(World) /\ Shape(World) /\ Balance(World) = 0
  BY <1>1, Starting
<1>3. DOMAIN end = Actors /\ EndFacts(conf, part, cmd, end) /\ conf.finishing \in Nat
  BY <1>2 DEF Shape, Good
<1>4. ASSUME NEW v, NEW s \in {"others", "moderators", "unlist", "over"}, end[a] # "no",
             v.end = [end EXCEPT ![a] = s], v.cmd = cmd, v.roster = roster, Shape(v),
             \A p \in Parties : SameOf(part[p], v.part[p]),
             v.conf.setup = conf.setup, v.conf.refs = conf.refs, v.conf.mods = conf.mods,
             v.conf.lost = conf.lost, v.conf.listed => conf.listed,
             v.conf.finishing > 0 /\ v.conf.listed => Unlists(v.end)
      PROVE  Good(v) /\ Balance(v) = One(conf.listed) - One(v.conf.listed)
  <2>1. EndFacts(v.conf, v.part, v.cmd, v.end)
    BY <1>3, <1>4 DEF EndFacts, SameOf, Actors
  <2>2. EndsOnly(World, v)
    BY <1>4 DEF EndsOnly
  <2>3. Good(v) /\ Balance(v) = 0 + One(conf.listed) - One(v.conf.listed)
    BY <1>2, <2>1, <2>2, EndMoves
  <2> QED
    BY <2>3 DEF One
<1>5. CASE end[a] = "begin" /\ Become(EndBegin(World, a))
  <2> DEFINE v == EndBegin(World, a)
             s == IF conf.finishing = 0 THEN "others" ELSE "over"
  <2>1. /\ v.cmd = cmd /\ v.roster = roster /\ v.part = part /\ v.end = [end EXCEPT ![a] = s]
        /\ v.conf = [conf EXCEPT !.finishing = conf.finishing + 1]
        /\ DOMAIN v = DOMAIN Nobody
    BY DEF EndBegin, Nobody
  <2>2. Become(v) /\ end[a] = "begin"
    BY <1>5
  <2>3. s \in {"others", "over"} /\ (s = "over" => conf.finishing > 0)
    BY <1>3
  <2> HIDE DEF v, s
  <2>4. /\ v.conf.setup = conf.setup /\ v.conf.refs = conf.refs /\ v.conf.mods = conf.mods
        /\ v.conf.lost = conf.lost /\ v.conf.listed = conf.listed
        /\ v.conf.finishing = conf.finishing + 1 /\ DOMAIN v.conf = DOMAIN NoConference
    BY <1>2, <2>1 DEF Shape, NoConference
  <2>5. Shape(v)
    BY <1>2, <2>1, <2>4 DEF Shape
  <2>6. v.conf.listed => Unlists(v.end)
    <3>1. \A b \in Actors : v.end[b] = IF b = a THEN s ELSE end[b]
      BY <1>3, <2>1
    <3>2. CASE s = "others"
      BY <3>1, <3>2 DEF Unlists
    <3>3. CASE s = "over"
      <4>1. conf.listed => Unlists(end)
        BY <1>3, <2>3, <3>3 DEF EndFacts
      <4> QED
        BY <2>2, <2>4, <3>1, <4>1 DEF Unlists
    <3> QED
      BY <2>3, <3>2, <3>3
  <2>7. \A p \in Parties : SameOf(part[p], v.part[p])
    BY <2>1 DEF SameOf
  <2>8. Good(v) /\ Balance(v) = One(conf.listed) - One(v.conf.listed)
    BY <1>4, <2>1, <2>2, <2>3, <2>4, <2>5, <2>6, <2>7
  <2> QED
    BY <2>2, <2>4, <2>8, Becoming DEF Sound, Good, One
<1>6. ASSUME NEW S, NEW s \in {"moderators", "unlist"}, end[a] # "no",
             Become([Tell(World, S) EXCEPT !.end[a] = s])
      PROVE  IInv'
  <2> DEFINE v == [Tell(World, S) EXCEPT !.end[a] = s]
  <2>1. /\ v.cmd = cmd /\ v.roster = roster /\ v.conf = conf
        /\ v.end = [end EXCEPT ![a] = s] /\ Shape(v)
        /\ \A p \in Parties : SameOf(part[p], v.part[p])
    BY <1>2, Telling
  <2>2. Become(v)
    BY <1>6
  <2> HIDE DEF v
  <2>3. v.end[a] = s
    BY <1>3, <2>1
  <2>4. Unlists(v.end)
    BY <2>3 DEF Unlists
  <2>5. Good(v) /\ Balance(v) = One(conf.listed) - One(v.conf.listed)
    BY <1>4, <1>6, <2>1, <2>4
  <2> QED
    BY <2>1, <2>2, <2>5, Becoming DEF Sound, Good, One
<1>7. CASE end[a] = "others" /\ Become(EndOthers(World, a))
  <2>1. CASE Become(Crash(World))
    BY <1>2, <2>1, Crashing, Becoming
  <2>2. CASE \E S : Become([Tell(World, S) EXCEPT !.end[a] = "moderators"])
    BY <1>6, <1>7, <2>2
  <2> QED
    BY <1>7, <2>1, <2>2 DEF EndOthers
<1>8. CASE end[a] = "moderators" /\ Become(EndModerators(World, a))
  BY <1>6, <1>8 DEF EndModerators
<1>9. CASE end[a] = "unlist" /\ Become(EndUnlist(World, a))
  <2> DEFINE v == [World EXCEPT !.conf.listed = FALSE, !.end[a] = "over"]
             n == One(conf.listed)
  <2>1. Become(Release(v, n))
    BY <1>9 DEF EndUnlist
  <2>2. /\ v.cmd = cmd /\ v.roster = roster /\ v.part = part
        /\ v.end = [end EXCEPT ![a] = "over"] /\ v.conf = [conf EXCEPT !.listed = FALSE]
        /\ DOMAIN v = DOMAIN Nobody
    BY DEF Nobody
  <2> HIDE DEF v
  <2>3. /\ v.conf.setup = conf.setup /\ v.conf.refs = conf.refs /\ v.conf.mods = conf.mods
        /\ v.conf.lost = conf.lost /\ ~v.conf.listed
        /\ v.conf.finishing = conf.finishing /\ DOMAIN v.conf = DOMAIN NoConference
    BY <1>2, <2>2 DEF Shape, NoConference
  <2>4. Shape(v)
    BY <1>2, <2>2, <2>3 DEF Shape
  <2>5. \A p \in Parties : SameOf(part[p], v.part[p])
    BY <2>2 DEF SameOf
  <2>6. Good(v) /\ Balance(v) = One(conf.listed) - One(v.conf.listed)
    BY <1>4, <1>9, <2>2, <2>3, <2>4, <2>5
  <2>7. Good(v) /\ Balance(v) = n + 0 /\ n \in Nat
    BY <2>3, <2>6 DEF One
  <2> HIDE DEF n
  <2>8. Good(Release(v, n)) /\ Balance(Release(v, n)) = 0
    BY <2>7, Releasing
  <2> QED
    BY <2>1, <2>8, Becoming DEF Sound, Good
<1> QED
  BY <1>5, <1>7, <1>8, <1>9 DEF EndStep

LEMMA EndReturnsKeeps ==
    ASSUME IInv, NEW a \in Actors, EndReturns(a)
    PROVE  IInv'
<1> USE Fields
<1>1. conf.state = "up" /\ ~Fresh(World) /\ end[a] = "over"
  BY DEF EndReturns, Become, CanStep, Fresh
<1>2. Good(World) /\ Shape(World) /\ Balance(World) = 0
  BY <1>1, Starting
<1>3. DOMAIN end = Actors /\ EndFacts(conf, part, cmd, end) /\ NoParty \notin Parties
  BY <1>2, ConferenceAssumption DEF Shape, Good, ConferenceAssumption
<1> DEFINE v == [World EXCEPT !.end[a] = "no"]
<1>4. Become(IF a = NoParty THEN CommandDone(v) ELSE ThreadExit(v, a))
  BY DEF EndReturns
<1>5. /\ v.cmd = cmd /\ v.end = [end EXCEPT ![a] = "no"] /\ v.roster = roster
      /\ v.conf = conf /\ v.part = part /\ DOMAIN v = DOMAIN Nobody
  BY DEF Nobody
<1> HIDE DEF v
<1>6. \A b \in Actors : v.end[b] = IF b = a THEN "no" ELSE end[b]
  BY <1>3, <1>5
<1>7. EndFacts(v.conf, v.part, v.cmd, v.end)
  <2>1. Unlists(end) => Unlists(v.end)
    BY <1>1, <1>6 DEF Unlists
  <2>2. \A b \in Actors : v.end[b] # "no" => v.end[b] = end[b]
    BY <1>6
  <2>3. NoParty \in Actors /\ Parties \subseteq Actors
    BY DEF Actors
  <2> QED
    BY <1>3, <1>5, <2>1, <2>2, <2>3 DEF EndFacts
<1>8. EndsOnly(World, v)
  <2>1. Shape(v)
    BY <1>2, <1>3, <1>5 DEF Shape
  <2> QED
    BY <1>5, <2>1 DEF EndsOnly, SameOf
<1>9. Good(v) /\ Balance(v) = 0
  BY <1>2, <1>5, <1>7, <1>8, EndMoves DEF One
<1>10. v.end[a] = "no"
  BY <1>6
<1>11. CASE a = NoParty
  <2>1. cmd # Idle
    BY <1>1, <1>3, <1>11 DEF EndFacts, Idle
  <2>2. Sound(CommandDone(v))
    BY <1>5, <1>9, <1>10, <1>11, <2>1, CommandEnds
  <2> QED
    BY <1>4, <1>11, <2>2, Becoming DEF Sound, Good
<1>12. CASE a # NoParty
  <2>1. a \in Parties
    BY <1>12 DEF Actors
  <2>2. part[a].thread # "none"
    BY <1>1, <1>3, <2>1 DEF EndFacts
  <2>3. Sound(ThreadExit(v, a))
    BY <1>5, <1>9, <1>10, <2>1, <2>2, ThreadExits
  <2> QED
    BY <1>4, <1>12, <2>3, Becoming DEF Sound, Good
<1> QED
  BY <1>11, <1>12

----------------------------------------------------------------------------
(* The theorems *)

LEMMA InitIsFresh == Init => IInv
<1> SUFFICES ASSUME Init
             PROVE  IInv
  OBVIOUS
<1> USE Fields
<1>1. /\ conf = NoConference /\ roster = <<>> /\ part = [p \in Parties |-> NewParty]
      /\ cmd = Idle /\ end = [a \in Actors |-> "no"]
  BY DEF Init, StartFrom, Nobody
<1>2. Shape(World)
  BY <1>1 DEF Shape, NoConference
<1>3. Fresh(World)
  <2>1. \A p \in Parties : PartyFact(part[p]) /\ Untouched(part[p])
    BY <1>1 DEF NewParty, PartyFact, Untouched
  <2>2. part[Owner].life = "none"
    BY <1>1, ConferenceAssumption DEF NewParty, ConferenceAssumption
  <2> QED
    BY <1>1, <2>1, <2>2 DEF Fresh, NoConference, PartyFacts
<1> QED
  BY <1>2, <1>3 DEF IInv

LEMMA StepKeeps == IInv /\ [Next]_vars => IInv'
<1> SUFFICES ASSUME IInv, [Next]_vars
             PROVE  IInv'
  OBVIOUS
<1>1. CASE Create
  BY <1>1, CreateKeeps
<1>2. CASE ConferenceCreated
  BY <1>2, ConferenceCreatedKeeps
<1>3. CASE ConferenceStarted
  BY <1>3, ConferenceStartedKeeps
<1>4. CASE CommandStep
  <2>1. CASE \E op \in {"mute", "kick", "moderate", "exit", "end"},
               from \in {"phone", "console"}, i \in 1..Cardinality(Parties) :
               Issue(op, from, i)
    BY <2>1, IssueKeeps
  <2>2. CASE Mute
    BY <2>2, MuteKeeps
  <2>3. CASE ExitList
    BY <2>3, ExitListKeeps
  <2>4. CASE QueueKick
    BY <2>4, QueueKickKeeps
  <2>5. CASE PromoteOrDemote
    BY <2>5, PromoteOrDemoteKeeps
  <2>6. CASE EndConference
    BY <2>6, EndConferenceKeeps
  <2> QED
    BY <1>4, <2>1, <2>2, <2>3, <2>4, <2>5, <2>6 DEF CommandStep
<1>5. ASSUME NEW p \in Parties, PartyStep(p)
      PROVE  IInv'
  BY <1>5, StartThreadKeeps, AddToListKeeps, AttachPhoneKeeps, AddHeldCallKeeps,
     JoinBridgeKeeps, LeaveBridgeKeeps, HangupPeerKeeps, RemoveParticipantKeeps,
     DecideEndKeeps, KickMarkKeeps, KickRemoveKeeps, HangupKeeps DEF PartyStep
<1>6. ASSUME NEW d \in Phones, PhoneStep(d)
      PROVE  IInv'
  BY <1>6, JoinKeeps, JoinedKeeps, HoldCallKeeps, ListKeyKeeps, OtherCallEndsKeeps
     DEF PhoneStep
<1>7. ASSUME NEW a \in Actors, EndStep(a) \/ EndReturns(a)
      PROVE  IInv'
  BY <1>7, EndStepKeeps, EndReturnsKeeps
<1>8. CASE UNCHANGED vars
  <2>1. World' = World /\ conf' = conf
    BY <1>8 DEF vars, World
  <2> QED
    BY <2>1 DEF IInv
<1> QED
  BY <1>1, <1>2, <1>3, <1>4, <1>5, <1>6, <1>7, <1>8 DEF Next

LEMMA SpecKeeps == Spec => []IInv
  BY InitIsFresh, StepKeeps, PTL DEF Spec

\* The references to the conference are those of its owners, so that it is freed
\* by the last of them and not while one is left, in whatever order the parties,
\* their threads, the phones and the commands take and give them back.
THEOREM ReferencesAreOwned == Spec => []OwnersCounted
<1>1. IInv => OwnersCounted
  <2> SUFFICES ASSUME IInv, conf.state # "crashed"
               PROVE  conf.refs = One(conf.listed) + conf.lost
                        + One(conf.setup \in {"creating", "created"}) + One(cmd # Idle)
                        + Cardinality(Alive(part)) + Cardinality(OnCall(part))
                        + Cardinality(OnDevice(part)) + Cardinality(Joins(part))
    BY DEF OwnersCounted, Alive, OnCall, OnDevice, Joins
  <2> USE Fields
  <2>1. CASE Fresh(World)
    <3>1. /\ Alive(part) = {} /\ OnCall(part) = {} /\ OnDevice(part) = {} /\ Joins(part) = {}
      BY <2>1 DEF Fresh, Untouched, Alive, OnCall, OnDevice, Joins
    <3> QED
      BY <2>1, <3>1, FS_EmptySet DEF Fresh, One
  <2>2. CASE Sound(World)
    <3>1. /\ Cardinality(Alive(part)) \in Nat /\ Cardinality(OnCall(part)) \in Nat
          /\ Cardinality(OnDevice(part)) \in Nat /\ Cardinality(Joins(part)) \in Nat
      <4>1. /\ Alive(part) \in SUBSET Parties /\ OnCall(part) \in SUBSET Parties
            /\ OnDevice(part) \in SUBSET Parties /\ Joins(part) \in SUBSET Parties
        BY DEF Alive, OnCall, OnDevice, Joins
      <4> QED
        BY <4>1, FS_Subset, FS_CardinalityType, ConferenceAssumption DEF ConferenceAssumption
    <3>2. /\ conf.refs \in Int /\ conf.lost \in Nat
          /\ conf.refs - Owed(conf, cmd) - Holders(part) = 0
      BY <2>2 DEF Sound, Good, Shape, Balance
    <3>3. /\ One(conf.listed) \in Nat /\ One(conf.setup \in {"creating", "created"}) \in Nat
          /\ One(cmd # Idle) \in Nat
      BY DEF One
    <3>4. /\ Owed(conf, cmd) = One(conf.listed) + conf.lost
               + One(conf.setup \in {"creating", "created"}) + One(cmd # Idle)
          /\ Holders(part) = Cardinality(Alive(part)) + Cardinality(OnCall(part))
               + Cardinality(OnDevice(part)) + Cardinality(Joins(part))
      BY ONLY Zenon DEF Owed, Holders
    <3>5. ASSUME NEW r \in Int, NEW l \in Nat, NEW g \in Nat, NEW s \in Nat, NEW c \in Nat,
                 NEW a \in Nat, NEW b \in Nat, NEW d \in Nat, NEW j \in Nat,
                 r - (l + g + s + c) - (a + b + d + j) = 0
          PROVE  r = l + g + s + c + a + b + d + j
      BY ONLY <3>5
    <3>6. conf.refs - (One(conf.listed) + conf.lost
               + One(conf.setup \in {"creating", "created"}) + One(cmd # Idle))
             - (Cardinality(Alive(part)) + Cardinality(OnCall(part))
               + Cardinality(OnDevice(part)) + Cardinality(Joins(part))) = 0
      BY ONLY <3>2, <3>4, Zenon
    <3> QED
      BY ONLY <3>1, <3>2, <3>3, <3>5, <3>6
  <2> QED
    BY <2>1, <2>2 DEF IInv
<1> QED
  BY <1>1, SpecKeeps, PTL

\* No party that moderates is left out of the count on which the end depends.
THEOREM ModeratorsAreCounted == Spec => []ModeratorsCounted
<1> DEFINE Mods == {p \in Parties : part[p].life = "alive" /\ part[p].mod}
<1>1. IInv => ModeratorsCounted
  <2> SUFFICES ASSUME IInv, conf.state = "up"
               PROVE  conf.mods >= Cardinality(Mods)
    BY DEF ModeratorsCounted
  <2> USE Fields
  <2>1. Mods \subseteq Moderating(part) /\ Moderating(part) \subseteq Parties
    BY DEF Moderating, Moderates
  <2> HIDE DEF Mods
  <2>2. IsFiniteSet(Moderating(part)) /\ Cardinality(Moderating(part)) \in Nat
    BY <2>1, FS_Subset, FS_CardinalityType, ConferenceAssumption DEF ConferenceAssumption
  <2>3. Cardinality(Mods) <= Cardinality(Moderating(part)) /\ Cardinality(Mods) \in Nat
    BY <2>1, <2>2, FS_Subset, FS_CardinalityType
  <2>4. CASE Fresh(World)
    <3>1. Cardinality(Moderating(part)) = 0
      BY <2>4, NobodyHolds
    <3> QED
      BY <2>3, <2>4, <3>1 DEF Fresh, IInv, Shape
  <2>5. CASE Sound(World)
    <3>1. conf.mods \in Int /\ conf.mods - Cardinality(Moderating(part)) >= 0
      BY <2>5 DEF Sound, Good, Shape, Surplus
    <3> QED
      BY <2>2, <2>3, <3>1
  <2> QED
    BY <2>4, <2>5 DEF IInv
<1> QED
  BY <1>1, SpecKeeps, PTL

\* Whoever ends the conference, and however many do at once, it is in no list
\* when the last of them is done.
THEOREM EndedIsInNoList == Spec => []EndedIsUnlisted
<1>1. IInv => EndedIsUnlisted
  <2> USE Fields
  <2>1. Fresh(World) => ~conf.listed
    BY DEF Fresh
  <2>2. Sound(World) /\ conf.finishing > 0 /\ conf.listed => Unlists(end)
    BY DEF Sound, Good, EndFacts
  <2>3. Unlists(end) => Ending(World)
    BY DEF Unlists, Ending
  <2> QED
    BY <2>1, <2>2, <2>3 DEF IInv, EndedIsUnlisted
<1> QED
  BY <1>1, SpecKeeps, PTL

=============================================================================
