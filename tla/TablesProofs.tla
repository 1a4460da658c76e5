---------------------------- MODULE TablesProofs ----------------------------
(***************************************************************************)
(* Of SoftKeys, for any files, labels and modes and any number of reloads: *)
(* the set a phone works with is loaded, and the bits that switch keys off *)
(* by their place agree with what was said of their labels.  Of CallInfo,  *)
(* for any phones of a line and any number of handlers of Asterisk and of  *)
(* the phones, step by step in any order: the parties of a call are        *)
(* persons, and a call that has ended is shown nowhere.                    *)
(***************************************************************************)
EXTENDS SoftKeys, CallInfo, SequenceTheorems, TLAPS

-----------------------------------------------------------------------------
(* Soft keys *)


(* The sets of a file (sccp_config_readDevicesLines), and what a phone may *)
(* hold of them.                                                           *)
SetsOf(f) == WithDefault(SetsUpTo(f, Len(f)))
NoSets == [x \in {} |-> x]
SetsOfFiles == {SetsOf(f) : f \in KeyFiles} \cup {NoSets}
AllKeys == {NoKeys} \cup UNION {{s[n].keys : n \in DOMAIN s} : s \in SetsOfFiles}
AllUris == {{}} \cup UNION {{s[n].uri : n \in DOMAIN s} : s \in SetsOfFiles}
Units ==
  [wish : KeySetNames, set : KeySetNames \cup {"default", NoSet}, keys : AllKeys, last : AllKeys,
   uri : AllUris, between : BOOLEAN, shows : BOOLEAN, granted : {Labels, Labels \ {"TRANSFER"}}, small : BOOLEAN,
   conference : BOOLEAN, mayConfer : BOOLEAN, transfer : {"never", "no", "asking", "calling"},
   redial : BOOLEAN, reloads : Nat, steps : Nat]

(* A function of the modes of a phone.                                     *)
IsOfModes(f) == f = [m \in KeyModes |-> f[m]]

TypeOK ==
  /\ file \in KeyFiles /\ sets \in SetsOfFiles
  /\ reading \in {"no", "freed next", "freed", "read"}
  /\ unit \in Units
  /\ IsOfModes(mask) /\ IsOfModes(said)
  /\ DOMAIN screen = {"keys", "mode"}

(* While the sets are freed and read again, a phone has no set but one it  *)
(* asked for since (sccp_device_pre_reload, handle_soft_key_set_req).      *)
LetGo == reading # "no" => unit.set = NoSet \/ unit.between

LoadedInv == TypeOK /\ LetGo /\ SetIsLoaded

(* The keys by which the bits are found are those the phone was given last. *)
KeysAreLast == unit.set # NoSet => unit.keys = unit.last

(* A phone that was given keys has them on its screen, with its gaps; one  *)
(* that was not has none, and nothing is switched off.                     *)
ScreenIsLast ==
  IF unit.shows THEN screen.keys = Placed(unit.last)
  ELSE screen.keys = NoKeys /\ \A m \in KeyModes : mask[m] = {} /\ said[m] = {}

(* The places that are off are those of the labels said to be off.         *)
Agree(places, keys, labels) ==
  /\ places \subseteq DOMAIN keys
  /\ \A p \in DOMAIN keys : p \in places <=> keys[p] \in labels
BitsFollow == \A m \in KeyModes : Agree(mask[m], unit.last[m], said[m])

OffersInv == TypeOK /\ (~apart => KeysAreLast /\ ScreenIsLast /\ BitsFollow)

-----------------------------------------------------------------------------
(* What a set that is loaded gives a phone is of its kind.                 *)
LEMMA LoadedKeys ==
  ASSUME NEW s \in SetsOfFiles, NEW n \in DOMAIN s
  PROVE  s[n].keys \in AllKeys /\ s[n].uri \in AllUris
BY DEF AllKeys, AllUris

(* A phone finds a set that is loaded, or none.                            *)
LEMMA FindsLoaded ==
  ASSUME TypeOK
  PROVE  /\ FoundSet \in KeySetNames \cup {"default", NoSet}
         /\ FoundSet # NoSet => FoundSet \in DOMAIN sets
BY DEF FoundSet, TypeOK, Units

(* A function of the modes stays one, and changes in one mode.             *)
LEMMA OneMode ==
  ASSUME NEW f, IsOfModes(f), NEW m \in KeyModes, NEW v
  PROVE  /\ IsOfModes([f EXCEPT ![m] = v])
         /\ [f EXCEPT ![m] = v][m] = v
         /\ \A k \in KeyModes : k # m => [f EXCEPT ![m] = v][k] = f[k]
<1>1. [f EXCEPT ![m] = v] = [k \in KeyModes |-> IF k = m THEN v ELSE f[k]]
  BY DEF IsOfModes
<1>2. QED
  BY <1>1 DEF IsOfModes

LEMMA SwitchedShape ==
  ASSUME NEW b, IsOfModes(b), NEW keys, NEW m \in KeyModes, NEW on, NEW off
  PROVE  /\ IsOfModes(Switched(b, keys, m, on, off))
         /\ Switched(b, keys, m, on, off)[m] =
              (b[m] \cup Places(keys[m], off)) \ Places(keys[m], on)
<1> DEFINE v == (b[m] \cup Places(keys[m], off)) \ Places(keys[m], on)
<1>1. Switched(b, keys, m, on, off) = [b EXCEPT ![m] = v]
  BY DEF Switched
<1> HIDE DEF v
<1>2. IsOfModes([b EXCEPT ![m] = v]) /\ [b EXCEPT ![m] = v][m] = v
  BY OneMode
<1>3. QED
  BY <1>1, <1>2 DEF v

LEMMA SwitchedElsewhere ==
  ASSUME NEW b, IsOfModes(b), NEW keys, NEW m \in KeyModes, NEW on, NEW off,
         NEW k \in KeyModes, k # m
  PROVE  Switched(b, keys, m, on, off)[k] = b[k]
<1> DEFINE v == (b[m] \cup Places(keys[m], off)) \ Places(keys[m], on)
<1>1. Switched(b, keys, m, on, off) = [b EXCEPT ![m] = v]
  BY DEF Switched
<1>2. [b EXCEPT ![m] = v][k] = b[k]
  <2> HIDE DEF v
  <2> QED BY OneMode
<1>3. QED
  BY <1>1, <1>2

LEMMA SayingShape ==
  ASSUME NEW s, IsOfModes(s), NEW m \in KeyModes, NEW on, NEW off
  PROVE  /\ IsOfModes(Saying(s, m, on, off))
         /\ Saying(s, m, on, off)[m] = (s[m] \cup off) \ on
         /\ \A k \in KeyModes : k # m => Saying(s, m, on, off)[k] = s[k]
BY OneMode DEF Saying

(* Switching by place and saying by label agree if they did before         *)
(* (sccp_softkey_setSoftkeyState).                                         *)
LEMMA AgreeSwitched ==
  ASSUME NEW b, NEW keys, NEW s, NEW on, NEW off, Agree(b, keys, s)
  PROVE  Agree((b \cup Places(keys, off)) \ Places(keys, on), keys, (s \cup off) \ on)
BY DEF Agree, Places

(* Where nothing is said to be off no place is, whatever the keys.         *)
LEMMA AgreeQuiet ==
  ASSUME NEW b, NEW keys, NEW other, Agree(b, keys, {})
  PROVE  b = {} /\ Agree(b, other, {})
BY DEF Agree

(* One more step of the phone or reload, and what goes with it.            *)
LEMMA UnitSteps ==
  ASSUME unit \in Units
  PROVE  /\ unit.steps + 1 \in Nat /\ unit.reloads + 1 \in Nat
         /\ [unit EXCEPT !.steps = @ + 1] \in Units
         /\ [unit EXCEPT !.redial = TRUE, !.steps = @ + 1] \in Units
         /\ [unit EXCEPT !.conference = ~@, !.steps = @ + 1] \in Units
         /\ \A t \in {"no", "asking", "calling"} : [unit EXCEPT !.transfer = t, !.steps = @ + 1] \in Units
         /\ [unit EXCEPT !.set = NoSet, !.keys = NoKeys, !.uri = {}, !.reloads = @ + 1] \in Units
<1>1. unit.steps + 1 \in Nat /\ unit.reloads + 1 \in Nat /\ (~unit.conference) \in BOOLEAN
  BY DEF Units
<1>2. NoKeys \in AllKeys /\ {} \in AllUris
  BY DEF AllKeys, AllUris
<1>3. [unit EXCEPT !.steps = @ + 1] \in Units
  BY <1>1 DEF Units
<1>4. [unit EXCEPT !.redial = TRUE, !.steps = @ + 1] \in Units
  BY <1>1 DEF Units
<1>5. [unit EXCEPT !.conference = ~@, !.steps = @ + 1] \in Units
  BY <1>1 DEF Units
<1>6. ASSUME NEW t \in {"no", "asking", "calling"}
      PROVE  [unit EXCEPT !.transfer = t, !.steps = @ + 1] \in Units
  BY <1>1 DEF Units
<1>7. [unit EXCEPT !.set = NoSet, !.keys = NoKeys, !.uri = {}, !.reloads = @ + 1] \in Units
  BY <1>1, <1>2 DEF Units
<1>8. QED
  BY <1>1, <1>3, <1>4, <1>5, <1>6, <1>7

-----------------------------------------------------------------------------
(* What the steps do to the types.                                         *)
LEMMA TypesHold == TypeOK /\ [KeysNext]_keyVars => TypeOK'
<1> SUFFICES ASSUME TypeOK, [KeysNext]_keyVars PROVE TypeOK'
  OBVIOUS
<1>1. CASE KeySetReq
  <2> DEFINE found == FoundSet
             keys == IF found = NoSet THEN NoKeys ELSE sets[found].keys
             uri == IF found = NoSet THEN {} ELSE sets[found].uri
  <2>1. keys \in AllKeys /\ uri \in AllUris
    BY FindsLoaded, LoadedKeys DEF TypeOK, AllKeys, AllUris
  <2>2. unit' = [unit EXCEPT !.set = found, !.keys = keys, !.shows = TRUE,
                             !.last = keys, !.between = (reading # "no"), !.uri = uri]
    BY <1>1 DEF KeySetReq
  <2>3. unit' \in Units
    <3> HIDE DEF keys, uri, found
    <3>1. found \in KeySetNames \cup {"default", NoSet}
      BY FindsLoaded DEF found
    <3>2. QED
      BY <2>1, <2>2, <3>1 DEF TypeOK, Units
  <2>4. IsOfModes(mask)' /\ IsOfModes(said)'
    BY <1>1 DEF KeySetReq, IsOfModes
  <2>5. DOMAIN screen' = {"keys", "mode"}
    BY <1>1 DEF KeySetReq, TypeOK
  <2>6. QED
    BY <1>1, <2>3, <2>4, <2>5 DEF KeySetReq, TypeOK
<1>2. ASSUME NEW m \in KeyModes, SetKeyset(m) PROVE TypeOK'
  <2>1. PICK k \in KeyModes :
          /\ mask' = Switch(k, OnFor(k), OffFor(k))
          /\ said' = Saying(said, k, OnFor(k), OffFor(k))
    BY <1>2 DEF SetKeyset
  <2>2. IsOfModes(mask)'
    <3>1. CASE unit.set = NoSet
      BY <2>1, <3>1 DEF Switch, TypeOK
    <3>2. CASE unit.set # NoSet
      BY <2>1, <3>2, SwitchedShape DEF Switch, TypeOK
    <3>3. QED
      BY <3>1, <3>2
  <2>6. IsOfModes(said)'
    BY <2>1, SayingShape DEF TypeOK
  <2>3. unit' \in Units
    BY <1>2, UnitSteps DEF SetKeyset, TypeOK
  <2>4. DOMAIN screen' = {"keys", "mode"}
    BY <1>2 DEF SetKeyset, TypeOK
  <2>5. QED
    BY <1>2, <2>2, <2>3, <2>4, <2>6 DEF SetKeyset, TypeOK
<1>3. ASSUME NEW modes, NEW on, NEW off, Says(modes, on, off),
             unit' \in Units
      PROVE  TypeOK'
  BY <1>3 DEF Says, TypeOK, IsOfModes
<1>4. CASE Dialled \/ \E yes \in BOOLEAN : VideoFound(yes)
  <2>1. unit' \in Units
    BY <1>4, UnitSteps DEF Dialled, VideoFound, TypeOK
  <2>2. QED
    BY <1>3, <1>4, <2>1 DEF Dialled, VideoFound
<1>5. CASE Conferring \/ \E t \in {"no", "asking", "calling"} : Transferring(t)
  BY <1>5, UnitSteps DEF Conferring, Transferring, TypeOK
<1>6. ASSUME NEW f \in KeyFiles, KeysPreReload(f) PROVE TypeOK'
  <2>2. unit' \in Units
    BY <1>6, UnitSteps DEF KeysPreReload, TypeOK
  <2>3. QED
    BY <1>6, <2>2 DEF KeysPreReload, TypeOK
<1>7. CASE KeysClear
  BY <1>7 DEF KeysClear, TypeOK, SetsOfFiles, NoSets
<1>8. CASE KeysRead
  BY <1>8 DEF KeysRead, TypeOK, SetsOfFiles, SetsOf
<1>9. CASE KeysPostReload
  <2> DEFINE keys == sets[unit.wish].keys
             uri == sets[unit.wish].uri
  <2>1. CASE unit.wish \in DOMAIN sets
    <3>1. keys \in AllKeys /\ uri \in AllUris
      BY <2>1, LoadedKeys DEF TypeOK
    <3>2. unit' = [unit EXCEPT !.set = unit.wish, !.keys = keys, !.last = keys, !.between = FALSE, !.uri = uri]
      BY <1>9, <2>1 DEF KeysPostReload
    <3>3. unit' \in Units
      <4> HIDE DEF keys, uri
      <4> QED BY <3>1, <3>2 DEF TypeOK, Units
    <3>4. QED
      BY <1>9, <3>3 DEF KeysPostReload, TypeOK
  <2>2. CASE unit.wish \notin DOMAIN sets
    BY <1>9, <2>2 DEF KeysPostReload, TypeOK
  <2>3. QED
    BY <2>1, <2>2
<1>10. CASE UNCHANGED keyVars
  BY <1>10 DEF keyVars, TypeOK
<1>11. QED
  BY <1>1, <1>2, <1>4, <1>5, <1>6, <1>7, <1>8, <1>9, <1>10 DEF KeysNext

(* What a phone that has not asked for its keys begins with.               *)
LEMMA Initially == KeysInit => LoadedInv /\ OffersInv
<1> SUFFICES ASSUME KeysInit PROVE LoadedInv /\ OffersInv
  OBVIOUS
<1>1. NoKeys \in AllKeys /\ {} \in AllUris
  BY DEF AllKeys, AllUris
<1>2. unit \in Units /\ unit.set = NoSet /\ ~unit.shows /\ unit.last = NoKeys
  <2>1. unit \in AnyUnit
    BY DEF KeysInit
  <2>2. unit \in Units
    <3>1. /\ unit.wish \in KeySetNames /\ unit.set = NoSet /\ unit.keys = NoKeys /\ unit.last = NoKeys
          /\ unit.uri = {} /\ unit.granted \in {Labels, Labels \ {"TRANSFER"}}
      BY <2>1 DEF AnyUnit
    <3>2. unit.between = FALSE /\ unit.shows = FALSE /\ unit.conference = FALSE /\ unit.redial = FALSE
      BY <2>1 DEF AnyUnit
    <3>3. /\ unit.small \in BOOLEAN /\ unit.mayConfer \in BOOLEAN
          /\ unit.transfer \in {"never", "no"} /\ unit.reloads = 0 /\ unit.steps = 0
      BY <2>1 DEF AnyUnit
    <3>4. unit = [wish |-> unit.wish, set |-> unit.set, keys |-> unit.keys, last |-> unit.last,
                  uri |-> unit.uri, between |-> unit.between, shows |-> unit.shows,
                  granted |-> unit.granted, small |-> unit.small, conference |-> unit.conference,
                  mayConfer |-> unit.mayConfer, transfer |-> unit.transfer, redial |-> unit.redial,
                  reloads |-> unit.reloads, steps |-> unit.steps]
      BY <2>1 DEF AnyUnit
    <3>5. /\ unit.set \in KeySetNames \cup {"default", NoSet}
          /\ unit.keys \in AllKeys /\ unit.last \in AllKeys /\ unit.uri \in AllUris
          /\ unit.transfer \in {"never", "no", "asking", "calling"}
          /\ unit.reloads \in Nat /\ unit.steps \in Nat
      BY <1>1, <3>1, <3>3
    <3>6. /\ unit.between \in BOOLEAN /\ unit.shows \in BOOLEAN /\ unit.conference \in BOOLEAN
          /\ unit.redial \in BOOLEAN
      BY <3>2
    <3>7. QED
      BY <3>1, <3>3, <3>4, <3>5, <3>6, Zenon DEF Units
  <2>3. QED
    BY <2>1, <2>2 DEF AnyUnit
<1>3. TypeOK
  BY <1>2 DEF KeysInit, TypeOK, SetsOfFiles, SetsOf, IsOfModes
<1>4. LetGo /\ SetIsLoaded
  BY <1>2 DEF KeysInit, LetGo, SetIsLoaded
<1>5. KeysAreLast /\ ScreenIsLast /\ BitsFollow
  BY <1>2 DEF KeysInit, KeysAreLast, ScreenIsLast, BitsFollow, Agree
<1>6. QED
  BY <1>3, <1>4, <1>5 DEF LoadedInv, OffersInv

-----------------------------------------------------------------------------
(* A step keeps the phone with a set that is loaded: the reload takes the  *)
(* sets away only after the phones let go of them, and what a phone asks   *)
(* for in between is marked.                                               *)
LEMMA LoadedStep == LoadedInv /\ [KeysNext]_keyVars => LoadedInv'
<1> SUFFICES ASSUME LoadedInv, [KeysNext]_keyVars PROVE LetGo' /\ SetIsLoaded'
  BY TypesHold DEF LoadedInv
<1> USE DEF LoadedInv
<1>1. CASE KeySetReq
  <2>1. /\ unit'.set = FoundSet /\ unit'.between = (reading # "no")
        /\ FoundSet # NoSet => unit'.keys = sets[FoundSet].keys /\ unit'.uri = sets[FoundSet].uri
        /\ reading' = reading /\ sets' = sets
    BY <1>1 DEF KeySetReq, TypeOK, Units
  <2>2. QED
    BY <2>1, FindsLoaded DEF LetGo, SetIsLoaded
<1>2. ASSUME /\ unit'.set = unit.set /\ unit'.keys = unit.keys /\ unit'.uri = unit.uri
             /\ unit'.between = unit.between /\ reading' = reading /\ sets' = sets
      PROVE  LetGo' /\ SetIsLoaded'
  BY <1>2 DEF LetGo, SetIsLoaded
<1>3. CASE \E m \in KeyModes : SetKeyset(m)
  BY <1>2, <1>3 DEF SetKeyset, TypeOK, Units
<1>4. CASE Dialled \/ \E yes \in BOOLEAN : VideoFound(yes)
  BY <1>2, <1>4 DEF Dialled, VideoFound, Says, TypeOK, Units
<1>5. CASE Conferring \/ \E t \in {"no", "asking", "calling"} : Transferring(t)
  BY <1>2, <1>5 DEF Conferring, Transferring, TypeOK, Units
<1>6. CASE \E f \in KeyFiles : KeysPreReload(f)
  BY <1>6 DEF KeysPreReload, LetGo, SetIsLoaded, TypeOK, Units
<1>7. CASE KeysClear \/ KeysRead
  BY <1>7 DEF KeysClear, KeysRead, LetGo, SetIsLoaded
<1>8. CASE KeysPostReload
  <2>1. CASE unit.wish \in DOMAIN sets
    <3>1. /\ unit'.set = unit.wish /\ unit'.keys = sets[unit.wish].keys
          /\ unit'.uri = sets[unit.wish].uri /\ reading' = "no" /\ sets' = sets
      BY <1>8, <2>1 DEF KeysPostReload, TypeOK, Units
    <3>2. QED
      BY <2>1, <3>1 DEF LetGo, SetIsLoaded
  <2>2. CASE unit.wish \notin DOMAIN sets
    BY <1>8, <2>2 DEF KeysPostReload, LetGo, SetIsLoaded
  <2>3. QED
    BY <2>1, <2>2
<1>9. CASE UNCHANGED keyVars
  BY <1>2, <1>9 DEF keyVars
<1>10. QED
  BY <1>1, <1>3, <1>4, <1>5, <1>6, <1>7, <1>8, <1>9 DEF KeysNext

(***************************************************************************)
(* Outside a reload a phone works with the keys of a set that is loaded    *)
(* (sccp_softkey_clear, sccp_softkey_post_reload).                         *)
(***************************************************************************)
THEOREM SetsStayLoaded == KeysSpec => []SetIsLoaded
<1>1. KeysInit => LoadedInv
  BY Initially
<1>2. LoadedInv /\ [KeysNext]_keyVars => LoadedInv'
  BY LoadedStep
<1>3. LoadedInv => SetIsLoaded
  BY DEF LoadedInv
<1>4. QED
  BY <1>1, <1>2, <1>3, PTL DEF KeysSpec

-----------------------------------------------------------------------------
(* What is switched and said at once, in some of the modes.                *)
LEMMA BitsSwitched ==
  ASSUME TypeOK, KeysAreLast, BitsFollow, NEW m \in KeyModes, NEW on, NEW off,
         unit.set # NoSet \/ on \cup off = {}
  PROVE  Agree(Switch(m, on, off)[m], unit.last[m], Saying(said, m, on, off)[m])
<1>1. Agree(mask[m], unit.last[m], said[m]) /\ IsOfModes(mask) /\ IsOfModes(said)
  BY DEF BitsFollow, TypeOK
<1>5. Saying(said, m, on, off)[m] = (said[m] \cup off) \ on
  BY <1>1, SayingShape
<1>2. CASE unit.set # NoSet
  <2>1. Switch(m, on, off) = Switched(mask, unit.last, m, on, off)
    BY <1>2 DEF Switch, KeysAreLast
  <2>2. Switched(mask, unit.last, m, on, off)[m] =
          (mask[m] \cup Places(unit.last[m], off)) \ Places(unit.last[m], on)
    BY <1>1, SwitchedShape
  <2>3. QED
    BY <1>1, <1>5, <2>1, <2>2, AgreeSwitched
<1>3. CASE unit.set = NoSet /\ on \cup off = {}
  <2>1. Switch(m, on, off) = mask /\ (said[m] \cup off) \ on = said[m]
    BY <1>3 DEF Switch
  <2>2. QED
    BY <1>1, <1>5, <2>1
<1>4. QED
  BY <1>2, <1>3

(* The other modes stay as they are.                                       *)
LEMMA BitsElsewhere ==
  ASSUME TypeOK, NEW m \in KeyModes, NEW k \in KeyModes, k # m, NEW on, NEW off
  PROVE  Switch(m, on, off)[k] = mask[k] /\ Saying(said, m, on, off)[k] = said[k]
<1>1. IsOfModes(mask) /\ IsOfModes(said)
  BY DEF TypeOK
<1>2. Saying(said, m, on, off)[k] = said[k]
  BY <1>1, SayingShape
<1>3. Switched(mask, unit.keys, m, on, off)[k] = mask[k]
  BY <1>1, SwitchedElsewhere
<1>4. QED
  BY <1>2, <1>3 DEF Switch

(***************************************************************************)
(* What the phone was given and what it has change only when it asks and   *)
(* when a reload gives it its set again.                                   *)
(***************************************************************************)
LEMMA OffersStep == OffersInv /\ [KeysNext]_keyVars => OffersInv'
<1> SUFFICES ASSUME OffersInv, [KeysNext]_keyVars, ~apart'
             PROVE  KeysAreLast' /\ ScreenIsLast' /\ BitsFollow'
  BY TypesHold DEF OffersInv
<1>1. ~apart
  BY Zenon DEF KeysNext, keyVars, KeySetReq, SetKeyset, VideoFound, Dialled, Says, Conferring,
               Transferring, KeysPreReload, KeysClear, KeysRead, KeysPostReload
<1>2. TypeOK /\ KeysAreLast /\ ScreenIsLast /\ BitsFollow
  BY <1>1 DEF OffersInv
<1>3. CASE KeySetReq
  <2> DEFINE found == FoundSet
             keys == IF found = NoSet THEN NoKeys ELSE sets[found].keys
             some == KeyModes \ Stealable
             off == {"VIDEO_MODE", "JOIN"}
  <2>1. /\ unit'.set = found /\ unit'.keys = keys /\ unit'.last = keys /\ unit'.shows
        /\ unit'.granted = unit.granted /\ screen'.keys = Placed(keys)
    BY <1>2, <1>3 DEF KeySetReq, TypeOK, Units
  <2>2. /\ mask' = [m \in KeyModes |->
                       IF m \in some /\ found # NoSet THEN Switched(mask, keys, m, {}, off)[m] ELSE mask[m]]
        /\ said' = [m \in KeyModes |->
                       IF m \in some /\ found # NoSet THEN Saying(said, m, {}, off)[m] ELSE said[m]]
        /\ keys = unit.last \/ \A m \in KeyModes : said[m] = {}
    BY <1>3 DEF KeySetReq
  <2> HIDE DEF found, keys, off
  <2>3. KeysAreLast' /\ ScreenIsLast'
    BY <2>1 DEF KeysAreLast, ScreenIsLast, Placed
  <2>4. ASSUME NEW m \in KeyModes PROVE Agree(mask[m], keys[m], said[m])
    BY <1>2, <2>2, AgreeQuiet DEF BitsFollow
  <2>5. ASSUME NEW m \in KeyModes PROVE Agree(mask'[m], keys[m], said'[m])
    <3>1. CASE m \in some /\ found # NoSet
      <4>1. /\ mask'[m] = (mask[m] \cup Places(keys[m], off)) \ Places(keys[m], {})
            /\ said'[m] = (said[m] \cup off) \ {}
        <5>1. IsOfModes(mask) /\ IsOfModes(said)
          BY <1>2 DEF TypeOK
        <5>2. Switched(mask, keys, m, {}, off)[m] = (mask[m] \cup Places(keys[m], off)) \ Places(keys[m], {})
          BY <5>1, SwitchedShape
        <5>3. Saying(said, m, {}, off)[m] = (said[m] \cup off) \ {}
          BY <5>1, SayingShape
        <5>4. QED
          BY <2>2, <3>1, <5>2, <5>3
      <4>2. QED
        BY <2>4, <4>1, AgreeSwitched
    <3>2. CASE ~(m \in some /\ found # NoSet)
      BY <2>2, <2>4, <3>2
    <3>3. QED
      BY <3>1, <3>2
  <2>6. QED
    BY <2>1, <2>3, <2>5 DEF BitsFollow
<1>4. ASSUME /\ unit'.set = unit.set /\ unit'.keys = unit.keys /\ unit'.last = unit.last
             /\ unit'.shows = unit.shows /\ unit'.granted = unit.granted /\ screen'.keys = screen.keys
             /\ unit.shows \/ \A m \in KeyModes : mask'[m] = mask[m] /\ said'[m] = said[m]
      PROVE  KeysAreLast' /\ ScreenIsLast'
  BY <1>2, <1>4 DEF KeysAreLast, ScreenIsLast, Placed
<1>5. ASSUME NEW a \in KeyModes, SetKeyset(a) PROVE KeysAreLast' /\ ScreenIsLast' /\ BitsFollow'
  <2>1. PICK m \in KeyModes :
          /\ mask' = Switch(m, OnFor(m), OffFor(m))
          /\ said' = Saying(said, m, OnFor(m), OffFor(m))
          /\ ~Lost(OnFor(m), OffFor(m))
    BY <1>5 DEF SetKeyset
  <2>2. /\ unit'.set = unit.set /\ unit'.keys = unit.keys /\ unit'.last = unit.last
        /\ unit'.shows = unit.shows /\ unit'.granted = unit.granted /\ screen'.keys = screen.keys
        /\ unit.shows
    BY <1>2, <1>5 DEF SetKeyset, TypeOK, Units
  <2>3. unit.set # NoSet \/ OnFor(m) \cup OffFor(m) = {}
    BY <2>1, <2>2 DEF Lost
  <2>4. ASSUME NEW k \in KeyModes PROVE Agree(mask'[k], unit.last[k], said'[k])
    BY <1>2, <2>1, <2>3, BitsSwitched, BitsElsewhere DEF BitsFollow
  <2>5. QED
    BY <1>4, <2>2, <2>4 DEF BitsFollow
<1>6. ASSUME NEW modes, NEW on, NEW off, Says(modes, on, off),
             /\ unit'.set = unit.set /\ unit'.keys = unit.keys /\ unit'.last = unit.last
             /\ unit'.shows = unit.shows /\ unit'.granted = unit.granted /\ unit.shows
      PROVE  KeysAreLast' /\ ScreenIsLast' /\ BitsFollow'
  <2>1. unit.set # NoSet \/ on \cup off = {}
    BY <1>6 DEF Says, Lost
  <2>2. ASSUME NEW k \in KeyModes PROVE Agree(mask'[k], unit.last[k], said'[k])
    BY <1>2, <1>6, <2>1, BitsSwitched DEF BitsFollow, Says
  <2>3. screen' = screen
    BY <1>6 DEF Says
  <2>4. QED
    BY <1>4, <1>6, <2>2, <2>3 DEF BitsFollow
<1>7. CASE Dialled \/ \E yes \in BOOLEAN : VideoFound(yes)
  <2>1. /\ unit'.set = unit.set /\ unit'.keys = unit.keys /\ unit'.last = unit.last
        /\ unit'.shows = unit.shows /\ unit'.granted = unit.granted /\ unit.shows
    BY <1>2, <1>7 DEF Dialled, VideoFound, TypeOK, Units
  <2>2. QED
    BY <1>6, <1>7, <2>1 DEF Dialled, VideoFound
<1>8. CASE Conferring \/ \E t \in {"no", "asking", "calling"} : Transferring(t)
  <2>1. /\ unit'.set = unit.set /\ unit'.keys = unit.keys /\ unit'.last = unit.last
        /\ unit'.shows = unit.shows /\ unit'.granted = unit.granted
        /\ mask' = mask /\ said' = said /\ screen' = screen
    BY <1>2, <1>8 DEF Conferring, Transferring, TypeOK, Units
  <2>2. QED
    BY <1>2, <1>4, <2>1 DEF BitsFollow
<1>9. CASE \E f \in KeyFiles : KeysPreReload(f)
  <2>1. /\ unit'.set = NoSet /\ unit'.last = unit.last
        /\ unit'.shows = unit.shows /\ unit'.granted = unit.granted
        /\ mask' = mask /\ said' = said /\ screen' = screen
    BY <1>2, <1>9 DEF KeysPreReload, TypeOK, Units
  <2>2. QED
    BY <1>2, <2>1 DEF KeysAreLast, ScreenIsLast, Placed, BitsFollow
<1>10. CASE KeysClear \/ KeysRead \/ UNCHANGED keyVars
  <2>1. unit' = unit /\ mask' = mask /\ said' = said /\ screen' = screen
    BY <1>10 DEF KeysClear, KeysRead, keyVars
  <2>2. QED
    BY <1>2, <2>1 DEF KeysAreLast, ScreenIsLast, Placed, BitsFollow
<1>11. CASE KeysPostReload
  <2>1. CASE unit.wish \in DOMAIN sets
    <3>1. /\ unit'.keys = unit'.last /\ unit'.shows = unit.shows /\ unit'.granted = unit.granted
          /\ mask' = mask /\ said' = said /\ screen' = screen
          /\ unit.shows => unit'.last = unit.last
      BY <1>2, <1>11, <2>1 DEF KeysPostReload, TypeOK, Units
    <3>2. KeysAreLast' /\ ScreenIsLast'
      BY <1>2, <3>1 DEF KeysAreLast, ScreenIsLast, Placed
    <3>3. BitsFollow'
      BY <1>2, <3>1 DEF ScreenIsLast, BitsFollow, Agree
    <3>4. QED
      BY <3>2, <3>3
  <2>2. CASE unit.wish \notin DOMAIN sets
    BY <1>2, <1>11, <2>2 DEF KeysPostReload, KeysAreLast, ScreenIsLast, Placed, BitsFollow
  <2>3. QED
    BY <2>1, <2>2
<1>12. QED
  BY <1>3, <1>5, <1>7, <1>8, <1>9, <1>10, <1>11 DEF KeysNext

(***************************************************************************)
(* A key the phone was given is off exactly when that was said last of its *)
(* label, unless a reload moved the keys or took the set away              *)
(* (sccp_softkey_setSoftkeyState, handle_soft_key_set_req).                *)
(***************************************************************************)
THEOREM OffersFollow == KeysSpec => []OffersAsSaid
<1>1. KeysInit => OffersInv
  BY Initially
<1>2. OffersInv /\ [KeysNext]_keyVars => OffersInv'
  BY OffersStep
<1>3. OffersInv => OffersAsSaid
  <2> SUFFICES ASSUME OffersInv, ~apart, NEW m \in KeyModes, NEW p \in DOMAIN screen.keys[m],
                      screen.keys[m][p] # Gap
               PROVE  (p \in mask[m]) <=> (screen.keys[m][p] \in said[m])
    BY DEF OffersAsSaid
  <2>1. ScreenIsLast /\ BitsFollow
    BY DEF OffersInv
  <2>2. CASE unit.shows
    <3>1. p \in DOMAIN unit.last[m] /\ screen.keys[m][p] = unit.last[m][p]
      BY <2>1, <2>2 DEF ScreenIsLast, Placed
    <3>2. QED
      BY <2>1, <3>1 DEF BitsFollow, Agree
  <2>3. CASE ~unit.shows
    BY <2>1, <2>3 DEF ScreenIsLast
  <2>4. QED
    BY <2>2, <2>3
<1>4. QED
  BY <1>1, <1>2, <1>3, PTL DEF KeysSpec

-----------------------------------------------------------------------------
(* Lists of steps *)

\* A handler's steps are a sequence.
IsSteps(s) == s \in Seq(Range(s))

\* Two lists of steps, one after the other.
LEMMA JoinedSteps ==
  ASSUME NEW a, NEW b, IsSteps(a), IsSteps(b)
  PROVE  IsSteps(a \o b) /\ Range(a \o b) = Range(a) \cup Range(b)
<1> DEFINE S == Range(a) \cup Range(b)
<1>1. a \in Seq(S) /\ b \in Seq(S)
  BY DEF IsSteps
<1> HIDE DEF S
<1>2. a \o b \in Seq(S) /\ Range(a \o b) = Range(a) \cup Range(b)
  BY <1>1, ConcatProperties, RangeConcatenation
<1>3. QED
  BY <1>2, SeqOfRange DEF IsSteps

\* A list of one step.
LEMMA SingleSteps ==
  ASSUME NEW x
  PROVE  IsSteps(<<x>>) /\ Range(<<x>>) = {x}
<1>1. DOMAIN <<x>> = {1} /\ <<x>>[1] = x
  OBVIOUS
<1>2. Range(<<x>>) = {x}
  BY <1>1 DEF Range
<1>3. QED
  BY <1>2 DEF IsSteps

\* No steps.
LEMMA NoSteps == IsSteps(<<>>) /\ Range(<<>>) = {}
BY DEF IsSteps, Range

\* Lists of two steps, of three, ...
LEMMA TwoSteps ==
  ASSUME NEW x, NEW y
  PROVE  IsSteps(<<x, y>>) /\ Range(<<x, y>>) = {x, y}
<1>1. DOMAIN <<x, y>> = {1, 2} /\ <<x, y>>[1] = x /\ <<x, y>>[2] = y
  OBVIOUS
<1>2. Range(<<x, y>>) = {x, y}
  BY <1>1 DEF Range
<1>3. QED
  BY <1>2 DEF IsSteps

LEMMA ThreeSteps ==
  ASSUME NEW x, NEW y, NEW z
  PROVE  IsSteps(<<x, y, z>>) /\ Range(<<x, y, z>>) = {x, y, z}
<1>1. DOMAIN <<x, y, z>> = {1, 2, 3} /\ <<x, y, z>>[1] = x /\ <<x, y, z>>[2] = y /\ <<x, y, z>>[3] = z
  OBVIOUS
<1>2. Range(<<x, y, z>>) = {x, y, z}
  BY <1>1 DEF Range
<1>3. QED
  BY <1>2 DEF IsSteps

LEMMA FourSteps ==
  ASSUME NEW x, NEW y, NEW z, NEW w
  PROVE  IsSteps(<<x, y, z, w>>) /\ Range(<<x, y, z, w>>) = {x, y, z, w}
<1>1. /\ DOMAIN <<x, y, z, w>> = {1, 2, 3, 4} /\ <<x, y, z, w>>[1] = x /\ <<x, y, z, w>>[2] = y
      /\ <<x, y, z, w>>[3] = z /\ <<x, y, z, w>>[4] = w
  OBVIOUS
<1>2. Range(<<x, y, z, w>>) = {x, y, z, w}
  BY <1>1 DEF Range
<1>3. QED
  BY <1>2 DEF IsSteps

\* One more step at the end.
LEMMA OneMore ==
  ASSUME NEW s, IsSteps(s), NEW x
  PROVE  IsSteps(Append(s, x)) /\ Range(Append(s, x)) = Range(s) \cup {x}
<1> DEFINE S == Range(s) \cup {x}
<1>1. s \in Seq(S) /\ x \in S
  BY DEF IsSteps
<1>2. Append(s, x) = s \o <<x>>
  <2> HIDE DEF S
  <2> QED BY <1>1, AppendIsConcat
<1>3. QED
  BY <1>2, SingleSteps, JoinedSteps

\* The first step and the others.
LEMMA FirstAndRest ==
  ASSUME NEW s, IsSteps(s), s # <<>>
  PROVE  /\ Head(s) \in Range(s)
         /\ IsSteps(Tail(s)) /\ Range(Tail(s)) \subseteq Range(s)
<1>1. /\ s \in Seq(Range(s)) /\ Len(s) \in Nat /\ Len(s) > 0 /\ DOMAIN s = 1..Len(s)
  BY EmptySeq, LenProperties DEF IsSteps
<1>2. /\ Head(s) = s[1] /\ Tail(s) \in Seq(Range(s)) /\ Len(Tail(s)) = Len(s) - 1
      /\ \A i \in 1..Len(Tail(s)) : Tail(s)[i] = s[i + 1]
  BY <1>1, HeadTailProperties
<1>3. Head(s) \in Range(s)
  BY <1>1, <1>2 DEF Range
<1>4. DOMAIN Tail(s) = 1..Len(Tail(s))
  BY <1>2, LenProperties
<1>5. Range(Tail(s)) \subseteq Range(s)
  <2> SUFFICES ASSUME NEW i \in DOMAIN Tail(s) PROVE Tail(s)[i] \in Range(s)
    BY DEF Range
  <2>1. i + 1 \in DOMAIN s /\ Tail(s)[i] = s[i + 1]
    BY <1>1, <1>2, <1>4
  <2>2. QED
    BY <2>1 DEF Range
<1>6. Tail(s) \in Seq(Range(Tail(s)))
  BY <1>2, SeqOfRange
<1>7. QED
  BY <1>3, <1>5, <1>6 DEF IsSteps

\* Joining nothing, and a first step.
LEMMA Joining ==
  ASSUME NEW a, NEW x, NEW b, IsSteps(a), IsSteps(b)
  PROVE  /\ <<>> \o b = b /\ b \o <<>> = b
         /\ Tail(<<x>>) = <<>> /\ Head(<<x>>) = x
         /\ Head(<<x>> \o b) = x /\ Tail(<<x>> \o b) = b
<1>1. b \in Seq(Range(b)) 
  BY DEF IsSteps
<1>2. <<>> \o b = b /\ b \o <<>> = b
  BY <1>1, ConcatEmptySeq
<1>3. b \in Seq(Range(b) \cup {x}) /\ <<x>> \in Seq(Range(b) \cup {x})
  BY <1>1
<1>4. Tail(<<x>>) = <<>> /\ Head(<<x>>) = x
  OBVIOUS
<1>5. Head(<<x>> \o b) = x /\ Tail(<<x>> \o b) = b
  BY <1>3
<1>6. QED
  BY <1>2, <1>4, <1>5

\* A first step is taken off again.
LEMMA FirstJoined ==
  ASSUME NEW x, NEW b, IsSteps(b)
  PROVE  Head(<<x>> \o b) = x /\ Tail(<<x>> \o b) = b
BY NoSteps, Joining

(* What a step may be: the loops of the code name phones of the line only, *)
(* no step ends the call, and an update tells the phones at most.          *)
WellFormed(e) ==
  /\ e.do \in {"set", "be", "state", "show", "send", "tell", "sent", "ring", "rung", "off", "lock", "others"}
  /\ e.do \in {"show", "send", "others", "ring", "off"} => e.on \in Lookers
  /\ e.do = "state" => e.on \in Lookers \cup {Nobody}
  /\ e.do = "be" => /\ "stage" \notin DOMAIN e.fields
                    /\ "dev" \in DOMAIN e.fields => e.fields.dev \in Lookers \cup {Nobody}
  /\ e.do = "set" => e.then \in {<<>>, <<Tell(TRUE)>>}
Fields == {"stage", "running", "type", "st", "prev", "dev", "called", "elsewhere", "conference", "why", "locked"}
TalkShape == DOMAIN talk = Fields /\ talk.dev \in Lookers \cup {Nobody}
ScreensShape ==
  /\ DOMAIN told = Lookers /\ \A q \in Lookers : DOMAIN told[q] = {"state", "info"}
  /\ DOMAIN busy = Lookers /\ \A q \in Lookers : busy[q] \in {"no", "other", "linked"}
InfoShape == DOMAIN info = {"party", "orig", "last", "open", "changed"} /\ DOMAIN ghost = {"late", "crossed", "partial"}
TodoShape ==
  /\ DOMAIN todo = Threads
  /\ \A t \in Threads : IsSteps(todo[t]) /\ \A e \in Range(todo[t]) : WellFormed(e)
Shape == TalkShape /\ ScreensShape /\ InfoShape /\ TodoShape

\* Steps taken on a condition.
LEMMA IfSteps ==
  ASSUME NEW c, NEW s, IsSteps(s)
  PROVE  /\ IsSteps(If(c, s)) /\ (c => If(c, s) = s) /\ (~c => If(c, s) = <<>>)
         /\ Range(If(c, s)) = IF c THEN Range(s) ELSE {}
BY NoSteps DEF If

\* The phones of the line: at least one, and none of them nobody.
LEMMA TheLookers ==
  /\ Screens \in Seq(Lookers) /\ Len(Screens) \in Nat \ {0} /\ DOMAIN Screens = 1..Len(Screens)
  /\ Screens[1] \in Lookers /\ Nobody \notin Lookers
<1>1. Screens \in Seq(Lookers) /\ Screens # <<>>
  BY ScreensAssumption DEF Lookers
<1>2. Len(Screens) \in Nat \ {0} /\ DOMAIN Screens = 1..Len(Screens)
  BY <1>1, EmptySeq, LenProperties
<1>3. Screens[1] \in Lookers
  BY <1>2 DEF Lookers
<1>4. Nobody \notin Lookers
  BY ScreensAssumption DEF Lookers
<1>5. QED
  BY <1>1, <1>2, <1>3, <1>4

\* sccp_channel_send_callinfo2 sends to every phone of the line.
LEMMA OnEachSends ==
  LET s == OnEach(LAMBDA q : Send(q, FALSE))
  IN  IsSteps(s) /\ Range(s) = {Send(q, FALSE) : q \in Lookers}
<1> DEFINE s == [i \in DOMAIN Screens |-> Send(Screens[i], FALSE)]
<1>1. Range(s) = {Send(q, FALSE) : q \in Lookers}
  BY DEF Range, Lookers
<1>2. Len(Screens) \in Nat /\ DOMAIN Screens = 1..Len(Screens)
  BY TheLookers
<1>3. s \in Seq({Send(q, FALSE) : q \in Lookers})
  <2>1. \A i \in 1..Len(Screens) : Send(Screens[i], FALSE) \in {Send(q, FALSE) : q \in Lookers}
    BY <1>2 DEF Lookers
  <2> DEFINE S == {Send(q, FALSE) : q \in Lookers}
             n == Len(Screens)
             e(i) == Send(Screens[i], FALSE)
  <2>2. n \in Nat /\ \A i \in 1..n : e(i) \in S
    BY <1>2, <2>1
  <2>3. [i \in 1..n |-> e(i)] \in Seq(S)
    <3> HIDE DEF S, n, e
    <3> QED BY <2>2, IsASeq
  <2>4. QED
    BY <2>3, <1>2
<1>4. QED
  BY <1>1, <1>3 DEF IsSteps, OnEach

\* sccp_pbx_call offers the call to every phone of the line.
LEMMA OnEachRings ==
  LET s == OnEach(RingOn)
  IN  IsSteps(s) /\ Range(s) = {RingOn(q) : q \in Lookers}
<1> DEFINE s == [i \in DOMAIN Screens |-> RingOn(Screens[i])]
<1>1. Range(s) = {RingOn(q) : q \in Lookers}
  BY DEF Range, Lookers
<1>2. Len(Screens) \in Nat /\ DOMAIN Screens = 1..Len(Screens)
  BY TheLookers
<1>3. s \in Seq({RingOn(q) : q \in Lookers})
  <2>1. \A i \in 1..Len(Screens) : RingOn(Screens[i]) \in {RingOn(q) : q \in Lookers}
    BY <1>2 DEF Lookers
  <2> DEFINE S == {RingOn(q) : q \in Lookers}
             n == Len(Screens)
             e(i) == RingOn(Screens[i])
  <2>2. n \in Nat /\ \A i \in 1..n : e(i) \in S
    BY <1>2, <2>1
  <2>3. [i \in 1..n |-> e(i)] \in Seq(S)
    <3> HIDE DEF S, n, e
    <3> QED BY <2>2, IsASeq
  <2>4. QED
    BY <2>3, <1>2
<1>4. QED
  BY <1>1, <1>3 DEF IsSteps, OnEach

-----------------------------------------------------------------------------
(* What a phone is sent in each state *)

\* The number that was dialled, as sccp_device_indicate_dialing writes it.
DialledNumber == [called |-> [name |-> Null, number |-> <<"dialled", "number">>]]
Shows == {"offhook", "proceed", "ringout", "ringin", "connected", "hold", "callpark", "calltransfer", "none"}

(* What the phone of the call is sent as the call comes into state s       *)
(* (__sccp_indicate).                                                      *)
StepOf(d, s, e) ==
  \/ s = "dialing" /\ e = Set(Update(DialledNumber))
  \/ s = "progress" /\ e \in {State(d, "ringout", FALSE), State(d, "alerting", FALSE)}
  \/ \E x \in Shows : e = Show(d, x)
  \/ \E f \in BOOLEAN : e = Send(d, f)

\* Showing a state and sending the parties.
LEMMA ShowAndSend ==
  ASSUME NEW d, NEW s, NEW x \in Shows, NEW f \in BOOLEAN
  PROVE  /\ IsSteps(<<Show(d, x), Send(d, f)>>)
         /\ \A e \in Range(<<Show(d, x), Send(d, f)>>) : StepOf(d, s, e)
<1>1. StepOf(d, s, Show(d, x)) /\ StepOf(d, s, Send(d, f))
  BY DEF StepOf, Shows
<1>2. IsSteps(<<Show(d, x), Send(d, f)>>) /\ Range(<<Show(d, x), Send(d, f)>>) = {Show(d, x), Send(d, f)}
  BY TwoSteps
<1>3. QED
  BY <1>1, <1>2

\* Showing a state.
LEMMA OnlyShow ==
  ASSUME NEW d, NEW s, NEW x \in Shows
  PROVE  IsSteps(<<Show(d, x)>>) /\ \A e \in Range(<<Show(d, x)>>) : StepOf(d, s, e)
<1>1. StepOf(d, s, Show(d, x))
  BY DEF StepOf, Shows
<1>2. IsSteps(<<Show(d, x)>>) /\ Range(<<Show(d, x)>>) = {Show(d, x)}
  BY SingleSteps
<1>3. QED
  BY <1>1, <1>2

(* Every branch of __sccp_indicate shows a state, sends the parties,       *)
(* writes the dialled number or goes on to the next state.                 *)
LEMMA StepsOfState ==
  ASSUME NEW d, NEW s, NEW was
  PROVE  IsSteps(StateSteps(d, s, was)) /\ \A e \in Range(StateSteps(d, s, was)) : StepOf(d, s, e)
<1>1. IsSteps(SettingUpSteps(d, s, was)) /\ \A e \in Range(SettingUpSteps(d, s, was)) : StepOf(d, s, e)
  <2>1. CASE s = "offhook"
    <3>1. SettingUpSteps(d, s, was) = <<Show(d, "offhook")>>
      BY <2>1 DEF SettingUpSteps, Offhook
    <3>2. QED
      BY <3>1, OnlyShow DEF Shows
  <2>2. CASE s = "dialing"
    <3>1. IsSteps(Dialing(d)) /\ Range(Dialing(d)) = {Set(Update(DialledNumber)), Send(d, FALSE), Show(d, "proceed")}
      BY ThreeSteps DEF Dialing, DialledNumber
    <3>2. SettingUpSteps(d, s, was) = If(was # "dialing", Dialing(d))
      BY <2>2 DEF SettingUpSteps
    <3>3. StepOf(d, s, Set(Update(DialledNumber))) /\ StepOf(d, s, Send(d, FALSE)) /\ StepOf(d, s, Show(d, "proceed"))
      BY <2>2 DEF StepOf, Shows
    <3>4. \A e \in Range(Dialing(d)) : StepOf(d, s, e)
      BY <3>1, <3>3
    <3>5. QED
      BY <3>1, <3>2, <3>4, IfSteps
  <2>3. CASE s = "ringout"
    <3>1. SettingUpSteps(d, s, was) = <<Show(d, "proceed"), Send(d, FALSE)>>
      BY <2>3 DEF SettingUpSteps
    <3>2. QED
      BY <3>1, ShowAndSend DEF Shows
  <2>4. CASE s = "alerting"
    <3>1. SettingUpSteps(d, s, was) = <<Show(d, "ringout"), Send(d, TRUE)>>
      BY <2>4 DEF SettingUpSteps
    <3>2. QED
      BY <3>1, ShowAndSend DEF Shows
  <2>5. CASE s = "ringing"
    <3>1. SettingUpSteps(d, s, was) = <<Show(d, "ringin"), Send(d, TRUE)>>
      BY <2>5 DEF SettingUpSteps
    <3>2. QED
      BY <3>1, ShowAndSend DEF Shows
  <2>6. CASE s \notin {"offhook", "dialing", "ringout", "alerting", "ringing"}
    BY <2>6, NoSteps DEF SettingUpSteps
  <2>7. QED
    BY <2>1, <2>2, <2>3, <2>4, <2>5, <2>6
<1>2. IsSteps(TalkingSteps(d, s, was)) /\ \A e \in Range(TalkingSteps(d, s, was)) : StepOf(d, s, e)
  <2>1. CASE s = "progress" /\ was = "dialing"
    <3>1. TalkingSteps(d, s, was) = <<State(d, "ringout", FALSE)>>
      BY <2>1 DEF TalkingSteps
    <3>2. StepOf(d, s, State(d, "ringout", FALSE))
      BY <2>1 DEF StepOf
    <3>3. IsSteps(<<State(d, "ringout", FALSE)>>) /\ Range(<<State(d, "ringout", FALSE)>>) = {State(d, "ringout", FALSE)}
      BY SingleSteps
    <3>4. QED
      BY <3>1, <3>2, <3>3
  <2>2. CASE s = "progress" /\ was = "ringout"
    <3>1. TalkingSteps(d, s, was) = <<State(d, "alerting", FALSE)>>
      BY <2>2 DEF TalkingSteps
    <3>2. StepOf(d, s, State(d, "alerting", FALSE))
      BY <2>2 DEF StepOf
    <3>3. IsSteps(<<State(d, "alerting", FALSE)>>) /\ Range(<<State(d, "alerting", FALSE)>>) = {State(d, "alerting", FALSE)}
      BY SingleSteps
    <3>4. QED
      BY <3>1, <3>2, <3>3
  <2>3. CASE s = "proceed"
    <3>1. IsSteps(Proceed(d)) /\ \A e \in Range(Proceed(d)) : StepOf(d, s, e)
      BY ShowAndSend DEF Proceed, Shows
    <3>2. TalkingSteps(d, s, was) = If(was # "connected", Proceed(d))
      BY <2>3 DEF TalkingSteps
    <3>3. QED
      BY <3>1, <3>2, IfSteps
  <2>4. CASE s \in {"connected", "conference"}
    <3>1. TalkingSteps(d, s, was) = <<Show(d, "connected"), Send(d, TRUE)>>
      BY <2>4 DEF TalkingSteps, Connected
    <3>2. QED
      BY <3>1, ShowAndSend DEF Shows
  <2>5. CASE /\ s \notin {"proceed", "connected", "conference"}
             /\ ~(s = "progress" /\ was = "dialing") /\ ~(s = "progress" /\ was = "ringout")
    BY <2>5, NoSteps DEF TalkingSteps
  <2>6. QED
    BY <2>1, <2>2, <2>3, <2>4, <2>5
<1>3. IsSteps(HeldSteps(d, s)) /\ \A e \in Range(HeldSteps(d, s)) : StepOf(d, s, e)
  <2>1. CASE s = "hold"
    <3>1. HeldSteps(d, s) = <<Show(d, "hold"), Send(d, TRUE)>>
      BY <2>1 DEF HeldSteps
    <3>2. QED
      BY <3>1, ShowAndSend DEF Shows
  <2>2. CASE s = "waiting"
    <3> DEFINE w == <<Show(d, "ringin"), Send(d, TRUE)>>
    <3>1. IsSteps(w) /\ \A e \in Range(w) : StepOf(d, s, e)
      BY ShowAndSend DEF Shows
    <3>2. HeldSteps(d, s) = If(busy[d] # "linked", w)
      BY <2>2 DEF HeldSteps
    <3> HIDE DEF w
    <3>3. QED
      BY <3>1, <3>2, IfSteps
  <2>3. CASE s = "callpark"
    <3>1. HeldSteps(d, s) = <<Show(d, "callpark")>>
      BY <2>3 DEF HeldSteps
    <3>2. QED
      BY <3>1, OnlyShow DEF Shows
  <2>4. CASE s = "calltransfer"
    <3>1. HeldSteps(d, s) = <<Show(d, "calltransfer"), Send(d, FALSE)>>
      BY <2>4 DEF HeldSteps
    <3>2. QED
      BY <3>1, ShowAndSend DEF Shows
  <2>5. CASE s \notin {"hold", "waiting", "callpark", "calltransfer"}
    BY <2>5, NoSteps DEF HeldSteps
  <2>6. QED
    BY <2>1, <2>2, <2>3, <2>4, <2>5
<1>4. IsSteps(EndingSteps(d, s)) /\ \A e \in Range(EndingSteps(d, s)) : StepOf(d, s, e)
  <2>1. CASE s = "congestion"
    BY <2>1, SingleSteps DEF EndingSteps, StepOf
  <2>2. CASE s = "onhook"
    <3>1. IsSteps(If(talk.elsewhere, <<Send(d, TRUE)>>)) /\ Range(If(talk.elsewhere, <<Send(d, TRUE)>>)) \subseteq {Send(d, TRUE)}
      BY SingleSteps, IfSteps
    <3>2. IsSteps(Onhook(d)) /\ Range(Onhook(d)) = {Show(d, "none")}
      BY SingleSteps DEF Onhook
    <3>3. EndingSteps(d, s) = If(talk.elsewhere, <<Send(d, TRUE)>>) \o Onhook(d)
      BY <2>2 DEF EndingSteps
    <3>4. IsSteps(EndingSteps(d, s)) /\ Range(EndingSteps(d, s)) \subseteq {Send(d, TRUE), Show(d, "none")}
      BY <3>1, <3>2, <3>3, JoinedSteps
    <3>5. QED
      BY <3>4 DEF StepOf, Shows
  <2>3. CASE s \notin {"congestion", "onhook"}
    BY <2>3, NoSteps DEF EndingSteps
  <2>4. QED
    BY <2>1, <2>2, <2>3
<1> DEFINE a == SettingUpSteps(d, s, was)
           b == TalkingSteps(d, s, was)
           c == HeldSteps(d, s)
           e4 == EndingSteps(d, s)
<1> HIDE DEF a, b, c, e4
<1>5. IsSteps(a \o b) /\ Range(a \o b) = Range(a) \cup Range(b)
  BY <1>1, <1>2, JoinedSteps DEF a, b
<1>6. IsSteps((a \o b) \o c) /\ Range((a \o b) \o c) = Range(a) \cup Range(b) \cup Range(c)
  BY <1>3, <1>5, JoinedSteps DEF c
<1>7. /\ IsSteps(((a \o b) \o c) \o e4)
      /\ Range(((a \o b) \o c) \o e4) = Range(a) \cup Range(b) \cup Range(c) \cup Range(e4)
  BY <1>4, <1>6, JoinedSteps DEF e4
<1>8. StateSteps(d, s, was) = ((a \o b) \o c) \o e4
  BY DEF StateSteps, a, b, c, e4
<1>9. QED
  BY <1>1, <1>2, <1>3, <1>4, <1>7, <1>8 DEF a, b, c, e4

-----------------------------------------------------------------------------
(* Steps and handlers *)

Other(t) == IF t = "pbx" THEN "phone" ELSE "pbx"

\* A step is done.
LEMMA StepDone ==
  ASSUME TodoShape, NEW t \in Threads, NEW more, IsSteps(more), ~Idle(t), Then(t, more)
  PROVE  /\ DOMAIN todo' = Threads /\ \A o \in Threads : o # t => todo'[o] = todo[o]
         /\ todo'[t] = more \o Tail(todo[t]) /\ IsSteps(Tail(todo[t]))
         /\ \A o \in Threads : IsSteps(todo'[o])
         /\ Next1(t) \in Range(todo[t]) /\ Range(Tail(todo[t])) \subseteq Range(todo[t])
         /\ Range(todo'[t]) = Range(more) \cup Range(Tail(todo[t]))
<1>1. IsSteps(todo[t]) /\ todo[t] # <<>> /\ DOMAIN todo = Threads
  BY DEF TodoShape, Idle
<1>2. /\ Head(todo[t]) \in Range(todo[t])
      /\ IsSteps(Tail(todo[t])) /\ Range(Tail(todo[t])) \subseteq Range(todo[t])
  BY <1>1, FirstAndRest
<1>3. /\ DOMAIN todo' = Threads /\ \A o \in Threads : o # t => todo'[o] = todo[o]
      /\ todo'[t] = more \o Tail(todo[t])
  BY <1>1 DEF Then
<1>4. IsSteps(todo'[t]) /\ Range(todo'[t]) = Range(more) \cup Range(Tail(todo[t]))
  BY <1>2, <1>3, JoinedSteps
<1>5. \A o \in Threads : IsSteps(todo'[o])
  BY <1>3, <1>4 DEF TodoShape
<1>6. QED
  BY <1>2, <1>3, <1>4, <1>5 DEF Next1

\* A step is done and nothing takes its place.
LEMMA StepGone ==
  ASSUME TodoShape, NEW t \in Threads, ~Idle(t), Then(t, <<>>)
  PROVE  /\ DOMAIN todo' = Threads /\ \A o \in Threads : o # t => todo'[o] = todo[o]
         /\ todo'[t] = Tail(todo[t]) /\ \A o \in Threads : IsSteps(todo'[o])
         /\ Next1(t) \in Range(todo[t]) /\ Range(todo'[t]) \subseteq Range(todo[t])
<1>1. IsSteps(<<>>)
  BY NoSteps
<1>2. /\ DOMAIN todo' = Threads /\ \A o \in Threads : o # t => todo'[o] = todo[o]
      /\ todo'[t] = <<>> \o Tail(todo[t]) /\ IsSteps(Tail(todo[t])) /\ \A o \in Threads : IsSteps(todo'[o])
      /\ Next1(t) \in Range(todo[t]) /\ Range(Tail(todo[t])) \subseteq Range(todo[t])
  BY <1>1, StepDone
<1>3. <<>> \o Tail(todo[t]) = Tail(todo[t])
  BY <1>1, <1>2, Joining
<1>4. QED
  BY <1>2, <1>3

\* A handler begins.
Begun(t, S) ==
  /\ Up /\ todo[t] = <<>> /\ DOMAIN todo' = Threads
  /\ IsSteps(todo'[t]) /\ Range(todo'[t]) = S
  /\ \A o \in Threads : o # t => todo'[o] = todo[o]
  /\ info' = info /\ told' = told /\ busy' = busy

LEMMA Begins ==
  ASSUME TodoShape, NEW t \in Threads, NEW steps, IsSteps(steps), Starts(t, steps)
  PROVE  Begun(t, Range(steps)) /\ todo'[t] = steps
BY DEF Begun, TodoShape, Starts, Idle

\* A handler of Asterisk begins: the call runs and nobody has it locked.
LEMMA PbxBegins ==
  ASSUME TodoShape, NEW steps, IsSteps(steps), Pbx(steps)
  PROVE  /\ Begun("pbx", Range(steps)) /\ todo'["pbx"] = steps
         /\ talk' = talk /\ talk.running /\ ~talk.locked
BY Begins DEF Pbx, Threads

\* A handler of a phone begins, without the channel's lock.
LEMMA PhoneBegins ==
  ASSUME TodoShape, NEW steps, IsSteps(steps), Phone(steps)
  PROVE  /\ Begun("phone", Range(steps)) /\ todo'["phone"] = steps
         /\ talk' = talk /\ ghost' = ghost
BY Begins DEF Phone, Threads

\* A handler of a phone begins with the lock, and gives it back last.
LEMMA LockedBegins ==
  ASSUME TodoShape, NEW steps, IsSteps(steps), Locked(steps)
  PROVE  /\ Begun("phone", Range(steps) \cup {Be([locked |-> FALSE])})
         /\ todo'["phone"] = Append(steps, Be([locked |-> FALSE]))
         /\ todo["pbx"] = <<>> /\ talk' = [talk EXCEPT !.locked = TRUE]
<1>1. /\ IsSteps(Append(steps, Be([locked |-> FALSE])))
      /\ Range(Append(steps, Be([locked |-> FALSE]))) = Range(steps) \cup {Be([locked |-> FALSE])}
  BY OneMore
<1>2. Starts("phone", Append(steps, Be([locked |-> FALSE])))
  BY DEF Locked
<1>3. QED
  BY <1>1, <1>2, Begins DEF Locked, Idle, Threads

(* sccp_pbx_call: the presentation is written, every phone is offered the  *)
(* call.                                                                   *)
LEMMA RingBegins ==
  ASSUME TodoShape, NEW n, Ring(n)
  PROVE  /\ Begun("pbx", {Set(Presentation(n)), Rung} \cup {RingOn(q) : q \in Lookers})
         /\ talk' = talk /\ ghost' = ghost
<1> DEFINE a == <<Set(Presentation(n))>>
           b == OnEach(RingOn)
           c == <<Rung>>
<1>1. IsSteps(a) /\ Range(a) = {Set(Presentation(n))} /\ IsSteps(c) /\ Range(c) = {Rung}
  BY SingleSteps
<1>2. IsSteps(b) /\ Range(b) = {RingOn(q) : q \in Lookers}
  BY OnEachRings
<1>3. Pbx(a \o b \o c) /\ ghost' = ghost
  BY DEF Ring
<1> HIDE DEF a, b, c
<1>4. IsSteps(a \o b) /\ Range(a \o b) = Range(a) \cup Range(b)
  BY <1>1, <1>2, JoinedSteps
<1>5. IsSteps(a \o b \o c) /\ Range(a \o b \o c) = Range(a) \cup Range(b) \cup Range(c)
  BY <1>1, <1>4, JoinedSteps
<1>6. Begun("pbx", Range(a \o b \o c)) /\ talk' = talk
  BY <1>3, <1>5, PbxBegins
<1>7. Range(a \o b \o c) = {Set(Presentation(n)), Rung} \cup {RingOn(q) : q \in Lookers}
  BY <1>1, <1>2, <1>5
<1>8. QED
  BY <1>3, <1>6, <1>7

\* sccp_astwrap_indicate: one state, of a call that was placed.
LEMMA IndicatedBegins ==
  ASSUME TodoShape, NEW s, Indicated(s)
  PROVE  /\ Begun("pbx", {State(talk.dev, s, FALSE)}) /\ talk' = talk /\ ghost' = ghost
         /\ talk.dev # Nobody /\ talk.st \notin {"down", "offhook"} /\ talk.type = "out"
BY SingleSteps, PbxBegins DEF Indicated

\* What sccp_astwrap_connectedline writes.
LineUpdate(who, orig, transfer, parker) ==
  IF ~(talk.type = "in" /\ ~parker) THEN Reached(who)
  ELSE IF transfer THEN Transferred(who) ELSE Answering(who, orig)
LineBegun(S, who, u) ==
  /\ Begun("pbx", S) /\ talk' = talk
  /\ ghost' = [ghost EXCEPT !.partial = @ \/ who.name = Null]
  /\ talk.type # "in" => talk.st \notin {"down", "offhook"}
  /\ talk.running /\ ~talk.locked
  /\ \A e \in S :
       \/ e = SetThen(u, <<Tell(TRUE)>>)
       \/ e = State(Nobody, talk.st, FALSE) /\ talk.type = "in"
       \/ e = State(Nobody, "connected", TRUE) /\ talk.st = "callpark"
       \/ e = Be([type |-> "out", prev |-> talk.st, st |-> "ringout"]) /\ talk.st = "callpark"

\* sccp_astwrap_connectedline: the update, and what is shown after it.
LEMMA ConnectedLineBegins ==
  ASSUME TodoShape, NEW who, NEW orig, NEW transfer \in BOOLEAN, NEW parker \in BOOLEAN,
         ConnectedLine(who, orig, transfer, parker)
  PROVE  \E S : LineBegun(S, who, LineUpdate(who, orig, transfer, parker))
<1> DEFINE incoming == talk.type = "in" /\ ~parker
           parked == talk.st = "callpark"
           a0 == <<Be([type |-> "out", prev |-> talk.st, st |-> "ringout"])>>
           a == If(parker, a0)
           b == <<SetThen(LineUpdate(who, orig, transfer, parker), <<Tell(TRUE)>>)>>
           c0 == <<State(Nobody, talk.st, FALSE)>>
           c == If(incoming /\ ~transfer, c0)
           d0 == <<State(Nobody, "connected", TRUE)>>
           d == If(parked /\ ~parker, d0)
<1>1. Pbx(a \o b \o c \o d) /\ ghost' = [ghost EXCEPT !.partial = @ \/ who.name = Null]
  BY DEF ConnectedLine, LineUpdate
<1>2. (parker => parked) /\ (talk.type # "in" => talk.st \notin {"down", "offhook"})
  BY DEF ConnectedLine
<1>3. /\ IsSteps(a0) /\ Range(a0) = {Be([type |-> "out", prev |-> talk.st, st |-> "ringout"])}
      /\ IsSteps(b) /\ Range(b) = {SetThen(LineUpdate(who, orig, transfer, parker), <<Tell(TRUE)>>)}
      /\ IsSteps(c0) /\ Range(c0) = {State(Nobody, talk.st, FALSE)}
      /\ IsSteps(d0) /\ Range(d0) = {State(Nobody, "connected", TRUE)}
  BY SingleSteps
<1> HIDE DEF a0, b, c0, d0
<1>4. /\ IsSteps(a) /\ Range(a) = IF parker THEN Range(a0) ELSE {}
      /\ IsSteps(c) /\ Range(c) = IF incoming /\ ~transfer THEN Range(c0) ELSE {}
      /\ IsSteps(d) /\ Range(d) = IF parked /\ ~parker THEN Range(d0) ELSE {}
  BY <1>3, IfSteps
<1> HIDE DEF a, c, d
<1>5. IsSteps(a \o b) /\ Range(a \o b) = Range(a) \cup Range(b)
  BY <1>3, <1>4, JoinedSteps
<1>6. IsSteps((a \o b) \o c) /\ Range((a \o b) \o c) = Range(a) \cup Range(b) \cup Range(c)
  BY <1>4, <1>5, JoinedSteps
<1>7. IsSteps(((a \o b) \o c) \o d) /\ Range(((a \o b) \o c) \o d) = Range(a) \cup Range(b) \cup Range(c) \cup Range(d)
  BY <1>4, <1>6, JoinedSteps
<1> DEFINE all == ((a \o b) \o c) \o d
<1> HIDE DEF all
<1>8. Begun("pbx", Range(all)) /\ talk' = talk /\ talk.running /\ ~talk.locked
  BY <1>1, <1>7, PbxBegins DEF all
<1>9. \A e \in Range(all) :
              \/ e = SetThen(LineUpdate(who, orig, transfer, parker), <<Tell(TRUE)>>)
              \/ e = State(Nobody, talk.st, FALSE) /\ talk.type = "in"
              \/ e = State(Nobody, "connected", TRUE) /\ talk.st = "callpark"
              \/ e = Be([type |-> "out", prev |-> talk.st, st |-> "ringout"]) /\ talk.st = "callpark"
  <2> SUFFICES ASSUME NEW e \in Range(all)
               PROVE  \/ e = SetThen(LineUpdate(who, orig, transfer, parker), <<Tell(TRUE)>>)
                      \/ e = State(Nobody, talk.st, FALSE) /\ talk.type = "in"
                      \/ e = State(Nobody, "connected", TRUE) /\ talk.st = "callpark"
                      \/ e = Be([type |-> "out", prev |-> talk.st, st |-> "ringout"]) /\ talk.st = "callpark"
    OBVIOUS
  <2>1. CASE e \in Range(a)
    BY <2>1, <1>2, <1>3, <1>4
  <2>2. CASE e \in Range(b)
    BY <2>2, <1>3
  <2>3. CASE e \in Range(c)
    BY <2>3, <1>3, <1>4
  <2>4. CASE e \in Range(d)
    BY <2>4, <1>3, <1>4
  <2>5. QED
    BY <1>7, <2>1, <2>2, <2>3, <2>4 DEF all
<1>10. LineBegun(Range(all), who, LineUpdate(who, orig, transfer, parker))
  BY <1>1, <1>2, <1>8, <1>9 DEF LineBegun
<1>11. QED
  BY <1>10

LEMMA FiveSteps ==
  ASSUME NEW x, NEW y, NEW z, NEW w, NEW v
  PROVE  IsSteps(<<x, y, z, w, v>>) /\ Range(<<x, y, z, w, v>>) = {x, y, z, w, v}
<1>1. /\ DOMAIN <<x, y, z, w, v>> = {1, 2, 3, 4, 5} /\ <<x, y, z, w, v>>[1] = x /\ <<x, y, z, w, v>>[2] = y
      /\ <<x, y, z, w, v>>[3] = z /\ <<x, y, z, w, v>>[4] = w /\ <<x, y, z, w, v>>[5] = v
  OBVIOUS
<1>2. Range(<<x, y, z, w, v>>) = {x, y, z, w, v}
  BY <1>1 DEF Range
<1>3. QED
  BY <1>2 DEF IsSteps

LEMMA SixSteps ==
  ASSUME NEW x, NEW y, NEW z, NEW w, NEW v, NEW u
  PROVE  IsSteps(<<x, y, z, w, v, u>>) /\ Range(<<x, y, z, w, v, u>>) = {x, y, z, w, v, u}
<1>1. /\ DOMAIN <<x, y, z, w, v, u>> = {1, 2, 3, 4, 5, 6} /\ <<x, y, z, w, v, u>>[1] = x /\ <<x, y, z, w, v, u>>[2] = y
      /\ <<x, y, z, w, v, u>>[3] = z /\ <<x, y, z, w, v, u>>[4] = w /\ <<x, y, z, w, v, u>>[5] = v
      /\ <<x, y, z, w, v, u>>[6] = u
  OBVIOUS
<1>2. Range(<<x, y, z, w, v, u>>) = {x, y, z, w, v, u}
  BY <1>1 DEF Range
<1>3. QED
  BY <1>2 DEF IsSteps

\* sccp_astwrap_redirectedUpdate writes and tells.
LEMMA RedirectedBegins ==
  ASSUME TodoShape, NEW from, RedirectedUpdate(from)
  PROVE  \E w : Begun("pbx", {Set(Because([redirecting |-> w, origCalled |-> w], info.last, 4)), Tell(FALSE)})
                /\ talk' = talk /\ ghost' = ghost
<1> DEFINE w == [from EXCEPT !.number = IF @ = Null THEN Blank ELSE @]
           x == Set(Because([redirecting |-> w, origCalled |-> w], info.last, 4))
<1>1. Pbx(<<x, Tell(FALSE)>>) /\ ghost' = ghost
  BY DEF RedirectedUpdate
<1>2. IsSteps(<<x, Tell(FALSE)>>) /\ Range(<<x, Tell(FALSE)>>) = {x, Tell(FALSE)}
  BY TwoSteps
<1>3. Begun("pbx", {x, Tell(FALSE)}) /\ talk' = talk
  <2> HIDE DEF x
  <2> QED BY <1>1, <1>2, PbxBegins
<1>4. QED
  BY <1>1, <1>3

\* Another phone has answered: who it is, and that it was elsewhere.
LEMMA AnsweredElsewhereBegins ==
  ASSUME TodoShape, NEW who, AnsweredElsewhere(who)
  PROVE  /\ Begun("pbx", {Set(Because([hunt |-> who, redirecting |-> who], Keep, 5)), Be([elsewhere |-> TRUE])})
         /\ talk' = talk /\ ghost' = ghost /\ talk.st = "ringing"
<1> DEFINE x == Set(Because([hunt |-> who, redirecting |-> who], Keep, 5))
           y == Be([elsewhere |-> TRUE])
<1>1. Pbx(<<x, y>>) /\ ghost' = ghost /\ talk.st = "ringing"
  BY DEF AnsweredElsewhere
<1> HIDE DEF x, y
<1>2. IsSteps(<<x, y>>) /\ Range(<<x, y>>) = {x, y}
  BY TwoSteps
<1>3. Begun("pbx", {x, y}) /\ talk' = talk
  BY <1>1, <1>2, PbxBegins
<1>4. QED
  BY <1>1, <1>3 DEF x, y

\* The call is parked.
LEMMA CallParkBegins ==
  ASSUME TodoShape, CallPark
  PROVE  /\ Begun("pbx", {State(Nobody, "callpark", FALSE)}) /\ talk' = talk /\ ghost' = ghost
         /\ talk.st = "connected"
BY SingleSteps, PbxBegins DEF CallPark

\* The receiver is taken up.
LEMMA OffHookBegins ==
  ASSUME TodoShape, OffHook
  PROVE  /\ Begun("phone", {State(talk.dev, "offhook", FALSE)}) /\ talk' = talk /\ ghost' = ghost
         /\ todo'["phone"] = <<State(talk.dev, "offhook", FALSE)>>
         /\ talk.type = "out" /\ talk.st = "down"
BY SingleSteps, PhoneBegins DEF OffHook

\* The number is dialled; the call runs from the last step on.
LEMMA DialBegins ==
  ASSUME TodoShape, NEW private, Dial(private)
  PROVE  \E b : /\ IsSteps(b) /\ Range(b) \subseteq {Set(Presentation(0)), Be([running |-> TRUE])}
                /\ todo'["phone"] = <<State(talk.dev, "dialing", FALSE)>> \o b
                /\ Begun("phone", {State(talk.dev, "dialing", FALSE)} \cup Range(b))
                /\ talk' = talk /\ ghost' = ghost /\ talk.st = "offhook"
<1> DEFINE a == <<State(talk.dev, "dialing", FALSE)>>
           p0 == <<Set(Presentation(0))>>
           p == If(private, p0)
           r == <<Be([running |-> TRUE])>>
<1>1. Phone((a \o p) \o r) /\ talk.st = "offhook"
  BY DEF Dial
<1>2. /\ IsSteps(a) /\ Range(a) = {State(talk.dev, "dialing", FALSE)}
      /\ IsSteps(p0) /\ Range(p0) = {Set(Presentation(0))}
      /\ IsSteps(r) /\ Range(r) = {Be([running |-> TRUE])}
  BY SingleSteps
<1> HIDE DEF a, p0, r
<1>3. IsSteps(p) /\ Range(p) \subseteq {Set(Presentation(0))}
  BY <1>2, IfSteps
<1> HIDE DEF p
<1>4. IsSteps(p \o r) /\ Range(p \o r) \subseteq {Set(Presentation(0)), Be([running |-> TRUE])}
  BY <1>2, <1>3, JoinedSteps
<1>5. (a \o p) \o r = a \o (p \o r)
  <2> DEFINE S == Range(a) \cup Range(p) \cup Range(r)
  <2>0. Range(a) \subseteq S /\ Range(p) \subseteq S /\ Range(r) \subseteq S
    OBVIOUS
  <2> HIDE DEF S
  <2>1. a \in Seq(S) /\ p \in Seq(S) /\ r \in Seq(S)
    BY <1>2, <1>3, <2>0, SeqMonotonic DEF IsSteps
  <2>2. QED
    BY <2>1, ConcatAssociative
<1>6. IsSteps(a \o (p \o r)) /\ Range(a \o (p \o r)) = {State(talk.dev, "dialing", FALSE)} \cup Range(p \o r)
  BY <1>2, <1>4, JoinedSteps
<1>7. /\ Begun("phone", Range(a \o (p \o r))) /\ todo'["phone"] = a \o (p \o r)
      /\ talk' = talk /\ ghost' = ghost
  BY <1>1, <1>5, <1>6, PhoneBegins
<1>8. QED
  BY <1>1, <1>4, <1>6, <1>7 DEF a

\* sccp_channel_answer.
LEMMA AnswerBegins ==
  ASSUME TodoShape, NEW p, Answer(p)
  PROVE  /\ Begun("phone", {Be([dev |-> p]), Show(p, "offhook"), Show(p, "connected"), OffExcept(p),
                            Be([locked |-> FALSE])})
         /\ talk' = [talk EXCEPT !.locked = TRUE] /\ ghost' = ghost /\ todo["pbx"] = <<>>
         /\ talk.type = "in" /\ talk.st = "ringing" /\ talk.dev = Nobody
<1> DEFINE x == Be([dev |-> p])
           y == Show(p, "offhook")
           z == Show(p, "connected")
           w == OffExcept(p)
<1>1. Locked(<<x, y, z, w>>) /\ ghost' = ghost /\ talk.type = "in" /\ talk.st = "ringing" /\ talk.dev = Nobody
  BY DEF Answer
<1> HIDE DEF x, y, z, w
<1>2. IsSteps(<<x, y, z, w>>) /\ Range(<<x, y, z, w>>) = {x, y, z, w}
  BY FourSteps
<1>3. /\ Begun("phone", {x, y, z, w} \cup {Be([locked |-> FALSE])})
      /\ todo["pbx"] = <<>> /\ talk' = [talk EXCEPT !.locked = TRUE]
  BY <1>1, <1>2, LockedBegins
<1>4. {x, y, z, w} \cup {Be([locked |-> FALSE])} = {x, y, z, w, Be([locked |-> FALSE])}
  OBVIOUS
<1>5. QED
  BY <1>1, <1>3, <1>4 DEF x, y, z, w

\* channel_answer_completion.
LEMMA AnswerCompletionBegins ==
  ASSUME TodoShape, AnswerCompletion
  PROVE  /\ Begun("phone", {State(talk.dev, "connected", FALSE), Be([locked |-> FALSE])})
         /\ talk' = [talk EXCEPT !.locked = TRUE] /\ ghost' = ghost /\ todo["pbx"] = <<>>
         /\ talk.type = "in" /\ talk.st = "ringing" /\ talk.dev # Nobody
<1> DEFINE x == State(talk.dev, "connected", FALSE)
<1>1. Locked(<<x>>) /\ ghost' = ghost /\ talk.type = "in" /\ talk.st = "ringing" /\ talk.dev # Nobody
  BY DEF AnswerCompletion
<1> HIDE DEF x
<1>2. IsSteps(<<x>>) /\ Range(<<x>>) = {x}
  BY SingleSteps
<1>3. /\ Begun("phone", {x} \cup {Be([locked |-> FALSE])})
      /\ todo["pbx"] = <<>> /\ talk' = [talk EXCEPT !.locked = TRUE]
  BY <1>1, <1>2, LockedBegins
<1>4. {x} \cup {Be([locked |-> FALSE])} = {x, Be([locked |-> FALSE])}
  OBVIOUS
<1>5. QED
  BY <1>1, <1>3, <1>4 DEF x

\* sccp_channel_hold.
LEMMA HoldBegins ==
  ASSUME TodoShape, Hold
  PROVE  /\ Begun("phone", {Be([why |-> "normal"]), State(talk.dev, "hold", FALSE), Be([dev |-> Nobody])})
         /\ talk' = talk /\ ghost' = ghost /\ talk.dev # Nobody
         /\ talk.st \in {"connected", "conference", "proceed"}
<1> DEFINE x == Be([why |-> "normal"])
           y == State(talk.dev, "hold", FALSE)
           z == Be([dev |-> Nobody])
<1>1. Phone(<<x, y, z>>) /\ talk.dev # Nobody /\ talk.st \in {"connected", "conference", "proceed"}
  BY DEF Hold
<1> HIDE DEF x, y, z
<1>2. IsSteps(<<x, y, z>>) /\ Range(<<x, y, z>>) = {x, y, z}
  BY ThreeSteps
<1>3. Begun("phone", {x, y, z}) /\ talk' = talk /\ ghost' = ghost
  BY <1>1, <1>2, PhoneBegins
<1>4. QED
  BY <1>1, <1>3 DEF x, y, z

(* sccp_channel_resume: whose call it is was turned around, but it is one  *)
(* person's.                                                               *)
LEMMA ResumeBegins ==
  ASSUME TodoShape, NEW p, Resume(p)
  PROVE  \E S, x, u :
         /\ Begun("phone", S) /\ talk' = [talk EXCEPT !.locked = TRUE] /\ ghost' = ghost /\ todo["pbx"] = <<>>
         /\ talk.st \in {"hold", "calltransfer"} /\ x \in {"conference", "connected"}
         /\ S \subseteq {Be([dev |-> p, st |-> "hold", why |-> "normal"]), State(p, x, FALSE), Set(Update(u)),
                         Be([locked |-> FALSE])}
         /\ \E g \in {"calling", "called"} : u = [h \in {g} |-> [name |-> Us.number, number |-> Us.name]]
<1> DEFINE turned == [name |-> Us.number, number |-> Us.name]
           own == IF talk.type = "out" THEN [calling |-> turned] ELSE [called |-> turned]
           x == IF talk.conference THEN "conference" ELSE "connected"
           a == <<Be([dev |-> p, st |-> "hold", why |-> "normal"]), State(p, x, FALSE)>>
           c == talk.type # "forward"
           b0 == <<Set(Update(own))>>
           b == If(c, b0)
<1>1. Locked(a \o b) /\ ghost' = ghost /\ talk.st \in {"hold", "calltransfer"}
  BY DEF Resume
<1>2. \E g \in {"calling", "called"} : own = [h \in {g} |-> turned]
  OBVIOUS
<1>3. /\ IsSteps(a) /\ Range(a) = {Be([dev |-> p, st |-> "hold", why |-> "normal"]), State(p, x, FALSE)}
      /\ IsSteps(b0) /\ Range(b0) = {Set(Update(own))}
  BY TwoSteps, SingleSteps
<1> HIDE DEF a, b0
<1>4. IsSteps(b) /\ Range(b) \subseteq {Set(Update(own))}
  BY <1>3, IfSteps
<1> HIDE DEF b
<1>5. IsSteps(a \o b) /\ Range(a \o b) = Range(a) \cup Range(b)
  BY <1>3, <1>4, JoinedSteps
<1>6. /\ Begun("phone", Range(a \o b) \cup {Be([locked |-> FALSE])})
      /\ todo["pbx"] = <<>> /\ talk' = [talk EXCEPT !.locked = TRUE]
  BY <1>1, <1>5, LockedBegins
<1>7. x \in {"conference", "connected"}
  OBVIOUS
<1> HIDE DEF own, x
<1>8. Range(a \o b) \cup {Be([locked |-> FALSE])} \subseteq
         {Be([dev |-> p, st |-> "hold", why |-> "normal"]), State(p, x, FALSE), Set(Update(own)), Be([locked |-> FALSE])}
  BY <1>3, <1>4, <1>5
<1>9. QED
  BY <1>1, <1>2, <1>6, <1>7, <1>8

\* sccp_channel_transfer: held, and shown as transferred.
LEMMA TransferKeyBegins ==
  ASSUME TodoShape, TransferKey
  PROVE  /\ Begun("phone", {Be([why |-> "transfer"]), State(talk.dev, "hold", FALSE), Be([dev |-> Nobody]),
                            State(talk.dev, "calltransfer", FALSE)})
         /\ talk' = talk /\ ghost' = ghost /\ talk.dev # Nobody /\ talk.st = "connected"
<1> DEFINE x == Be([why |-> "transfer"])
           y == State(talk.dev, "hold", FALSE)
           z == Be([dev |-> Nobody])
           w == State(talk.dev, "calltransfer", FALSE)
<1>1. Phone(<<x, y, z, w>>) /\ talk.dev # Nobody /\ talk.st = "connected"
  BY DEF TransferKey
<1> HIDE DEF x, y, z, w
<1>2. IsSteps(<<x, y, z, w>>) /\ Range(<<x, y, z, w>>) = {x, y, z, w}
  BY FourSteps
<1>3. Begun("phone", {x, y, z, w}) /\ talk' = talk /\ ghost' = ghost
  BY <1>1, <1>2, PhoneBegins
<1>4. QED
  BY <1>1, <1>3 DEF x, y, z, w

\* sccp_channel_transfer_complete, on the call that is transferred.
LEMMA TransferSourceBegins ==
  ASSUME TodoShape, TransferSource
  PROVE  /\ Begun("phone", {Be([why |-> "normal"]), Set(Update([redirecting |-> Us]))})
         /\ talk' = talk /\ ghost' = ghost /\ talk.why = "transfer"
<1> DEFINE x == Be([why |-> "normal"])
           y == Set(Update([redirecting |-> Us]))
<1>1. Phone(<<x, y>>) /\ talk.why = "transfer"
  BY DEF TransferSource
<1> HIDE DEF x, y
<1>2. IsSteps(<<x, y>>) /\ Range(<<x, y>>) = {x, y}
  BY TwoSteps
<1>3. Begun("phone", {x, y}) /\ talk' = talk /\ ghost' = ghost
  BY <1>1, <1>2, PhoneBegins
<1>4. QED
  BY <1>1, <1>3 DEF x, y

\* sccp_channel_transfer_complete, on the call it is transferred to.
LEMMA TransferDestinationBegins ==
  ASSUME TodoShape, TransferDestination
  PROVE  /\ Begun("phone", {Set(Update([redirecting |-> info.party["calling"]])), Be([type |-> "forward"])})
         /\ talk' = talk /\ ghost' = ghost /\ talk.type = "out" /\ talk.st \in {"ringout", "connected"}
<1> DEFINE x == Set(Update([redirecting |-> info.party["calling"]]))
           y == Be([type |-> "forward"])
<1>1. Phone(<<x, y>>) /\ talk.type = "out" /\ talk.st \in {"ringout", "connected"}
  BY DEF TransferDestination
<1> HIDE DEF x, y
<1>2. IsSteps(<<x, y>>) /\ Range(<<x, y>>) = {x, y}
  BY TwoSteps
<1>3. Begun("phone", {x, y}) /\ talk' = talk /\ ghost' = ghost
  BY <1>1, <1>2, PhoneBegins
<1>4. QED
  BY <1>1, <1>3 DEF x, y

\* The private key.
LEMMA SetPresentationBegins ==
  ASSUME TodoShape, NEW n, SetPresentation(n)
  PROVE  /\ Begun("phone", {Set(Presentation(n))})
         /\ talk' = talk /\ ghost' = ghost /\ talk.dev # Nobody
<1> DEFINE x == Set(Presentation(n))
<1>1. Phone(<<x>>) /\ talk.dev # Nobody
  BY DEF SetPresentation
<1> HIDE DEF x
<1>2. IsSteps(<<x>>) /\ Range(<<x>>) = {x}
  BY SingleSteps
<1>3. Begun("phone", {x}) /\ talk' = talk /\ ghost' = ghost
  BY <1>1, <1>2, PhoneBegins
<1>4. QED
  BY <1>1, <1>3 DEF x

\* What sccp_conference_update_callInfo writes.
Joins ==
  LET peer == info.party[IF talk.type = "in" THEN "calling" ELSE "called"]
      own == info.party[IF talk.type = "in" THEN "called" ELSE "calling"]
  IN  Update(IF talk.type = "in" THEN [origCalling |-> peer, calling |-> own]
             ELSE [origCalled |-> peer, called |-> own])

\* The call joins a conference.
LEMMA JoinBegins ==
  ASSUME TodoShape, JoinConference
  PROVE  /\ Begun("phone", {Be([conference |-> TRUE]), Set(Joins), State(Nobody, "conference", FALSE)})
         /\ talk' = talk /\ ghost' = ghost /\ talk.st = "connected"
<1> DEFINE x == Be([conference |-> TRUE])
           y == Set(Joins)
           z == State(Nobody, "conference", FALSE)
<1>1. Phone(<<x, y, z>>) /\ talk.st = "connected"
  BY DEF JoinConference, Joins
<1> HIDE DEF x, y, z
<1>2. IsSteps(<<x, y, z>>) /\ Range(<<x, y, z>>) = {x, y, z}
  BY ThreeSteps
<1>3. Begun("phone", {x, y, z}) /\ talk' = talk /\ ghost' = ghost
  BY <1>1, <1>2, PhoneBegins
<1>4. QED
  BY <1>1, <1>3 DEF x, y, z

\* The phone's own call becomes the one that is picked up.
PicksUp == Be([type |-> "in", st |-> "ringing", dev |-> Nobody, running |-> TRUE])
Picked(target) ==
  LET called == info.party["called"]
  IN  Because([called |-> called, origCalled |-> target, redirecting |-> called, hunt |-> target], 5, 5)

\* sccp_feat_perform_pickup: the first step is the change of the call.
LEMMA PickUpBegins ==
  ASSUME TodoShape, NEW target, NEW answer, PickUp(target, answer)
  PROVE  \E b : 
         /\ IsSteps(b) /\ todo'["phone"] = <<PicksUp, Set(Picked(target))>> \o b
         /\ Begun("phone", {PicksUp, Set(Picked(target))} \cup Range(b))
         /\ talk' = talk /\ ghost' = ghost /\ talk.type = "out" /\ talk.st = "offhook"
         /\ \/ b = <<State(talk.dev, "ringing", FALSE)>> /\ Range(b) = {State(talk.dev, "ringing", FALSE)}
            \/ /\ b = <<Show(talk.dev, "ringin"), Show(talk.dev, "offhook"), Lock, Be([dev |-> talk.dev]),
                        Show(talk.dev, "connected"), Be([locked |-> FALSE])>>
               /\ Range(b) = {Show(talk.dev, "ringin"), Show(talk.dev, "offhook"), Lock, Be([dev |-> talk.dev]),
                              Show(talk.dev, "connected"), Be([locked |-> FALSE])}
<1> DEFINE a == <<PicksUp, Set(Picked(target))>>
           p == talk.dev
           b1 == <<Show(p, "ringin"), Show(p, "offhook"), Lock, Be([dev |-> p]), Show(p, "connected"),
                   Be([locked |-> FALSE])>>
           b2 == <<State(p, "ringing", FALSE)>>
           b == IF answer THEN b1 ELSE b2
<1>1. Phone(a \o b) /\ talk.type = "out" /\ talk.st = "offhook"
  BY DEF PickUp, PicksUp, Picked
<1>2. /\ IsSteps(a) /\ Range(a) = {PicksUp, Set(Picked(target))}
      /\ IsSteps(b2) /\ Range(b2) = {State(p, "ringing", FALSE)}
      /\ IsSteps(b1) /\ Range(b1) = {Show(p, "ringin"), Show(p, "offhook"), Lock, Be([dev |-> p]),
                                     Show(p, "connected"), Be([locked |-> FALSE])}
  <2>1. IsSteps(a) /\ Range(a) = {PicksUp, Set(Picked(target))}
    BY TwoSteps
  <2>2. IsSteps(b2) /\ Range(b2) = {State(p, "ringing", FALSE)}
    BY SingleSteps
  <2> DEFINE x1 == Show(p, "ringin")
             x2 == Show(p, "offhook")
             x4 == Be([dev |-> p])
             x5 == Show(p, "connected")
             x6 == Be([locked |-> FALSE])
  <2> HIDE DEF x1, x2, x4, x5, x6
  <2>3. IsSteps(<<x1, x2, Lock, x4, x5, x6>>) /\ Range(<<x1, x2, Lock, x4, x5, x6>>) = {x1, x2, Lock, x4, x5, x6}
    BY SixSteps
  <2>4. QED
    BY <2>1, <2>2, <2>3 DEF x1, x2, x4, x5, x6
<1> HIDE DEF a, b1, b2
<1>3. IsSteps(b) /\ b \in {b1, b2}
  BY <1>2
<1> HIDE DEF b
<1>4. IsSteps(a \o b) /\ Range(a \o b) = Range(a) \cup Range(b)
  BY <1>2, <1>3, JoinedSteps
<1>5. Begun("phone", Range(a \o b)) /\ todo'["phone"] = a \o b /\ talk' = talk /\ ghost' = ghost
  BY <1>1, <1>4, PhoneBegins
<1>6. Begun("phone", {PicksUp, Set(Picked(target))} \cup Range(b))
  BY <1>2, <1>4, <1>5
<1>7. \/ b = b2 /\ Range(b) = {State(p, "ringing", FALSE)}
      \/ b = b1 /\ Range(b) = {Show(p, "ringin"), Show(p, "offhook"), Lock, Be([dev |-> p]),
                               Show(p, "connected"), Be([locked |-> FALSE])}
  BY <1>2, <1>3
<1>8. QED
  BY <1>1, <1>3, <1>5, <1>6, <1>7 DEF a, b1, b2

-----------------------------------------------------------------------------
(* The phases of a call *)

Rest(t) == IF todo[t] = <<>> THEN {} ELSE Range(Tail(todo[t]))
Pending(t) == Range(todo[t])
BeginsWith(t, e) == todo[t] # <<>> /\ Head(todo[t]) = e

(* What a handler does first or never. *)
IsDialled(e) == e.do = "set" /\ e.with = Update(DialledNumber)
HeadOnly(e) ==
  \/ e.do = "state" /\ e.state \in {"offhook", "dialing"}
  \/ e = PicksUp
  \/ IsDialled(e)
HeadsFirst ==
  /\ \A t \in Threads : \A e \in Rest(t) : ~HeadOnly(e)
  /\ \A e \in Pending("pbx") : ~HeadOnly(e)

(* The phone's steps before Asterisk runs the call. *)
Calm(e) ==
  \/ e.do \in {"show", "send", "sent", "others"}
  \/ e.do = "state" /\ e.state \in {"offhook", "dialing"}
  \/ e.do = "set" /\ e.then = <<>> /\ (IsDialled(e) \/ DOMAIN e.with.parties \cap {"calling", "called"} = {})
  \/ e = Be([running |-> TRUE])
Later(e) ==
  /\ e.do = "state" => e.state \notin {"down", "onhook", "offhook", "dialing"}
  /\ e.do = "be" => "running" \notin DOMAIN e.fields \/ e.fields.running
  /\ e.do = "be" => "st" \notin DOMAIN e.fields \/ e.fields.st \notin {"down", "onhook", "offhook", "dialing"}
  /\ e.do = "be" => "type" \notin DOMAIN e.fields \/ e.fields.type # "in"
NotRunning ==
  ~talk.running =>
    /\ talk.type # "in" /\ talk.dev # Nobody /\ talk.why = "normal"
    /\ info.party["called"].name = Blank
    /\ Up => talk.st \in {"down", "offhook", "dialing"} /\ todo["pbx"] = <<>>
    /\ \/ /\ BeginsWith("phone", PicksUp) /\ (Up => talk.st = "offhook")
          /\ \A e \in Rest("phone") : Later(e)
       \/ /\ \A e \in Pending("phone") : Calm(e)
          /\ (\E e \in Pending("phone") : e.do = "state" /\ e.state = "offhook")
                => Be([running |-> TRUE]) \notin Pending("phone")
          /\ Up /\ talk.st = "down" => \A e \in Pending("phone") : e.do \notin {"show", "others", "be"}
          /\ Up /\ talk.st = "offhook" /\ Be([running |-> TRUE]) \in Pending("phone")
                => Head(todo["phone"]).do = "state" /\ Head(todo["phone"]).state = "dialing"

(* Asterisk's steps while it offers the call to the phones. *)
RingStep(e) ==
  \/ e.do \in {"ring", "rung", "sent"}
  \/ e.do = "set" /\ e.then = <<>>
  \/ e.do = "state" /\ e.state \in {"ringing", "waiting"}
LineStep(e) ==
  \/ e.do \in {"set", "tell", "send", "sent"}
  \/ e.do = "state" /\ e.on = Nobody
Goes(e) ==
  /\ e.do = "be" => "running" \notin DOMAIN e.fields \/ e.fields.running
  /\ (e.do = "state" => e.state # "dialing") /\ ~IsDialled(e)
Running ==
  talk.running =>
    /\ \A t \in Threads : \A e \in Pending(t) : Goes(e)
    /\ Up => talk.st \notin {"offhook", "onhook"} /\ (talk.st = "dialing" => talk.type # "in")
    /\ Up /\ talk.st = "down" =>
         /\ talk.type = "in" /\ talk.dev = Nobody /\ todo["phone"] = <<>> /\ talk.why = "normal"
         /\ (\A e \in Pending("pbx") : RingStep(e)) \/ (\A e \in Pending("pbx") : LineStep(e))
    /\ Up /\ talk.st # "down" => \A t \in Threads : \A e \in Pending(t) : Later(e)
DarkAtFirst == Up /\ talk.st = "down" => \A q \in Lookers : told[q].state = "none"

(* What is left of a call that has ended. *)
EndStep(e) == e.do \in {"send", "sent", "show", "others"} \/ (e.do = "state" /\ e.state = "onhook")
Hung == ~Up => \A e \in Pending("pbx") : EndStep(e)
Leaving(d) ==
  /\ talk.st = "down" /\ talk.prev # "down"
  /\ \E s \in {<<>>, <<Sent>>, <<Send(d, TRUE)>>} :
       todo["pbx"] = s \o <<Show(d, "none"), OtherPhones(d, "onhook", FALSE)>>
LeavesPhone ==
  \/ /\ todo["pbx"] = <<>> /\ \A q \in Lookers : told[q].state = "none"
  \/ \E d \in Lookers :
       /\ ~talk.conference
       /\ \/ todo["pbx"] = <<State(d, "onhook", FALSE)>> /\ talk.st # "down"
          \/ Leaving(d)
          \/ /\ todo["pbx"] = <<OtherPhones(d, "onhook", FALSE)>> /\ told[d].state = "none"
             /\ talk.st = "down" /\ talk.prev # "down"
Ended == ~Up /\ ~ghost.crossed => todo["phone"] = <<>> /\ LeavesPhone

(* The parties are whole. *)
Whole(party) == party.name # Null /\ party.number # Null /\ OnePerson(party)
Stored == \A g \in {"calling", "called"} :
            info.party[g].name # Null /\ info.party[g].number # Null
Sets == ~ghost.partial =>
          \A t \in Threads : \A e \in Pending(t) :
             e.do = "set" /\ ~IsDialled(e) =>
                \A g \in {"calling", "called"} \cap DOMAIN e.with.parties : Whole(e.with.parties[g])
Person == Stored /\ Sets /\ PeerIsOnePerson
PhasesInv == HeadsFirst /\ NotRunning /\ Running /\ DarkAtFirst /\ Hung /\ Ended
PartyShape == DOMAIN info.party = Groups
CallInv == Shape /\ PartyShape /\ PhasesInv /\ Person

-----------------------------------------------------------------------------
(* What follows a step *)

(* What may follow step f: the mark of a message, what a state shows and   *)
(* the look at the other phones, what is told after an update, a state of  *)
(* a phone that is rung.                                                   *)
CameFrom(f, e) ==
  \/ f.do = "set" /\ f.then = <<Tell(TRUE)>> /\ e = Tell(TRUE)
  \/ /\ f.do = "state"
     /\ \E d \in Lookers : /\ d = IF f.on # Nobody THEN f.on ELSE talk.dev
                           /\ StepOf(d, f.state, e) \/ e = OtherPhones(d, f.state, f.force)
  \/ f.do = "send" /\ e = Sent
  \/ f.do = "tell" /\ \E q \in Lookers : e = Send(q, FALSE)
  \/ f.do = "tell" /\ talk.type = "out" /\ talk.st = "ringout" /\ e = State(Nobody, "alerting", FALSE)
  \/ f.do = "ring" /\ f.on \in Lookers /\ e \in {State(f.on, "ringing", FALSE), State(f.on, "waiting", FALSE)}
Follow(t, more) ==
  /\ ~Idle(t) /\ Then(t, more) /\ IsSteps(more)
  /\ \A e \in Range(more) : CameFrom(Next1(t), e)
  /\ more = <<>> \/ (IsSteps(Tail(more)) /\ \A e \in Range(Tail(more)) : ~HeadOnly(e))

\* The step that is next.
LEMMA NextIsWellFormed ==
  ASSUME Shape, NEW t \in Threads, ~Idle(t)
  PROVE  WellFormed(Next1(t)) /\ Next1(t) \in Range(todo[t])
<1>1. IsSteps(todo[t]) /\ todo[t] # <<>> /\ \A e \in Range(todo[t]) : WellFormed(e)
  BY DEF Shape, TodoShape, Idle
<1>2. Head(todo[t]) \in Range(todo[t])
  BY <1>1, FirstAndRest
<1>3. QED
  BY <1>1, <1>2 DEF Next1

\* A step nothing follows.
LEMMA FollowsNothing ==
  ASSUME NEW t, ~Idle(t), Then(t, <<>>)
  PROVE  Follow(t, <<>>)
BY NoSteps DEF Follow

\* A step one step follows.
LEMMA FollowsOne ==
  ASSUME NEW t, ~Idle(t), NEW e, Then(t, <<e>>), CameFrom(Next1(t), e)
  PROVE  Follow(t, <<e>>)
<1>1. IsSteps(<<e>>) /\ Range(<<e>>) = {e}
  BY SingleSteps
<1>2. Tail(<<e>>) = <<>>
  OBVIOUS
<1>3. IsSteps(Tail(<<e>>)) /\ \A x \in Range(Tail(<<e>>)) : ~HeadOnly(x)
  BY <1>2, NoSteps
<1>4. QED
  BY <1>1, <1>3 DEF Follow

\* Only the state of dialling writes the dialled number.
LEMMA DialingSteps ==
  ASSUME NEW d, NEW was
  PROVE  /\ was = "dialing" => StateSteps(d, "dialing", was) = <<>>
         /\ was # "dialing" => StateSteps(d, "dialing", was) = <<Set(Update(DialledNumber)), Send(d, FALSE), Show(d, "proceed")>>
<1> DEFINE x == Dialing(d)
<1>1. /\ SettingUpSteps(d, "dialing", was) = If(was # "dialing", x)
      /\ TalkingSteps(d, "dialing", was) = <<>> /\ HeldSteps(d, "dialing") = <<>>
      /\ EndingSteps(d, "dialing") = <<>>
  BY DEF SettingUpSteps, TalkingSteps, HeldSteps, EndingSteps
<1>2. IsSteps(x) /\ IsSteps(<<>>)
  BY ThreeSteps, NoSteps DEF Dialing
<1>3. x = <<Set(Update(DialledNumber)), Send(d, FALSE), Show(d, "proceed")>>
  BY DEF Dialing, DialledNumber
<1> HIDE DEF x
<1>4. IsSteps(If(was # "dialing", x))
  BY <1>2, IfSteps
<1>5. If(was # "dialing", x) \o <<>> = If(was # "dialing", x)
  BY <1>2, <1>4, Joining
<1>6. StateSteps(d, "dialing", was) = If(was # "dialing", x)
  BY <1>1, <1>5 DEF StateSteps
<1>7. QED
  BY <1>3, <1>6 DEF If

\* What follows a state (__sccp_indicate, __sccp_indicate_remote_device).
LEMMA StateFollows ==
  ASSUME NEW t, ~Idle(t), Next1(t).do = "state", NEW d \in Lookers,
         d = (IF Next1(t).on # Nobody THEN Next1(t).on ELSE talk.dev),
         Then(t, Append(StateSteps(d, Next1(t).state, talk.st), OtherPhones(d, Next1(t).state, Next1(t).force)))
  PROVE  Follow(t, Append(StateSteps(d, Next1(t).state, talk.st), OtherPhones(d, Next1(t).state, Next1(t).force)))
<1> DEFINE f == Next1(t)
           a == StateSteps(d, f.state, talk.st)
           o == OtherPhones(d, f.state, f.force)
<1>1. IsSteps(a) /\ \A e \in Range(a) : StepOf(d, f.state, e)
  BY StepsOfState
<1>2. f.do = "state" /\ d = (IF f.on # Nobody THEN f.on ELSE talk.dev) /\ Then(t, Append(a, o))
  OBVIOUS
<1>3. o = OtherPhones(d, f.state, f.force)
  OBVIOUS
<1>4. f = Next1(t)
  OBVIOUS
<1>5. a = StateSteps(d, f.state, talk.st)
  OBVIOUS
<1>6. ~HeadOnly(o)
  BY DEF HeadOnly, OtherPhones, PicksUp, Be, IsDialled
<1> HIDE DEF a, o, f
<1>7. IsSteps(Append(a, o)) /\ Range(Append(a, o)) = Range(a) \cup {o}
  BY <1>1, OneMore
<1>8. \A e \in Range(Append(a, o)) : CameFrom(f, e)
  BY <1>1, <1>2, <1>3, <1>7 DEF CameFrom
<1>9. \A e : StepOf(d, f.state, e) /\ f.state # "dialing" => ~HeadOnly(e)
  BY DEF StepOf, HeadOnly, IsDialled, State, Show, Send, PicksUp, Be
<1>10. IsSteps(Tail(Append(a, o))) /\ \A e \in Range(Tail(Append(a, o))) : ~HeadOnly(e)
  <2>0. Append(a, o) # <<>>
    <3> DEFINE S == Range(a) \cup {o}
    <3>1. a \in Seq(S) /\ o \in S
      BY <1>1 DEF IsSteps
    <3> HIDE DEF S
    <3>2. QED
      BY <3>1, AppendProperties
  <2>1. IsSteps(Tail(Append(a, o))) /\ Range(Tail(Append(a, o))) \subseteq Range(Append(a, o))
    BY <2>0, <1>7, FirstAndRest
  <2>2. CASE f.state # "dialing"
    BY <2>1, <2>2, <1>1, <1>6, <1>7, <1>9
  <2>3. CASE f.state = "dialing" /\ talk.st = "dialing"
    <3>1. a = <<>>
      BY <2>3, <1>5, DialingSteps
    <3>2. Append(<<>>, o) = <<o>> /\ Tail(<<o>>) = <<>>
      OBVIOUS
    <3>3. QED
      BY <3>1, <3>2, NoSteps
  <2>4. CASE f.state = "dialing" /\ talk.st # "dialing"
    <3> DEFINE x == Set(Update(DialledNumber))
               y == Send(d, FALSE)
               z == Show(d, "proceed")
    <3>1. a = <<x, y, z>>
      BY <2>4, <1>5, DialingSteps
    <3>2. ~HeadOnly(y) /\ ~HeadOnly(z)
      BY DEF HeadOnly, Send, Show, PicksUp, Be, IsDialled
    <3> HIDE DEF x, y, z
    <3> DEFINE S == {x, y, z, o}
    <3>3. <<x, y, z>> \in Seq(S) /\ o \in S /\ <<x, y, z>> # <<>>
      OBVIOUS
    <3> HIDE DEF S
    <3>4. Tail(Append(<<x, y, z>>, o)) = Append(Tail(<<x, y, z>>), o)
      BY <3>3, HeadTailAppend
    <3>5. Tail(<<x, y, z>>) = <<y, z>>
      OBVIOUS
    <3>6. IsSteps(<<y, z>>) /\ Range(<<y, z>>) = {y, z}
      BY TwoSteps
    <3>7. IsSteps(Append(<<y, z>>, o)) /\ Range(Append(<<y, z>>, o)) = {y, z} \cup {o}
      BY <3>6, OneMore
    <3>8. QED
      BY <3>1, <3>2, <3>4, <3>5, <3>7, <1>6
  <2>5. QED
    BY <2>2, <2>3, <2>4
<1>11. Follow(t, Append(a, o))
  BY <1>2, <1>4, <1>7, <1>8, <1>10 DEF Follow
<1>12. QED
  BY <1>11 DEF a, o, f

\* What follows sccp_channel_send_callinfo2.
LEMMA TellFollows ==
  ASSUME Shape, NEW t \in Threads, DoTell(t)
  PROVE  \E more : Follow(t, more)
<1> DEFINE f == Next1(t)
           a0 == <<Send(talk.dev, FALSE)>>
           a == IF talk.dev # Nobody THEN a0 ELSE OnEach(LAMBDA q : Send(q, FALSE))
           c == f.alert /\ talk.type = "out" /\ talk.st = "ringout"
           b0 == <<State(Nobody, "alerting", FALSE)>>
           b == If(c, b0)
<1>1. Then(t, a \o b) /\ ~Idle(t) /\ f.do = "tell"
  BY DEF DoTell, Does
<1>2. IsSteps(a0) /\ Range(a0) = {Send(talk.dev, FALSE)} /\ IsSteps(b0) /\ Range(b0) = {State(Nobody, "alerting", FALSE)}
  BY SingleSteps
<1>3. /\ IsSteps(OnEach(LAMBDA q : Send(q, FALSE)))
      /\ Range(OnEach(LAMBDA q : Send(q, FALSE))) = {Send(q, FALSE) : q \in Lookers}
  BY OnEachSends
<1>4. talk.dev # Nobody => talk.dev \in Lookers
  BY DEF Shape, TalkShape
<1>5. IsSteps(a) /\ Range(a) \subseteq {Send(q, FALSE) : q \in Lookers}
  BY <1>2, <1>3, <1>4
<1> HIDE DEF a, b0
<1>6. IsSteps(b) /\ Range(b) = IF c THEN {State(Nobody, "alerting", FALSE)} ELSE {}
  BY <1>2, IfSteps
<1> HIDE DEF b
<1>7. IsSteps(a \o b) /\ Range(a \o b) = Range(a) \cup Range(b)
  BY <1>5, <1>6, JoinedSteps
<1>8. \A e \in Range(a \o b) : ~HeadOnly(e) /\ CameFrom(f, e)
  <2> SUFFICES ASSUME NEW e \in Range(a \o b) PROVE ~HeadOnly(e) /\ CameFrom(f, e)
    OBVIOUS
  <2>1. CASE e \in Range(a)
    <3>1. PICK q \in Lookers : e = Send(q, FALSE)
      BY <1>5, <2>1
    <3>2. ~HeadOnly(e)
      BY <3>1 DEF HeadOnly, Send, PicksUp, Be, IsDialled
    <3>3. CameFrom(f, e)
      BY <1>1, <3>1 DEF CameFrom
    <3>4. QED
      BY <3>2, <3>3
  <2>2. CASE e \in Range(b)
    <3>1. c /\ e = State(Nobody, "alerting", FALSE)
      BY <1>6, <2>2
    <3>2. ~HeadOnly(e)
      BY <3>1 DEF HeadOnly, State, PicksUp, Be, IsDialled
    <3>3. CameFrom(f, e)
      BY <1>1, <3>1 DEF CameFrom
    <3>4. QED
      BY <3>2, <3>3
  <2>3. QED
    BY <1>7, <2>1, <2>2
<1>9. a \o b = <<>> \/ (IsSteps(Tail(a \o b)) /\ \A e \in Range(Tail(a \o b)) : ~HeadOnly(e))
  BY <1>7, <1>8, FirstAndRest
<1>10. Follow(t, a \o b)
  BY <1>1, <1>7, <1>8, <1>9 DEF Follow
<1>11. QED
  BY <1>10

\* Every step does its first and leaves what may follow it.
LEMMA DoFollows ==
  ASSUME Shape, NEW t \in Threads, Do(t)
  PROVE  \E more : Follow(t, more)
<1> DEFINE f == Next1(t)
<1>0. ~Idle(t) /\ WellFormed(f)
  <2>1. ~Idle(t)
    BY DEF Do, DoRing, DoRung, DoOff, DoSet, DoBe, DoLock, DoState, DoShow, DoSend, DoSent, DoTell, DoOthers, Does
  <2>2. QED
    BY <2>1, NextIsWellFormed
<1>1. CASE DoRing(t)
  <2>1. f.do = "ring" /\ f.on \in Lookers /\ busy[f.on] \in {"no", "other", "linked"}
    BY <1>0, <1>1 DEF DoRing, Does, WellFormed, Shape, ScreensShape
  <2>2. \/ Then(t, <<State(f.on, "ringing", FALSE)>>) \/ Then(t, <<State(f.on, "waiting", FALSE)>>) \/ Then(t, <<>>)
    <3>1. Then(t, CASE busy[f.on] = "no" -> <<State(f.on, "ringing", FALSE)>>
                    [] busy[f.on] = "other" -> <<State(f.on, "waiting", FALSE)>>
                    [] busy[f.on] = "linked" -> <<>>)
      BY <1>1 DEF DoRing
    <3>2. QED
      BY <2>1, <3>1
  <2>3. CameFrom(f, State(f.on, "ringing", FALSE)) /\ CameFrom(f, State(f.on, "waiting", FALSE))
    BY <2>1 DEF CameFrom
  <2>4. QED
    BY <1>0, <2>2, <2>3, FollowsOne, FollowsNothing
<1>2. CASE DoSet(t)
  <2>1. f.do = "set" /\ f.then \in {<<>>, <<Tell(TRUE)>>}
    BY <1>0, <1>2 DEF DoSet, Does, WellFormed
  <2>2. Then(t, <<>>) \/ Then(t, f.then)
    BY <1>2 DEF DoSet, If
  <2>3. Then(t, <<>>) \/ (Then(t, <<Tell(TRUE)>>) /\ f.then = <<Tell(TRUE)>>)
    BY <2>1, <2>2
  <2>4. f.then = <<Tell(TRUE)>> => CameFrom(f, Tell(TRUE))
    BY <2>1 DEF CameFrom
  <2>5. QED
    BY <1>0, <2>3, <2>4, FollowsOne, FollowsNothing
<1>3. CASE DoState(t)
  <2> DEFINE d == IF f.on # Nobody THEN f.on ELSE talk.dev
  <2>1. f.do = "state" /\ (f.on # Nobody => f.on \in Lookers) /\ (talk.dev # Nobody => talk.dev \in Lookers)
    BY <1>0, <1>3 DEF DoState, Does, WellFormed, Shape, TalkShape
  <2>2. \/ Then(t, <<>>)
        \/ d # Nobody /\ Then(t, Append(StateSteps(d, f.state, talk.st), OtherPhones(d, f.state, f.force)))
    BY <1>3 DEF DoState
  <2>3. d # Nobody => d \in Lookers
    BY <2>1
  <2>4. QED
    BY <1>0, <2>1, <2>2, <2>3, StateFollows, FollowsNothing
<1>4. CASE DoSend(t)
  <2>1. f.do = "send" /\ (Then(t, <<>>) \/ Then(t, <<Sent>>))
    BY <1>4 DEF DoSend, Does
  <2>2. CameFrom(f, Sent)
    BY <2>1 DEF CameFrom
  <2>3. QED
    BY <1>0, <2>1, <2>2, FollowsOne, FollowsNothing
<1>5. CASE DoTell(t)
  BY <1>5, TellFollows
<1>6. CASE DoRung(t) \/ DoOff(t) \/ DoBe(t) \/ DoLock(t) \/ DoShow(t) \/ DoSent(t) \/ DoOthers(t)
  <2>1. Then(t, <<>>)
    BY <1>6 DEF DoRung, DoOff, DoBe, DoLock, DoShow, DoSent, DoOthers
  <2>2. QED
    BY <1>0, <2>1, FollowsNothing
<1>7. QED
  BY <1>1, <1>2, <1>3, <1>4, <1>5, <1>6 DEF Do

\* What the thread has left after a step.
After(t) ==
  /\ ~Idle(t) /\ Next1(t) \in Pending(t) /\ Rest(t) \subseteq Pending(t)
  /\ DOMAIN todo' = Threads
  /\ \A o \in Threads : IsSteps(todo'[o]) /\ (o # t => todo'[o] = todo[o])
  /\ \A e \in Pending(t)' : e \in Rest(t) \/ CameFrom(Next1(t), e)
  /\ \A e \in Rest(t)' : e \in Rest(t) \/ (e \in Pending(t)' /\ ~HeadOnly(e))

\* What came first is what is taken off first.
LEMMA TailJoined ==
  ASSUME NEW S, NEW a \in Seq(S), NEW b \in Seq(S), a # <<>>
  PROVE  Tail(a \o b) = Tail(a) \o b
<1>1. Len(a) \in Nat \ {0} /\ Len(b) \in Nat
  BY EmptySeq, LenProperties
<1>2. /\ Tail(a) \in Seq(S) /\ Len(Tail(a)) = Len(a) - 1
      /\ \A i \in 1..Len(Tail(a)) : Tail(a)[i] = a[i + 1]
  BY HeadTailProperties
<1>3. /\ a \o b \in Seq(S) /\ Len(a \o b) = Len(a) + Len(b) /\ a \o b # <<>>
      /\ \A i \in 1..Len(a) + Len(b) : (a \o b)[i] = IF i <= Len(a) THEN a[i] ELSE b[i - Len(a)]
  BY <1>1, ConcatProperties
<1>4. /\ Tail(a \o b) \in Seq(S) /\ Len(Tail(a \o b)) = Len(a) + Len(b) - 1
      /\ \A i \in 1..Len(Tail(a \o b)) : Tail(a \o b)[i] = (a \o b)[i + 1]
  BY <1>3, HeadTailProperties
<1>5. /\ Tail(a) \o b \in Seq(S) /\ Len(Tail(a) \o b) = Len(a) + Len(b) - 1
      /\ \A i \in 1..Len(a) - 1 + Len(b) :
            (Tail(a) \o b)[i] = IF i <= Len(a) - 1 THEN Tail(a)[i] ELSE b[i - (Len(a) - 1)]
  BY <1>1, <1>2, ConcatProperties
<1>6. \A i \in 1..Len(Tail(a \o b)) : Tail(a \o b)[i] = (Tail(a) \o b)[i]
  BY <1>1, <1>2, <1>3, <1>4, <1>5
<1>7. QED
  BY <1>4, <1>5, <1>6, SeqEqual

\* Every step leaves the others to do and adds what may follow it.
LEMMA DoAfter ==
  ASSUME Shape, NEW t \in Threads, Do(t)
  PROVE  After(t)
<1>1. PICK more : Follow(t, more)
  BY DoFollows
<1>2. ~Idle(t) /\ Then(t, more) /\ IsSteps(more) /\ TodoShape
  BY <1>1 DEF Follow, Shape
<1>3. /\ DOMAIN todo' = Threads /\ \A o \in Threads : o # t => todo'[o] = todo[o]
      /\ todo'[t] = more \o Tail(todo[t]) /\ IsSteps(Tail(todo[t]))
      /\ \A o \in Threads : IsSteps(todo'[o])
      /\ Next1(t) \in Range(todo[t]) /\ Range(Tail(todo[t])) \subseteq Range(todo[t])
      /\ Range(todo'[t]) = Range(more) \cup Range(Tail(todo[t]))
  BY <1>2, StepDone
<1>4. Rest(t) = Range(Tail(todo[t])) /\ Pending(t) = Range(todo[t]) /\ Pending(t)' = Range(todo'[t])
  BY <1>2 DEF Rest, Pending, Idle
<1>5. \A e \in Pending(t)' : e \in Rest(t) \/ CameFrom(Next1(t), e)
  BY <1>1, <1>3, <1>4 DEF Follow
<1>6. Rest(t)' = IF todo'[t] = <<>> THEN {} ELSE Range(Tail(todo'[t]))
  BY DEF Rest
<1>7. \A e \in Rest(t)' : e \in Pending(t)'
  <2>1. todo'[t] # <<>> => Range(Tail(todo'[t])) \subseteq Range(todo'[t])
    BY <1>3, FirstAndRest
  <2>2. QED
    BY <2>1, <1>4, <1>6
<1>8. \A e \in Rest(t)' : e \in Rest(t) \/ ~HeadOnly(e)
  <2> DEFINE tl == Tail(todo[t])
  <2>1. CASE more = <<>>
    <3>1. more \o tl = tl
      <4>1. IsSteps(tl)
        BY <1>3
      <4>2. <<>> \o tl = tl
        <5> HIDE DEF tl
        <5> QED BY <4>1, NoSteps, Joining
      <4>3. QED
        BY <2>1, <4>2
    <3>2. Rest(t)' \subseteq Rest(t)
      <4>1. tl # <<>> => Range(Tail(tl)) \subseteq Range(tl)
        BY <1>3, FirstAndRest
      <4>2. QED
        BY <3>1, <4>1, <1>3, <1>4, <1>6
    <3>3. QED
      BY <3>2
  <2>2. CASE more # <<>>
    <3>1. IsSteps(Tail(more)) /\ \A e \in Range(Tail(more)) : ~HeadOnly(e)
      BY <1>1, <2>2 DEF Follow
    <3>2. Tail(more \o tl) = Tail(more) \o tl
      <4> DEFINE S == Range(more) \cup Range(tl)
      <4>1. Range(more) \subseteq S /\ Range(tl) \subseteq S /\ IsSteps(tl)
        BY <1>3
      <4> HIDE DEF S, tl
      <4>2. more \in Seq(S) /\ tl \in Seq(S)
        BY <1>2, <4>1, SeqMonotonic DEF IsSteps
      <4>3. QED
        BY <2>2, <4>2, TailJoined
    <3>3. Range(Tail(more) \o tl) = Range(Tail(more)) \cup Range(tl)
      BY <1>3, <3>1, JoinedSteps
    <3>4. Rest(t)' \subseteq Range(Tail(more)) \cup Rest(t)
      BY <3>2, <3>3, <1>3, <1>4, <1>6
    <3>5. QED
      BY <3>1, <3>4
  <2>3. QED
    BY <2>1, <2>2
<1>9. /\ ~Idle(t) /\ Next1(t) \in Pending(t) /\ Rest(t) \subseteq Pending(t)
      /\ DOMAIN todo' = Threads
      /\ \A o \in Threads : IsSteps(todo'[o]) /\ (o # t => todo'[o] = todo[o])
  BY <1>2, <1>3, <1>4
<1>10. \A e \in Rest(t)' : e \in Rest(t) \/ (e \in Pending(t)' /\ ~HeadOnly(e))
  BY <1>7, <1>8
<1>11. QED
  BY ONLY <1>5, <1>9, <1>10 DEF After

\* What follows is well formed.
LEMMA NewIsWellFormed ==
  ASSUME Shape, NEW f, WellFormed(f), NEW e, CameFrom(f, e)
  PROVE  WellFormed(e)
<1>1. ASSUME NEW d \in Lookers, NEW s, StepOf(d, s, e) PROVE WellFormed(e)
  <2>1. CASE e = Set(Update(DialledNumber))
    BY <2>1 DEF WellFormed, Set, SetThen
  <2>2. CASE \E x : e = State(d, x, FALSE)
    BY <2>2 DEF WellFormed, State
  <2>3. CASE \E x : e = Show(d, x)
    BY <2>3 DEF WellFormed, Show
  <2>4. CASE \E x : e = Send(d, x)
    BY <2>4 DEF WellFormed, Send
  <2>5. QED
    BY <1>1, <2>1, <2>2, <2>3, <2>4 DEF StepOf
<1>2. ASSUME NEW d \in Lookers, NEW s, NEW g, e = OtherPhones(d, s, g) PROVE WellFormed(e)
  BY <1>2 DEF WellFormed, OtherPhones
<1>3. ASSUME NEW b, e = Tell(b) PROVE WellFormed(e)
  BY <1>3 DEF WellFormed, Tell
<1>4. ASSUME NEW d \in Lookers \cup {Nobody}, NEW s, NEW g, e = State(d, s, g) PROVE WellFormed(e)
  BY <1>4 DEF WellFormed, State
<1>5. ASSUME NEW d \in Lookers, NEW s, e = Send(d, s) PROVE WellFormed(e)
  BY <1>5 DEF WellFormed, Send
<1>6. e = Sent => WellFormed(e)
  BY DEF WellFormed, Sent
<1>7. QED
  BY <1>1, <1>2, <1>3, <1>4, <1>5, <1>6 DEF CameFrom

\* The steps stay well formed, and what is first or never stays so.
LEMMA TodoKept ==
  ASSUME Shape, HeadsFirst, NEW t \in Threads, After(t)
  PROVE  TodoShape' /\ HeadsFirst'
<1>1. Pending(t) = Range(todo[t]) /\ \A e \in Pending(t) : WellFormed(e)
  BY DEF Shape, TodoShape, Pending
<1>2. \A e \in Pending(t)' : WellFormed(e)
  BY <1>1, NewIsWellFormed DEF After
<1>3. TodoShape'
  <2>1. ASSUME NEW o \in Threads PROVE IsSteps(todo'[o]) /\ \A e \in Range(todo'[o]) : WellFormed(e)
    <3>1. CASE o = t
      BY <3>1, <1>2 DEF After, Pending
    <3>2. CASE o # t
      BY <3>2 DEF After, Shape, TodoShape
    <3>3. QED
      BY <3>1, <3>2
  <2>2. QED
    BY <2>1 DEF TodoShape, After
<1>4. ASSUME NEW o \in Threads, NEW e \in Rest(o)' PROVE ~HeadOnly(e)
  <2>1. CASE o = t
    BY <2>1, <1>4 DEF After, HeadsFirst
  <2>2. CASE o # t
    <3>1. todo'[o] = todo[o]
      BY <2>2 DEF After
    <3>2. Rest(o)' = Rest(o)
      BY <3>1 DEF Rest
    <3>3. QED
      BY <1>4, <3>2 DEF HeadsFirst
  <2>3. QED
    BY <2>1, <2>2
<1>5. ASSUME NEW e \in Pending("pbx")' PROVE ~HeadOnly(e)
  <2>1. CASE t = "pbx"
    <3>1. e \in Rest(t) \/ CameFrom(Next1(t), e)
      BY <1>5, <2>1 DEF After
    <3>2. ~HeadOnly(Next1(t)) /\ (e \in Rest(t) => ~HeadOnly(e))
      BY <2>1 DEF After, HeadsFirst
    <3>3. ~HeadOnly(Next1(t)) /\ CameFrom(Next1(t), e) => ~HeadOnly(e)
      BY DEF CameFrom, HeadOnly, StepOf, IsDialled, PicksUp, Be, Set, SetThen, State, Show, Send, Sent, Tell, OtherPhones
    <3>4. QED
      BY <3>1, <3>2, <3>3
  <2>2. CASE t # "pbx"
    <3>1. Pending("pbx")' = Pending("pbx")
      BY <2>2 DEF After, Pending, Threads
    <3>2. QED
      BY <1>5, <3>1 DEF HeadsFirst
  <2>3. QED
    BY <2>1, <2>2
<1>6. HeadsFirst'
  BY <1>4, <1>5 DEF HeadsFirst
<1>7. QED
  BY <1>3, <1>6
InfoFields == {"party", "orig", "last", "open", "changed"}
Mixed(old, new) == [name |-> Merge(old.name, new.name), number |-> Merge(old.number, new.number)]

\* What an update does to the parties (callinfo_Setter).
LEMMA SetterWrites ==
  ASSUME NEW i, DOMAIN i = InfoFields, DOMAIN i.party = Groups, NEW u
  PROVE  /\ DOMAIN Setter(i, u) = InfoFields /\ DOMAIN Setter(i, u).party = Groups
         /\ \A g \in Groups : Setter(i, u).party[g] =
              IF g \in DOMAIN u.parties THEN Mixed(i.party[g], u.parties[g]) ELSE i.party[g]
<1> DEFINE w == Written(i, u)
           new == [g \in Groups |-> IF g \notin DOMAIN u.parties THEN i.party[g]
                     ELSE [name |-> Merge(i.party[g].name, u.parties[g].name),
                           number |-> Merge(i.party[g].number, u.parties[g].number)]]
<1>1. DOMAIN w = InfoFields /\ w.party = new
  BY DEF Written, InfoFields
<1>2. Setter(i, u) = [w EXCEPT !.changed = @ \/ w # i]
  BY DEF Setter
<1> HIDE DEF w
<1>3. DOMAIN Setter(i, u) = InfoFields /\ Setter(i, u).party = new
  BY <1>1, <1>2 DEF InfoFields
<1>4. DOMAIN new = Groups /\ \A g \in Groups : new[g] =
              IF g \in DOMAIN u.parties THEN Mixed(i.party[g], u.parties[g]) ELSE i.party[g]
  BY DEF Mixed
<1>5. QED
  BY <1>3, <1>4

\* The records keep their fields and the phones are those of the line.
LEMMA ShapeKept ==
  ASSUME Shape, PartyShape, HeadsFirst, NEW t \in Threads, Do(t)
  PROVE  Shape' /\ PartyShape' /\ HeadsFirst'
<1> DEFINE f == Next1(t)
<1>1. TodoShape' /\ HeadsFirst'
  BY DoAfter, TodoKept
<1>2. WellFormed(f)
  <2>1. ~Idle(t)
    BY DoAfter DEF After
  <2>2. QED
    BY <2>1, NextIsWellFormed
<1>3. TalkShape'
  <2>1. CASE DoBe(t)
    <3>1. talk' = [g \in DOMAIN talk |-> IF g \in DOMAIN f.fields THEN f.fields[g] ELSE talk[g]] /\ f.do = "be"
      BY <2>1 DEF DoBe, Does
    <3>2. "dev" \in DOMAIN f.fields => f.fields.dev \in Lookers \cup {Nobody}
      BY <1>2, <3>1 DEF WellFormed
    <3>3. QED
      BY <3>1, <3>2 DEF Shape, TalkShape, Fields
  <2>2. CASE DoState(t)
    BY <2>2 DEF DoState, Shape, TalkShape, Fields
  <2>3. CASE DoLock(t)
    BY <2>3 DEF DoLock, Shape, TalkShape, Fields
  <2>4. CASE DoRung(t)
    BY <2>4 DEF DoRung, Shape, TalkShape, Fields
  <2>5. CASE talk' = talk
    BY <2>5 DEF Shape, TalkShape
  <2>6. QED
    BY <2>1, <2>2, <2>3, <2>4, <2>5 DEF Do, DoRing, DoOff, DoSet, DoShow, DoSend, DoSent, DoTell, DoOthers
<1>4. ScreensShape'
  <2>1. CASE DoShow(t)
    <3>1. told' = [told EXCEPT ![f.on] = IF f.state = "none" THEN Dark ELSE [@ EXCEPT !.state = f.state]]
          /\ busy' = busy /\ f.on \in Lookers
      BY <1>2, <2>1 DEF DoShow, Does, WellFormed
    <3>2. QED
      BY <3>1 DEF Shape, ScreensShape, Dark
  <2>2. CASE DoSend(t)
    <3>1. (told' = [told EXCEPT ![f.on].info = Carried(f.on, info)] \/ told' = told) /\ busy' = busy /\ f.on \in Lookers
      BY <1>2, <2>2 DEF DoSend, Does, WellFormed
    <3>2. QED
      BY <3>1 DEF Shape, ScreensShape
  <2>3. CASE DoOff(t)
    <3>1. told' = [q \in Lookers |-> IF q = f.on THEN told[q] ELSE Dark] /\ busy' = busy
      BY <2>3 DEF DoOff
    <3>2. QED
      BY <3>1 DEF Shape, ScreensShape, Dark
  <2>4. CASE DoOthers(t)
    <3>1. (told' = [q \in Lookers |-> IF q = f.on THEN told[q] ELSE Remote(q, f.state)] \/ told' = told) /\ busy' = busy
      BY <2>4 DEF DoOthers
    <3>2. \A q \in Lookers : DOMAIN Remote(q, f.state) = {"state", "info"}
      BY DEF Remote, RemoteState, ConnectedRemote, HoldRemote, Dark, Shape, ScreensShape
    <3>3. QED
      BY <3>1, <3>2 DEF Shape, ScreensShape
  <2>5. CASE told' = told /\ busy' = busy
    BY <2>5 DEF Shape, ScreensShape
  <2>6. QED
    BY <2>1, <2>2, <2>3, <2>4, <2>5 DEF Do, DoRing, DoSet, DoBe, DoLock, DoState, DoRung, DoSent, DoTell
<1>5. InfoShape' /\ PartyShape'
  <2>1. CASE DoSet(t)
    <3>1. PICK u : info' = Setter(info, u)
      BY <2>1 DEF DoSet
    <3>2. DOMAIN info = InfoFields /\ DOMAIN info.party = Groups
      BY DEF Shape, InfoShape, PartyShape, InfoFields
    <3>3. DOMAIN info' = InfoFields /\ DOMAIN info'.party = Groups
      BY <3>1, <3>2, SetterWrites
    <3>4. DOMAIN ghost' = DOMAIN ghost
      BY <2>1 DEF DoSet
    <3>5. QED
      BY <3>3, <3>4 DEF Shape, InfoShape, PartyShape, InfoFields
  <2>2. CASE DoSend(t)
    BY <2>2 DEF DoSend, Shape, InfoShape, PartyShape
  <2>3. CASE DoSent(t)
    BY <2>3 DEF DoSent, Shape, InfoShape, PartyShape
  <2>4. CASE info' = info /\ ghost' = ghost
    BY <2>4 DEF Shape, InfoShape, PartyShape
  <2>5. QED
    BY <2>1, <2>2, <2>3, <2>4 DEF Do, DoRing, DoBe, DoLock, DoState, DoRung, DoTell, DoShow, DoOff, DoOthers
<1>6. QED
  BY <1>1, <1>3, <1>4, <1>5 DEF Shape

-----------------------------------------------------------------------------
(* What a step changes *)

\* What a step does to the call.
TalkAfter(f) ==
  /\ talk'.stage = talk.stage
  /\ f.do # "be" => \A g \in {"running", "type", "dev", "why", "conference"} : talk'[g] = talk[g]
  /\ f.do = "be" => \A g \in Fields : talk'[g] = IF g \in DOMAIN f.fields THEN f.fields[g] ELSE talk[g]
  /\ f.do \notin {"be", "state", "rung"} => talk'.st = talk.st /\ talk'.prev = talk.prev
  /\ f.do = "rung" => talk'.st = talk.st \/ (talk.st \in {"ringing", "waiting"} /\ talk'.st = "ringing")
  /\ f.do = "state" => 
       \/ f.on = Nobody /\ talk.dev = Nobody /\ talk' = talk
       \/ /\ f.on # Nobody \/ talk.dev # Nobody
          /\ talk'.st = (IF f.state = "onhook" THEN "down" ELSE f.state) /\ talk'.prev = talk.st

\* What a step does to the parties.
InfoAfter(f) ==
  /\ info' = Setter(info, f.with) \/ (f.do # "set" /\ info'.party = info.party)
  /\ f.do # "set" => info'.party = info.party
  /\ ghost'.crossed = ghost.crossed /\ ghost'.partial = ghost.partial

\* What a step shows.
ToldAfter(f) ==
  /\ f.do \notin {"show", "send", "off", "others"} => told' = told
  /\ f.do = "send" => \A q \in Lookers : told'[q].state = told[q].state

\* The call, the parties and the displays after a step.
LEMMA DoTalk ==
  ASSUME Shape, NEW t \in Threads, Do(t)
  PROVE  TalkAfter(Next1(t)) /\ InfoAfter(Next1(t)) /\ ToldAfter(Next1(t))
<1> DEFINE f == Next1(t)
<1>0. DOMAIN talk = Fields /\ WellFormed(f)
  <2>1. ~Idle(t)
    BY DoAfter DEF After
  <2>2. QED
    BY <2>1, NextIsWellFormed DEF Shape, TalkShape
<1>1. TalkAfter(f)
  <2>1. CASE DoBe(t)
    <3>1. talk' = [g \in DOMAIN talk |-> IF g \in DOMAIN f.fields THEN f.fields[g] ELSE talk[g]] /\ f.do = "be"
      BY <2>1 DEF DoBe, Does
    <3>2. "stage" \notin DOMAIN f.fields
      BY <1>0, <3>1 DEF WellFormed
    <3>3. QED
      BY <1>0, <3>1, <3>2 DEF TalkAfter, Fields
  <2>2. CASE DoState(t)
    <3>1. f.do = "state"
      BY <2>2 DEF DoState, Does
    <3>2. \/ f.on = Nobody /\ talk.dev = Nobody /\ talk' = talk
          \/ /\ f.on # Nobody \/ talk.dev # Nobody
             /\ talk' = [talk EXCEPT !.prev = talk.st, !.st = IF f.state = "onhook" THEN "down" ELSE f.state]
      BY <2>2 DEF DoState
    <3>3. QED
      BY <1>0, <3>1, <3>2 DEF TalkAfter, Fields
  <2>3. CASE DoLock(t)
    <3>1. f.do = "lock" /\ talk' = [talk EXCEPT !.locked = TRUE]
      BY <2>3 DEF DoLock, Does
    <3>2. QED
      BY <1>0, <3>1 DEF TalkAfter, Fields
  <2>4. CASE DoRung(t)
    <3>1. f.do = "rung"
          /\ talk' = IF talk.st \in {"ringing", "waiting"}
                     THEN [talk EXCEPT !.called = TRUE, !.prev = talk.st, !.st = "ringing"]
                     ELSE [talk EXCEPT !.called = TRUE]
      BY <2>4 DEF DoRung, Does
    <3>2. QED
      BY <1>0, <3>1 DEF TalkAfter, Fields
  <2>5. CASE talk' = talk /\ f.do \notin {"be", "state", "rung"}
    BY <2>5 DEF TalkAfter
  <2>6. QED
    BY <2>1, <2>2, <2>3, <2>4, <2>5
       DEF Do, DoRing, DoOff, DoSet, DoShow, DoSend, DoSent, DoTell, DoOthers, Does
<1>2. InfoAfter(f)
  <2>0. DOMAIN ghost = {"late", "crossed", "partial"} /\ DOMAIN info = InfoFields
    BY DEF Shape, InfoShape, InfoFields
  <2>1. CASE DoSet(t)
    <3>1. info' = Setter(info, f.with) /\ f.do = "set"
      BY <2>1 DEF DoSet, Does
    <3>2. ghost'.crossed = ghost.crossed /\ ghost'.partial = ghost.partial
      BY <2>0, <2>1 DEF DoSet
    <3>3. QED
      BY <3>1, <3>2 DEF InfoAfter
  <2>2. CASE DoSend(t)
    <3>1. f.do = "send" /\ info' = info
      BY <2>2 DEF DoSend, Does
    <3>2. ghost'.crossed = ghost.crossed /\ ghost'.partial = ghost.partial
      BY <2>0, <2>2 DEF DoSend
    <3>3. QED
      BY <3>1, <3>2 DEF InfoAfter
  <2>3. CASE DoSent(t)
    <3>1. f.do = "sent" /\ info'.party = info.party /\ ghost' = ghost
      BY <2>0, <2>3 DEF DoSent, Does, InfoFields
    <3>2. QED
      BY <3>1 DEF InfoAfter
  <2>4. CASE info' = info /\ ghost' = ghost /\ f.do # "set"
    BY <2>4 DEF InfoAfter
  <2>5. QED
    BY <2>1, <2>2, <2>3, <2>4
       DEF Do, DoRing, DoBe, DoLock, DoState, DoRung, DoTell, DoShow, DoOff, DoOthers, Does
<1>3. ToldAfter(f)
  <2>1. CASE DoSend(t)
    <3>1. (told' = [told EXCEPT ![f.on].info = Carried(f.on, info)] \/ told' = told) /\ f.do = "send"
      BY <2>1 DEF DoSend, Does
    <3>2. DOMAIN told = Lookers /\ \A q \in Lookers : DOMAIN told[q] = {"state", "info"}
      BY DEF Shape, ScreensShape
    <3>3. \A q \in Lookers : told'[q].state = told[q].state
      BY <3>1, <3>2
    <3>4. QED
      BY <3>1, <3>3 DEF ToldAfter
  <2>2. CASE f.do # "send"
    BY <2>2 DEF ToldAfter, Do, DoRing, DoBe, DoLock, DoState, DoRung, DoTell, DoShow, DoOff, DoOthers, DoSet, DoSend, DoSent, Does
  <2>3. QED
    BY <2>1, <2>2 DEF Do, DoRing, DoBe, DoLock, DoState, DoRung, DoTell, DoShow, DoOff, DoOthers, DoSet, DoSend, DoSent, Does
<1>4. QED
  BY <1>1, <1>2, <1>3

-----------------------------------------------------------------------------
(* The phases are kept by every step *)

\* Once Asterisk runs the call, it goes on running it.
LEMMA RunningIsForGood ==
  ASSUME Shape, Running, NEW t \in Threads, Do(t), ~talk'.running
  PROVE  ~talk.running
<1> DEFINE f == Next1(t)
<1>1. TalkAfter(f) /\ f \in Pending(t)
  BY DoTalk, DoAfter DEF After
<1>2. talk.running /\ f.do = "be" => "running" \notin DOMAIN f.fields \/ f.fields.running
  BY <1>1 DEF Running, Goes
<1>3. "running" \in Fields
  BY DEF Fields
<1> HIDE DEF f
<1>4. f.do # "be" => talk'.running = talk.running
  BY <1>1 DEF TalkAfter
<1>5. f.do = "be" => talk'.running = IF "running" \in DOMAIN f.fields THEN f.fields["running"] ELSE talk.running
  BY <1>1, <1>3 DEF TalkAfter
<1>6. QED
  BY <1>2, <1>4, <1>5

\* Before it does, what follows a calm step is calm.
LEMMA CalmGoesOn ==
  ASSUME Shape, NEW f, Calm(f), NEW e, CameFrom(f, e)
  PROVE  /\ Calm(e) /\ e # Be([running |-> TRUE])
         /\ f.do # "state" => e.do \notin {"show", "others", "be"}
         /\ e.do # "state"
<1>1. CASE e = Sent /\ f.do = "send"
  BY <1>1 DEF Calm, Sent, Be
<1>2. CASE f.do = "state" /\ \E d \in Lookers : StepOf(d, f.state, e) \/ e = OtherPhones(d, f.state, f.force)
  <2>0. f.state \in {"offhook", "dialing"}
    BY <1>2 DEF Calm, Be
  <2>1. PICK d \in Lookers : StepOf(d, f.state, e) \/ e = OtherPhones(d, f.state, f.force)
    BY <1>2
  <2>2. CASE e = Set(Update(DialledNumber))
    BY <1>2, <2>2 DEF Calm, IsDialled, Set, SetThen, Be
  <2>3. CASE \E x : e = Show(d, x)
    BY <1>2, <2>3 DEF Calm, Show, Be
  <2>4. CASE \E x : e = Send(d, x)
    BY <1>2, <2>4 DEF Calm, Send, Be
  <2>5. CASE e = OtherPhones(d, f.state, f.force)
    BY <1>2, <2>5 DEF Calm, OtherPhones, Be
  <2>6. QED
    BY <2>0, <2>1, <2>2, <2>3, <2>4, <2>5 DEF StepOf
<1>3. CASE f.do \in {"tell", "ring"} \/ (f.do = "set" /\ f.then # <<>>)
  BY <1>3 DEF Calm, Be
<1>4. <<Tell(TRUE)>> # <<>>
  OBVIOUS
<1>5. QED
  BY <1>1, <1>2, <1>3, <1>4 DEF CameFrom

\* What follows a step that ends the call ends it.
LEMMA EndStepsGoOn ==
  ASSUME NEW f, EndStep(f), NEW e, CameFrom(f, e)
  PROVE  EndStep(e)
<1>1. CASE e = Sent
  BY <1>1 DEF EndStep, Sent
<1>2. CASE f.do = "state" /\ \E d \in Lookers : StepOf(d, f.state, e) \/ e = OtherPhones(d, f.state, f.force)
  <2>0. f.state = "onhook"
    BY <1>2 DEF EndStep
  <2>1. PICK d \in Lookers : StepOf(d, f.state, e) \/ e = OtherPhones(d, f.state, f.force)
    BY <1>2
  <2>3. CASE \E x : e = Show(d, x)
    BY <1>2, <2>3 DEF EndStep, Show
  <2>4. CASE \E x : e = Send(d, x)
    BY <1>2, <2>4 DEF EndStep, Send
  <2>5. CASE e = OtherPhones(d, f.state, f.force)
    BY <1>2, <2>5 DEF EndStep, OtherPhones
  <2>6. QED
    BY <2>0, <2>1, <2>3, <2>4, <2>5 DEF StepOf
<1>3. CASE f.do \in {"tell", "ring", "set"}
  BY <1>3 DEF EndStep
<1>4. QED
  BY <1>1, <1>2, <1>3 DEF CameFrom

\* Only such steps are left of a call that has ended.
LEMMA HungKept ==
  ASSUME Shape, Hung, NEW t \in Threads, Do(t)
  PROVE  Hung'
<1>1. After(t) /\ talk'.stage = talk.stage
  BY DoAfter, DoTalk DEF TalkAfter
<1>2. SUFFICES ASSUME ~Up, NEW e \in Pending("pbx")' PROVE EndStep(e)
  BY <1>1 DEF Hung, Up
<1>3. \A o \in Pending("pbx") : EndStep(o)
  BY <1>2 DEF Hung
<1>4. CASE t = "pbx"
  BY <1>1, <1>2, <1>3, <1>4, EndStepsGoOn DEF After
<1>5. CASE t # "pbx"
  <2>1. Pending("pbx")' = Pending("pbx")
    BY <1>1, <1>5 DEF After, Pending, Threads
  <2>2. QED
    BY <1>2, <1>3, <2>1
<1>6. QED
  BY <1>4, <1>5
NotRunningShape ==
    /\ talk.type # "in" /\ talk.dev # Nobody /\ talk.why = "normal"
    /\ info.party["called"].name = Blank
    /\ Up => talk.st \in {"down", "offhook", "dialing"} /\ todo["pbx"] = <<>>
PicksUpFirst ==
  /\ BeginsWith("phone", PicksUp) /\ (Up => talk.st = "offhook")
  /\ \A e \in Rest("phone") : Later(e)
AllCalm ==
  /\ \A e \in Pending("phone") : Calm(e)
  /\ (\E e \in Pending("phone") : e.do = "state" /\ e.state = "offhook")
        => Be([running |-> TRUE]) \notin Pending("phone")
  /\ Up /\ talk.st = "down" => \A e \in Pending("phone") : e.do \notin {"show", "others", "be"}
  /\ Up /\ talk.st = "offhook" /\ Be([running |-> TRUE]) \in Pending("phone")
        => Head(todo["phone"]).do = "state" /\ Head(todo["phone"]).state = "dialing"

(* The parts of NotRunning: either the phone begins to pick up a call, or  *)
(* its steps are calm.                                                     *)
LEMMA NotRunningParts == NotRunning <=> (~talk.running => NotRunningShape /\ (PicksUpFirst \/ AllCalm))
BY DEF NotRunning, NotRunningShape, PicksUpFirst, AllCalm

\* A step of Asterisk's thread, after the hangup of a call it did not run.
LEMMA NotRunningPbx ==
  ASSUME Shape, PartyShape, PhasesInv, ~talk.running, Do("pbx"), ~talk'.running
  PROVE  NotRunningShape' /\ (PicksUpFirst' \/ AllCalm')
<1> DEFINE f == Next1("pbx")
<1>1. After("pbx") /\ TalkAfter(f) /\ InfoAfter(f) /\ todo["pbx"] # <<>>
  BY DoAfter, DoTalk DEF After, Idle, Threads
<1>2. NotRunningShape /\ (PicksUpFirst \/ AllCalm)
  BY NotRunningParts DEF PhasesInv
<1>3. ~Up /\ ~Up'
  BY <1>1, <1>2 DEF NotRunningShape, TalkAfter, Up
<1>4. EndStep(f)
  BY <1>1, <1>3 DEF PhasesInv, Hung, After
<1>5. f.do # "be" /\ f.do # "set"
  BY <1>4 DEF EndStep
<1>6. todo'["phone"] = todo["phone"]
  BY <1>1 DEF After, Threads
<1> HIDE DEF f
<1>7. talk'.type = talk.type /\ talk'.dev = talk.dev /\ talk'.why = talk.why
  BY <1>1, <1>5 DEF TalkAfter
<1>8. info'.party = info.party
  BY <1>1, <1>5 DEF InfoAfter
<1>9. NotRunningShape'
  BY <1>2, <1>3, <1>7, <1>8 DEF NotRunningShape
<1>10. PicksUpFirst => PicksUpFirst'
  BY <1>3, <1>6 DEF PicksUpFirst, BeginsWith, Rest
<1>11. AllCalm => AllCalm'
  BY <1>3, <1>6 DEF AllCalm, Pending
<1>12. QED
  BY <1>2, <1>9, <1>10, <1>11

\* A step of the phone that does not make Asterisk run the call.
LEMMA NotRunningPhone ==
  ASSUME Shape, PartyShape, PhasesInv, ~talk.running, Do("phone"), ~talk'.running
  PROVE  NotRunningShape' /\ AllCalm'
<1> DEFINE f == Next1("phone")
           P == Pending("phone")
           run == Be([running |-> TRUE])
<1>1. After("phone") /\ TalkAfter(f) /\ InfoAfter(f) /\ f = Head(todo["phone"]) /\ todo["phone"] # <<>>
  BY DoAfter, DoTalk DEF After, Threads, Next1, Idle
<1>2. NotRunningShape /\ (PicksUpFirst \/ AllCalm)
  BY NotRunningParts DEF PhasesInv
<1>3. f.do = "be" => ~("running" \in DOMAIN f.fields /\ f.fields.running)
  BY <1>1 DEF TalkAfter, Fields
<1>4. f # PicksUp /\ f # run
  BY <1>3 DEF PicksUp, Be
<1>5. AllCalm
  BY <1>1, <1>2, <1>4 DEF PicksUpFirst, BeginsWith
<1>6. f \in P /\ Calm(f) /\ Rest("phone") \subseteq P
  BY <1>1, <1>5 DEF After, AllCalm
<1>7. f.do \in {"show", "send", "sent", "others", "state", "set"} /\ f.do # "be"
  BY <1>4, <1>6 DEF Calm
<1>8. \A e \in Pending("phone")' : 
         \/ e \in Rest("phone")
         \/ /\ Calm(e) /\ e # run /\ e.do # "state" /\ CameFrom(f, e)
            /\ f.do # "state" => e.do \notin {"show", "others", "be"}
  <2>1. \A e \in Pending("phone")' : e \in Rest("phone") \/ CameFrom(f, e)
    BY <1>1 DEF After
  <2>2. QED
    BY <1>6, <2>1, CalmGoesOn
<1>9. talk'.type = talk.type /\ talk'.dev = talk.dev /\ talk'.why = talk.why /\ talk'.stage = talk.stage
  BY <1>1, <1>7 DEF TalkAfter
<1>10. f.do = "state" => f.state \in {"offhook", "dialing"} /\ talk'.st = f.state
  <2>1. f.do = "state" => f.state \in {"offhook", "dialing"}
    BY <1>6 DEF Calm, Be
  <2>2. f.do = "state" => talk'.st = (IF f.state = "onhook" THEN "down" ELSE f.state)
    BY <1>1, <1>2 DEF TalkAfter, NotRunningShape
  <2>3. QED
    BY <2>1, <2>2
<1>11. f.do # "state" => talk'.st = talk.st
  BY <1>1, <1>7 DEF TalkAfter
<1>12. info'.party["called"].name = Blank
  <2>1. CASE f.do # "set"
    BY <1>1, <1>2, <2>1 DEF InfoAfter, NotRunningShape
  <2>2. CASE f.do = "set"
    <3>1. IsDialled(f) \/ "called" \notin DOMAIN f.with.parties
      BY <1>6, <2>2 DEF Calm, Be
    <3>2. info'.party["called"] = IF "called" \in DOMAIN f.with.parties
                                  THEN Mixed(info.party["called"], f.with.parties["called"])
                                  ELSE info.party["called"]
      <4>1. info' = Setter(info, f.with) /\ DOMAIN info = InfoFields /\ DOMAIN info.party = Groups
        BY <1>1, <2>2 DEF InfoAfter, Shape, InfoShape, PartyShape, InfoFields
      <4>2. "called" \in Groups
        BY DEF Groups
      <4> DEFINE u == f.with
      <4>5. DOMAIN info = InfoFields /\ DOMAIN info.party = Groups
        BY <4>1
      <4> HIDE DEF u
      <4>6. \A g \in Groups : Setter(info, u).party[g] =
              IF g \in DOMAIN u.parties THEN Mixed(info.party[g], u.parties[g]) ELSE info.party[g]
        BY ONLY <4>5, SetterWrites
      <4>3. Setter(info, f.with).party["called"] = IF "called" \in DOMAIN f.with.parties
                                  THEN Mixed(info.party["called"], f.with.parties["called"])
                                  ELSE info.party["called"]
        BY ONLY <4>2, <4>6 DEF u
      <4>4. QED
        BY ONLY <4>1, <4>3
    <3>3. CASE "called" \notin DOMAIN f.with.parties
      BY <1>2, <3>2, <3>3 DEF NotRunningShape
    <3>4. CASE IsDialled(f)
      <4>1. f.with.parties["called"].name = Null
        BY <3>4 DEF IsDialled, Update, Because, DialledNumber
      <4>2. Mixed(info.party["called"], f.with.parties["called"]).name = info.party["called"].name
        BY <4>1 DEF Mixed, Merge
      <4>3. QED
        BY <1>2, <3>2, <4>2 DEF NotRunningShape
    <3>5. QED
      BY <3>1, <3>3, <3>4
  <2>3. QED
    BY <2>1, <2>2
<1>13. NotRunningShape'
  <2>1. Up' => talk'.st \in {"down", "offhook", "dialing"} /\ todo'["pbx"] = <<>>
    <3>1. Up' => talk.st \in {"down", "offhook", "dialing"} /\ todo["pbx"] = <<>>
      BY <1>2, <1>9 DEF NotRunningShape, Up
    <3>2. todo'["pbx"] = todo["pbx"]
      BY <1>1 DEF After, Threads
    <3>3. QED
      BY <3>1, <3>2, <1>10, <1>11
  <2>2. QED
    BY <1>2, <1>9, <1>12, <2>1 DEF NotRunningShape
<1>14. ~(\E e \in Rest("phone") : e.do = "state")
  <2>1. \A e \in Rest("phone") : ~HeadOnly(e) /\ Calm(e)
    BY <1>5, <1>6 DEF PhasesInv, HeadsFirst, AllCalm, Threads
  <2>2. QED
    BY <2>1 DEF HeadOnly, Calm, Be
<1>15. AllCalm'
  <2>1. \A e \in Pending("phone")' : Calm(e)
    BY <1>5, <1>6, <1>8 DEF AllCalm
  <2>2. ~(\E e \in Pending("phone")' : e.do = "state")
    BY <1>8, <1>14
  <2>3. ASSUME Up', talk'.st = "down" PROVE \A e \in Pending("phone")' : e.do \notin {"show", "others", "be"}
    <3>1. f.do # "state" /\ Up /\ talk.st = "down"
      BY <2>3, <1>9, <1>10, <1>11 DEF Up
    <3>2. \A e \in P : e.do \notin {"show", "others", "be"}
      BY <3>1, <1>5 DEF AllCalm
    <3>3. QED
      BY <1>6, <1>8, <3>1, <3>2
  <2>4. ASSUME Up', talk'.st = "offhook" PROVE run \notin Pending("phone")'
    <3>1. SUFFICES ASSUME run \in Pending("phone")' PROVE FALSE
      OBVIOUS
    <3>2. run \in P
      BY <3>1, <1>6, <1>8
    <3>3. CASE f.do = "state"
      <4>1. f.state = "offhook"
        BY <2>4, <3>3, <1>10
      <4>2. QED
        BY <1>5, <1>6, <3>2, <3>3, <4>1 DEF AllCalm
    <3>4. CASE f.do # "state"
      <4>1. Up /\ talk.st = "offhook"
        BY <2>4, <3>4, <1>9, <1>11 DEF Up
      <4>2. QED
        BY <1>1, <1>5, <3>2, <3>4, <4>1 DEF AllCalm
    <3>5. QED
      BY <3>3, <3>4
  <2>5. QED
    BY <2>1, <2>2, <2>3, <2>4 DEF AllCalm
<1>16. QED
  BY <1>13, <1>15

\* NotRunning is kept by every step.
LEMMA NotRunningKept ==
  ASSUME Shape, PartyShape, PhasesInv, NEW t \in Threads, Do(t)
  PROVE  NotRunning'
<1>1. SUFFICES ASSUME ~talk'.running PROVE NotRunningShape' /\ (PicksUpFirst' \/ AllCalm')
  BY DEF NotRunning, NotRunningShape, PicksUpFirst, AllCalm
<1>2. ~talk.running
  BY <1>1, RunningIsForGood DEF PhasesInv
<1>3. t = "pbx" \/ t = "phone"
  BY DEF Threads
<1>4. QED
  BY <1>1, <1>2, <1>3, NotRunningPbx, NotRunningPhone

(* What follows a step of a call that runs: never a change of the record,  *)
(* nor a way back.                                                         *)
LEMMA StepsGoOn ==
  ASSUME Shape, NEW f, Goes(f), NEW e, CameFrom(f, e)
  PROVE  Goes(e) /\ Later(e) /\ e.do # "be" /\ e.do \in {"state", "tell", "send", "sent", "show", "others"}
<1>1. CASE e = Sent
  BY <1>1 DEF Goes, Later, Sent, IsDialled
<1>2. CASE f.do = "state" /\ \E d \in Lookers : StepOf(d, f.state, e) \/ e = OtherPhones(d, f.state, f.force)
  <2>0. f.state # "dialing"
    BY <1>2 DEF Goes
  <2>1. PICK d \in Lookers : StepOf(d, f.state, e) \/ e = OtherPhones(d, f.state, f.force)
    BY <1>2
  <2>2. CASE e \in {State(d, "ringout", FALSE), State(d, "alerting", FALSE)}
    BY <2>2 DEF Goes, Later, State, IsDialled
  <2>3. CASE \E x : e = Show(d, x)
    BY <2>3 DEF Goes, Later, Show, IsDialled
  <2>4. CASE \E x : e = Send(d, x)
    BY <2>4 DEF Goes, Later, Send, IsDialled
  <2>5. CASE e = OtherPhones(d, f.state, f.force)
    BY <2>5 DEF Goes, Later, OtherPhones, IsDialled
  <2>6. QED
    BY <2>0, <2>1, <2>2, <2>3, <2>4, <2>5 DEF StepOf
<1>3. CASE e = Tell(TRUE)
  BY <1>3 DEF Goes, Later, Tell, IsDialled
<1>4. CASE \E q : e = Send(q, FALSE)
  BY <1>4 DEF Goes, Later, Send, IsDialled
<1>5. CASE \E q : \E s \in {"ringing", "waiting", "alerting"} : e = State(q, s, FALSE)
  BY <1>5 DEF Goes, Later, State, IsDialled
<1>6. QED
  BY <1>1, <1>2, <1>3, <1>4, <1>5 DEF CameFrom

\* What follows while the call is offered.
LEMMA RingStepsGoOn ==
  ASSUME NEW f, RingStep(f), f.do # "state", NEW e, CameFrom(f, e)
  PROVE  RingStep(e)
<1>1. f.do \in {"ring", "rung", "sent"} \/ (f.do = "set" /\ f.then = <<>>)
  BY DEF RingStep
<1>2. <<Tell(TRUE)>> # <<>>
  OBVIOUS
<1>3. f.do = "ring" /\ e \in {State(f.on, "ringing", FALSE), State(f.on, "waiting", FALSE)}
  BY <1>1, <1>2 DEF CameFrom
<1>4. QED
  BY <1>3 DEF RingStep, State

\* What follows an update before the call rings: it has no phone yet.
LEMMA LineStepsGoOn ==
  ASSUME talk.type = "in", talk.dev = Nobody, NEW f, LineStep(f), NEW e, CameFrom(f, e)
  PROVE  LineStep(e)
<1>1. f.do \in {"set", "tell", "send", "sent"} \/ (f.do = "state" /\ f.on = Nobody)
  BY DEF LineStep
<1>2. f.do # "state"
  <2>1. f.do = "state" => \E d \in Lookers : d = Nobody
    BY <1>1 DEF CameFrom
  <2>2. QED
    BY <2>1, TheLookers
<1>3. e = Tell(TRUE) \/ e = Sent \/ \E q \in Lookers : e = Send(q, FALSE)
  BY <1>1, <1>2 DEF CameFrom
<1>4. QED
  BY <1>3 DEF LineStep, Tell, Send, Sent

(* A call that Asterisk runs stays where it is, or goes on from "down" for *)
(* good.                                                                   *)
LEMMA StateOfRunning ==
  ASSUME Shape, PhasesInv, talk.running, NEW t \in Threads, Do(t), Up
  PROVE  /\ talk'.st \notin {"offhook", "onhook"} /\ (talk'.st = "dialing" => talk'.type # "in")
         /\ talk'.st = "down" => talk.st = "down"
         /\ talk.st = "down" => /\ t = "pbx" /\ Next1(t).do # "be"
                                /\ talk'.st = "down" \/ Next1(t).do = "state"
                                /\ Next1(t).do = "state" /\ Next1(t).on = Nobody => talk' = talk
<1> DEFINE f == Next1(t)
<1>1. After(t) /\ TalkAfter(f)
  BY DoAfter, DoTalk
<1>2. talk.st \notin {"offhook", "onhook"} /\ (talk.st = "dialing" => talk.type # "in")
  BY DEF PhasesInv, Running
<1>3. CASE talk.st # "down"
  <2>1. Later(f)
    BY <1>1, <1>3 DEF PhasesInv, Running, After
  <2>2. CASE f.do = "be"
    <3>1. talk'["st"] = IF "st" \in DOMAIN f.fields THEN f.fields["st"] ELSE talk["st"]
      BY <1>1, <2>2 DEF TalkAfter, Fields
    <3>2. /\ "st" \notin DOMAIN f.fields \/ f.fields["st"] \notin {"down", "onhook", "offhook", "dialing"}
          /\ "type" \notin DOMAIN f.fields \/ f.fields["type"] # "in"
      BY <2>1, <2>2 DEF Later
    <3>3. talk'["type"] = IF "type" \in DOMAIN f.fields THEN f.fields["type"] ELSE talk["type"]
      BY <1>1, <2>2 DEF TalkAfter, Fields
    <3>4. QED
      BY <1>2, <1>3, <2>2, <3>1, <3>2, <3>3
  <2>3. CASE f.do = "state"
    <3>1. f.state \notin {"down", "onhook", "offhook", "dialing"}
      BY <2>1, <2>3 DEF Later
    <3>2. talk' = talk \/ talk'.st = f.state
      BY <1>1, <2>3, <3>1 DEF TalkAfter
    <3>3. QED
      BY <1>2, <1>3, <3>1, <3>2
  <2>4. CASE f.do \notin {"be", "state"}
    <3>1. (talk'.st = talk.st \/ talk'.st = "ringing") /\ talk'.type = talk.type
      BY <1>1, <2>4 DEF TalkAfter
    <3>2. QED
      BY <1>2, <1>3, <3>1
  <2>5. QED
    BY <2>2, <2>3, <2>4, <1>3
<1>4. CASE talk.st = "down"
  <2>1. /\ talk.dev = Nobody /\ todo["phone"] = <<>>
        /\ (\A e \in Pending("pbx") : RingStep(e)) \/ (\A e \in Pending("pbx") : LineStep(e))
    BY <1>4 DEF PhasesInv, Running
  <2>2. t = "pbx" /\ (RingStep(f) \/ LineStep(f))
    BY <1>1, <2>1 DEF After, Threads, Idle
  <2>3. f.do # "be" /\ (f.do = "state" => f.on = Nobody \/ f.state \in {"ringing", "waiting"})
    BY <2>2 DEF RingStep, LineStep
  <2>4. f.do # "state" => talk'.st = "down"
    BY <1>1, <1>4, <2>3 DEF TalkAfter
  <2>5. f.do = "state" /\ f.on = Nobody => talk' = talk
    BY <1>1, <2>1 DEF TalkAfter
  <2>6. f.do = "state" /\ f.on # Nobody => talk'.st \in {"ringing", "waiting"}
    BY <1>1, <2>3 DEF TalkAfter
  <2>7. QED
    BY <1>4, <2>2, <2>3, <2>4, <2>5, <2>6
<1>5. QED
  BY <1>3, <1>4

\* Running is kept while Asterisk runs the call.
LEMMA RunningGoesOn ==
  ASSUME Shape, PhasesInv, talk.running, NEW t \in Threads, Do(t)
  PROVE  Running'
<1> DEFINE f == Next1(t)
<1>1. After(t) /\ TalkAfter(f) /\ \A o \in Threads : \A e \in Pending(o) : Goes(e)
  BY DoAfter, DoTalk DEF PhasesInv, Running
<1>2. Goes(f) /\ f \in Pending(t)
  BY <1>1 DEF After
<1>3. \A e \in Pending(t)' : e \in Pending(t) \/ (CameFrom(f, e) /\ Goes(e) /\ Later(e))
  BY <1>1, <1>2, StepsGoOn DEF After
<1>4. \A o \in Threads : o # t => Pending(o)' = Pending(o)
  BY <1>1 DEF After, Pending
<1>5. ASSUME NEW o \in Threads, NEW e \in Pending(o)' PROVE Goes(e)
  BY <1>1, <1>3, <1>4, <1>5
<1>6. ASSUME Up' 
      PROVE  /\ talk'.st \notin {"offhook", "onhook"} /\ (talk'.st = "dialing" => talk'.type # "in")
             /\ talk'.st = "down" =>
                  /\ talk'.type = "in" /\ talk'.dev = Nobody /\ todo'["phone"] = <<>> /\ talk'.why = "normal"
                  /\ (\A e \in Pending("pbx")' : RingStep(e)) \/ (\A e \in Pending("pbx")' : LineStep(e))
             /\ talk'.st # "down" => \A o \in Threads : \A e \in Pending(o)' : Later(e)
  <2>1. Up
    BY <1>1, <1>6 DEF Up, TalkAfter
  <2>2. /\ talk'.st \notin {"offhook", "onhook"} /\ (talk'.st = "dialing" => talk'.type # "in")
        /\ talk'.st = "down" => talk.st = "down"
        /\ talk.st = "down" => /\ t = "pbx" /\ f.do # "be"
                               /\ talk'.st = "down" \/ f.do = "state"
                               /\ f.do = "state" /\ f.on = Nobody => talk' = talk
    BY <2>1, StateOfRunning
  <2>3. talk.st = "down" => 
           /\ talk.type = "in" /\ talk.dev = Nobody /\ todo["phone"] = <<>> /\ talk.why = "normal"
           /\ (\A e \in Pending("pbx") : RingStep(e)) \/ (\A e \in Pending("pbx") : LineStep(e))
    BY <2>1 DEF PhasesInv, Running
  <2>4. ASSUME talk.st = "down", talk'.st = "down"
        PROVE  /\ talk'.type = "in" /\ talk'.dev = Nobody /\ todo'["phone"] = <<>> /\ talk'.why = "normal"
               /\ (\A e \in Pending("pbx")' : RingStep(e)) \/ (\A e \in Pending("pbx")' : LineStep(e))
    <3>1. talk'.type = "in" /\ talk'.dev = Nobody /\ talk'.why = "normal"
      BY <1>1, <2>2, <2>3, <2>4 DEF TalkAfter
    <3>2. todo'["phone"] = <<>>
      BY <1>1, <2>2, <2>3, <2>4 DEF After, Threads
    <3>3. CASE \A e \in Pending("pbx") : LineStep(e)
      <4>1. \A e \in Pending("pbx")' : e \in Pending("pbx") \/ CameFrom(f, e)
        BY <1>3, <2>2, <2>4
      <4>2. LineStep(f)
        BY <3>3, <1>2, <2>2, <2>4
      <4>3. \A e : CameFrom(f, e) => LineStep(e)
        BY <4>2, <2>3, <2>4, LineStepsGoOn
      <4>4. QED
        BY <3>1, <3>2, <3>3, <4>1, <4>3
    <3>4. CASE (\A e \in Pending("pbx") : RingStep(e)) /\ ~(\A e \in Pending("pbx") : LineStep(e))
      <4>1. \A e \in Pending("pbx")' : e \in Pending("pbx") \/ CameFrom(f, e)
        BY <1>3, <2>2, <2>4
      <4>2. RingStep(f)
        BY <3>4, <1>2, <2>2, <2>4
      <4>3. CASE f.do # "state"
        <5>1. \A e : CameFrom(f, e) => RingStep(e)
          BY <4>2, <4>3, RingStepsGoOn
        <5>2. QED
          BY <3>1, <3>2, <3>4, <4>1, <5>1
      <4>4. CASE f.do = "state"
        <5>1. f.state \in {"ringing", "waiting"}
          BY <4>2, <4>4 DEF RingStep
        <5>2. \/ f.on = Nobody
              \/ talk'.st = f.state
          BY <1>1, <4>4, <5>1 DEF TalkAfter
        <5>3. f.on = Nobody
          BY <2>4, <5>1, <5>2
        <5>4. \A e : ~CameFrom(f, e)
          BY <2>3, <2>4, <4>4, <5>3, TheLookers DEF CameFrom
        <5>5. QED
          BY <3>1, <3>2, <3>4, <4>1, <5>4
      <4>5. QED
        BY <4>3, <4>4
    <3>5. QED
      BY <2>3, <2>4, <3>3, <3>4
  <2>5. ASSUME talk'.st # "down", NEW o \in Threads, NEW e \in Pending(o)' PROVE Later(e)
    <3>1. CASE talk.st # "down"
      <4>1. \A x \in Threads : \A y \in Pending(x) : Later(y)
        BY <2>1, <3>1 DEF PhasesInv, Running
      <4>2. QED
        BY <4>1, <1>3, <1>4, <2>5
    <3>2. CASE talk.st = "down"
      <4>1. t = "pbx" /\ f.do = "state" /\ f.on # Nobody
        BY <2>2, <2>5, <3>2
      <4>2. ~LineStep(f) /\ Pending("phone") = {}
        BY <4>1, <2>3, <3>2, NoSteps DEF LineStep, Pending
      <4>3. \A y \in Pending("pbx") : RingStep(y)
        BY <4>1, <4>2, <1>2, <2>3, <3>2
      <4>4. \A y : RingStep(y) => Later(y)
        BY DEF RingStep, Later
      <4>5. CASE o = t
        BY <4>1, <4>3, <4>4, <4>5, <1>3, <2>5
      <4>6. CASE o # t
        <5>1. o = "phone"
          BY <4>1, <4>6 DEF Threads
        <5>2. QED
          BY <4>2, <4>6, <5>1, <1>4, <2>5
      <4>7. QED
        BY <4>5, <4>6
    <3>3. QED
      BY <3>1, <3>2
  <2>6. QED
    BY <2>2, <2>4, <2>5
<1>7. QED
  BY <1>5, <1>6 DEF Running

(* Running holds when it begins to: the call was dialled, or another was   *)
(* picked up.                                                              *)
LEMMA RunningBegins ==
  ASSUME Shape, PhasesInv, ~talk.running, NEW t \in Threads, Do(t), talk'.running
  PROVE  Running'
<1> DEFINE f == Next1(t)
           run == Be([running |-> TRUE])
<1>1. After(t) /\ TalkAfter(f) /\ ~Idle(t)
  BY DoAfter, DoTalk DEF After
<1>2. NotRunningShape /\ (PicksUpFirst \/ AllCalm)
  BY NotRunningParts DEF PhasesInv
<1>3. f.do = "be"
  BY <1>1 DEF TalkAfter
<1>4. t = "phone"
  <2>1. t = "pbx" => ~Up /\ EndStep(f)
    BY <1>1, <1>2 DEF NotRunningShape, Idle, After, PhasesInv, Hung
  <2>2. QED
    BY <1>3, <2>1 DEF EndStep, Threads
<1>5. f = Head(todo["phone"]) /\ f \in Pending("phone") /\ Rest("phone") \subseteq Pending("phone")
  BY <1>1, <1>4 DEF Next1, After
<1>6. f = PicksUp \/ (f = run /\ AllCalm)
  <2>1. AllCalm => f = run
    BY <1>3, <1>5 DEF AllCalm, Calm
  <2>2. PicksUpFirst => f = PicksUp
    BY <1>5 DEF PicksUpFirst, BeginsWith
  <2>3. QED
    BY <1>2, <2>1, <2>2
<1>7. \A e \in Rest("phone") : ~HeadOnly(e) /\ Later(e)
  <2>1. \A e \in Rest("phone") : ~HeadOnly(e)
    BY DEF PhasesInv, HeadsFirst, Threads
  <2>2. CASE PicksUpFirst
    BY <2>1, <2>2 DEF PicksUpFirst
  <2>3. CASE AllCalm
    <3>1. \A e : Calm(e) /\ ~HeadOnly(e) => Later(e)
      <4>1. ASSUME NEW e, Calm(e), ~HeadOnly(e) PROVE Later(e)
        <5>1. CASE e.do \in {"show", "send", "sent", "others", "set"}
          BY <5>1 DEF Later
        <5>2. CASE e.do = "state"
          BY <4>1, <5>2 DEF Calm, HeadOnly, Be
        <5>3. CASE e = run
          BY <5>3 DEF Later, Be
        <5>4. QED
          BY <4>1, <5>1, <5>2, <5>3 DEF Calm
      <4>2. QED
        BY <4>1
    <3>2. QED
      BY <2>1, <2>3, <3>1, <1>5 DEF AllCalm
  <2>4. QED
    BY <1>2, <2>2, <2>3
<1>8. \A e \in Pending("phone")' : ~HeadOnly(e) /\ Later(e)
  <2>1. \A e : ~CameFrom(f, e)
    BY <1>3 DEF CameFrom
  <2>2. QED
    BY <1>1, <1>4, <1>7, <2>1 DEF After
<1>9. Pending("pbx")' = Pending("pbx") /\ todo'["pbx"] = todo["pbx"]
  BY <1>1, <1>4 DEF After, Pending, Threads
<1>10. \A e : Later(e) /\ ~HeadOnly(e) => Goes(e)
  BY DEF Later, HeadOnly, Goes
<1>11. \A e \in Pending("pbx") : Goes(e)
  <2>1. CASE Up
    BY <1>2, <2>1, NoSteps DEF NotRunningShape, Pending
  <2>2. CASE ~Up
    <3>1. \A e \in Pending("pbx") : EndStep(e) /\ ~HeadOnly(e)
      BY <2>2 DEF PhasesInv, Hung, HeadsFirst
    <3>2. \A e : EndStep(e) /\ ~HeadOnly(e) => Goes(e)
      BY DEF EndStep, HeadOnly, Goes
    <3>3. QED
      BY <3>1, <3>2
  <2>3. QED
    BY <2>1, <2>2
<1>12. \A o \in Threads : \A e \in Pending(o)' : Goes(e)
  BY <1>8, <1>9, <1>10, <1>11 DEF Threads
<1>13. Up' => /\ talk'.st \in {"ringing", "dialing"} /\ Pending("pbx")' = {}
              /\ talk'.st = "dialing" => talk'.type # "in"
  <2>0. ASSUME Up'
        PROVE  /\ talk'.st \in {"ringing", "dialing"} /\ Pending("pbx")' = {}
               /\ talk'.st = "dialing" => talk'.type # "in"
    <3>1. Up /\ talk.st \in {"down", "offhook", "dialing"} /\ todo["pbx"] = <<>>
      BY <1>1, <1>2, <2>0 DEF Up, TalkAfter, NotRunningShape
    <3>2. talk'["st"] = IF "st" \in DOMAIN f.fields THEN f.fields["st"] ELSE talk["st"]
      BY <1>1, <1>3 DEF TalkAfter, Fields
    <3>3. CASE f = PicksUp
      BY <3>2, <3>3, <3>1, <1>9, NoSteps DEF PicksUp, Be, Pending
    <3>4. CASE f = run /\ AllCalm
      <4>1. talk'.st = talk.st
        BY <3>2, <3>4 DEF Be
      <4>2. talk.st # "down"
        BY <3>1, <3>4, <1>3, <1>5 DEF AllCalm
      <4>3. talk.st # "offhook"
        BY <3>1, <3>4, <1>3, <1>5 DEF AllCalm
      <4>4. talk'["type"] = talk["type"] /\ talk.type # "in"
        BY <1>1, <1>2, <1>3, <3>4 DEF TalkAfter, Fields, Be, NotRunningShape
      <4>5. QED
        BY <4>1, <4>2, <4>3, <4>4, <3>1, <1>9, NoSteps DEF Pending
    <3>5. QED
      BY <1>6, <3>3, <3>4
  <2>1. QED
    BY <2>0
<1>14. QED
  BY <1>8, <1>12, <1>13 DEF Running, Threads

LEMMA RunningKept ==
  ASSUME Shape, PhasesInv, NEW t \in Threads, Do(t)
  PROVE  Running'
<1>1. CASE talk.running
  BY <1>1, RunningGoesOn
<1>2. CASE ~talk.running /\ talk'.running
  BY <1>2, RunningBegins
<1>3. CASE ~talk'.running
  BY <1>3 DEF Running
<1>4. QED
  BY <1>1, <1>2, <1>3

\* No phone shows a call before it is rung on one.
LEMMA DarkAtFirstKept ==
  ASSUME Shape, PhasesInv, NEW t \in Threads, Do(t)
  PROVE  DarkAtFirst'
<1> DEFINE f == Next1(t)
<1>1. After(t) /\ TalkAfter(f) /\ ToldAfter(f) /\ ~Idle(t)
  BY DoAfter, DoTalk DEF After
<1>2. SUFFICES ASSUME Up', talk'.st = "down", NEW q \in Lookers PROVE told'[q].state = "none"
  BY DEF DarkAtFirst
<1>3. Up
  BY <1>1, <1>2 DEF Up, TalkAfter
<1>4. talk.st = "down" /\ f.do \notin {"show", "others", "off"}
  <2>1. CASE talk.running
    <3>1. talk.st = "down" /\ t = "pbx"
      BY <1>2, <1>3, <2>1, StateOfRunning
    <3>2. RingStep(f) \/ LineStep(f)
      BY <1>1, <1>3, <2>1, <3>1 DEF PhasesInv, Running, After
    <3>3. QED
      BY <3>1, <3>2 DEF RingStep, LineStep
  <2>2. CASE ~talk.running
    <3>1. NotRunningShape /\ (PicksUpFirst \/ AllCalm)
      BY <2>2, NotRunningParts DEF PhasesInv
    <3>2. t = "phone" /\ talk.dev # Nobody
      BY <1>1, <1>3, <3>1 DEF NotRunningShape, Idle, Threads
    <3>3. f = Head(todo["phone"]) /\ f \in Pending("phone")
      BY <1>1, <3>2 DEF Next1, After
    <3>4. f # PicksUp
      <4>1. SUFFICES ASSUME f = PicksUp PROVE FALSE
        OBVIOUS
      <4>2. f.do = "be" /\ f.fields = [type |-> "in", st |-> "ringing", dev |-> Nobody, running |-> TRUE]
        BY <4>1 DEF PicksUp, Be
      <4>3. talk'["st"] = f.fields["st"]
        BY <1>1, <4>2 DEF TalkAfter, Fields
      <4>4. QED
        BY <1>2, <4>2, <4>3
    <3>5. AllCalm /\ Calm(f)
      BY <3>1, <3>3, <3>4 DEF PicksUpFirst, BeginsWith, AllCalm
    <3>6. f.do # "state"
      <4>1. f.do = "state" => f.state \in {"offhook", "dialing"}
        BY <3>5 DEF Calm, Be
      <4>2. f.do = "state" => talk'.st = f.state
        BY <1>1, <3>2, <4>1 DEF TalkAfter
      <4>3. QED
        BY <1>2, <4>1, <4>2
    <3>7. talk.st = "down"
      <4>1. CASE f.do = "be"
        <5>1. f.fields = [running |-> TRUE]
          BY <3>5, <4>1 DEF Calm, Be
        <5>2. talk'["st"] = talk["st"]
          BY <1>1, <4>1, <5>1 DEF TalkAfter, Fields
        <5>3. QED
          BY <1>2, <5>2
      <4>2. CASE f.do # "be"
        <5>1. f.do # "rung"
          BY <3>5 DEF Calm, Be
        <5>2. QED
          BY <1>1, <1>2, <3>6, <4>2, <5>1 DEF TalkAfter
      <4>3. QED
        BY <4>1, <4>2
    <3>8. f.do \notin {"show", "others"}
      BY <1>3, <3>3, <3>5, <3>7 DEF AllCalm
    <3>9. f.do # "off"
      BY <3>5 DEF Calm, Be
    <3>10. QED
      BY <3>7, <3>8, <3>9
  <2>3. QED
    BY <2>1, <2>2
<1>5. told[q].state = "none"
  BY <1>2, <1>3, <1>4 DEF PhasesInv, DarkAtFirst
<1>6. QED
  BY <1>1, <1>2, <1>4, <1>5 DEF ToldAfter

LEMMA PairJoined ==
  ASSUME NEW x, NEW y
  PROVE  <<x>> \o <<y>> = <<x, y>>
<1> DEFINE S == {x, y}
<1>1. <<x>> \in Seq(S) /\ <<y>> \in Seq(S) /\ <<x, y>> \in Seq(S)
  OBVIOUS
<1>2. Len(<<x>>) = 1 /\ Len(<<y>>) = 1 /\ Len(<<x, y>>) = 2 /\ <<x, y>>[1] = x /\ <<x, y>>[2] = y
      /\ <<x>>[1] = x /\ <<y>>[1] = y
  OBVIOUS
<1> HIDE DEF S
<1>3. /\ <<x>> \o <<y>> \in Seq(S) /\ Len(<<x>> \o <<y>>) = 1 + 1
      /\ \A i \in 1..1 + 1 : (<<x>> \o <<y>>)[i] = IF i <= 1 THEN <<x>>[i] ELSE <<y>>[i - 1]
  BY <1>1, <1>2, ConcatProperties
<1> DEFINE a == <<x>> \o <<y>>
           b == <<x, y>>
<1>4. /\ a \in Seq(S) /\ b \in Seq(S) /\ Len(a) = 2 /\ Len(b) = 2
      /\ a[1] = x /\ a[2] = y /\ b[1] = x /\ b[2] = y
  BY <1>1, <1>2, <1>3
<1> HIDE DEF a, b
<1>5. Len(a) = Len(b) /\ \A i \in 1..Len(a) : a[i] = b[i]
  BY ONLY <1>4
<1>6. a = b
  BY ONLY <1>4, <1>5, SeqEqual
<1>7. QED
  BY <1>6 DEF a, b

\* What a phone is sent when the call is taken off it.
LEMMA OnhookSteps ==
  ASSUME NEW d, NEW was
  PROVE  \E s \in {<<>>, <<Send(d, TRUE)>>} : StateSteps(d, "onhook", was) = s \o <<Show(d, "none")>>
<1> DEFINE s == If(talk.elsewhere, <<Send(d, TRUE)>>)
           b == <<Show(d, "none")>>
<1>1. s \in {<<>>, <<Send(d, TRUE)>>} /\ IsSteps(s) /\ IsSteps(b) /\ IsSteps(<<>>)
  BY SingleSteps, NoSteps DEF If
<1>2. /\ SettingUpSteps(d, "onhook", was) = <<>> /\ TalkingSteps(d, "onhook", was) = <<>>
      /\ HeldSteps(d, "onhook") = <<>> /\ EndingSteps(d, "onhook") = s \o b
  BY DEF SettingUpSteps, TalkingSteps, HeldSteps, EndingSteps, Onhook
<1> HIDE DEF s, b
<1>3. IsSteps(s \o b)
  BY <1>1, JoinedSteps
<1>4. <<>> \o <<>> = <<>> /\ <<>> \o (s \o b) = s \o b
  BY <1>1, <1>3, Joining
<1>5. StateSteps(d, "onhook", was) = s \o b
  BY <1>2, <1>4 DEF StateSteps
<1>6. QED
  BY <1>1, <1>5 DEF b

(* The phone's handlers are done when the call ends, and Asterisk's takes  *)
(* it off every phone: first the one it was on, then, looking at all, the  *)
(* others.                                                                 *)
LEMMA EndedKept ==
  ASSUME Shape, PhasesInv, NEW t \in Threads, Do(t)
  PROVE  Ended'
<1> DEFINE f == Next1(t)
<1>1. After(t) /\ TalkAfter(f) /\ ToldAfter(f) /\ InfoAfter(f) /\ ~Idle(t)
  BY DoAfter, DoTalk DEF After
<1>2. SUFFICES ASSUME ~Up', ~ghost'.crossed PROVE todo'["phone"] = <<>> /\ LeavesPhone'
  BY DEF Ended
<1>3. todo["phone"] = <<>> /\ LeavesPhone
  BY <1>1, <1>2 DEF TalkAfter, InfoAfter, PhasesInv, Ended, Up
<1>4. t = "pbx" /\ todo["pbx"] # <<>> /\ todo'["phone"] = <<>>
  BY <1>1, <1>3 DEF Idle, Threads, After
<1>5. PICK d \in Lookers :
       /\ ~talk.conference
       /\ \/ todo["pbx"] = <<State(d, "onhook", FALSE)>> /\ talk.st # "down"
          \/ Leaving(d)
          \/ /\ todo["pbx"] = <<OtherPhones(d, "onhook", FALSE)>> /\ told[d].state = "none"
             /\ talk.st = "down" /\ talk.prev # "down"
  BY <1>3, <1>4 DEF LeavesPhone
<1> DEFINE o == OtherPhones(d, "onhook", FALSE)
           sh == Show(d, "none")
<1>6. f = Head(todo["pbx"]) /\ TodoShape /\ d # Nobody
  BY <1>4, TheLookers DEF Next1, Shape
<1>7. CASE todo["pbx"] = <<State(d, "onhook", FALSE)>> /\ talk.st # "down"
  <2>1. f = State(d, "onhook", FALSE) /\ Tail(todo["pbx"]) = <<>>
    BY <1>6, <1>7
  <2>2. f.do = "state" /\ f.on = d /\ f.state = "onhook" /\ f.force = FALSE
    BY <2>1 DEF State
  <2>3. DoState("pbx")
    BY <1>4, <2>2 DEF Do, DoRing, DoRung, DoOff, DoSet, DoBe, DoLock, DoState, DoShow, DoSend, DoSent, DoTell, DoOthers, Does
  <2>4. Then("pbx", Append(StateSteps(d, "onhook", talk.st), o))
    BY <1>4, <1>6, <2>2, <2>3 DEF DoState
  <2>5. PICK s \in {<<>>, <<Send(d, TRUE)>>} : StateSteps(d, "onhook", talk.st) = s \o <<sh>>
    BY OnhookSteps
  <2> HIDE DEF f, o, sh
  <2>6. todo'["pbx"] = Append(s \o <<sh>>, o) \o <<>>
    BY <1>6, <2>1, <2>4, <2>5 DEF Then, TodoShape, Threads
  <2>7. Append(s \o <<sh>>, o) \o <<>> = s \o <<sh, o>>
    <3> DEFINE S == Range(s) \cup {sh, o}
    <3>1. IsSteps(s)
      BY SingleSteps, NoSteps
    <3>2. s \in Seq(S) /\ <<sh>> \in Seq(S) /\ <<o>> \in Seq(S) /\ o \in S
      BY <3>1, SeqMonotonic DEF IsSteps
    <3> HIDE DEF S
    <3>3. s \o <<sh>> \in Seq(S)
      BY <3>2, ConcatProperties
    <3>4. Append(s \o <<sh>>, o) \in Seq(S) /\ Append(s \o <<sh>>, o) = (s \o <<sh>>) \o <<o>>
      BY <3>2, <3>3, AppendIsConcat, AppendProperties
    <3>5. Append(s \o <<sh>>, o) \o <<>> = Append(s \o <<sh>>, o)
      BY <3>4, ConcatEmptySeq
    <3>6. (s \o <<sh>>) \o <<o>> = s \o (<<sh>> \o <<o>>)
      BY <3>2, ConcatAssociative
    <3>7. <<sh>> \o <<o>> = <<sh, o>>
      BY PairJoined
    <3>8. QED
      BY <3>4, <3>5, <3>6, <3>7
  <2>8. talk'.st = "down" /\ talk'.prev = talk.st /\ talk'.conference = talk.conference
    BY <1>1, <1>6, <2>2 DEF TalkAfter
  <2>9. todo'["pbx"] = s \o <<sh, o>> /\ s \in {<<>>, <<Sent>>, <<Send(d, TRUE)>>}
    BY <2>6, <2>7
  <2>10. Leaving(d)'
    BY <1>7, <2>8, <2>9 DEF Leaving, sh, o
  <2>11. QED
    BY <1>4, <1>5, <2>8, <2>10 DEF LeavesPhone
<1>8. CASE Leaving(d)
  <2>1. PICK s \in {<<>>, <<Sent>>, <<Send(d, TRUE)>>} : todo["pbx"] = s \o <<sh, o>>
    BY <1>8 DEF Leaving
  <2>2. talk.st = "down" /\ talk.prev # "down"
    BY <1>8 DEF Leaving
  <2> HIDE DEF f
  <2>3. CASE s = <<>>
    <3>1. todo["pbx"] = <<sh, o>>
      <4>1. IsSteps(<<sh, o>>)
        BY TwoSteps
      <4>2. <<>> \o <<sh, o>> = <<sh, o>>
        <5> HIDE DEF sh, o
        <5> QED BY <4>1, NoSteps, Joining
      <4>3. QED
        BY <2>1, <2>3, <4>2
    <3>2. f = sh /\ Tail(todo["pbx"]) = <<o>>
      <4>1. Head(<<sh, o>>) = sh /\ Tail(<<sh, o>>) = <<o>>
        <5> HIDE DEF sh, o
        <5> QED OBVIOUS
      <4>2. QED
        BY <1>6, <3>1, <4>1
    <3>3. f.do = "show" /\ f.on = d /\ f.state = "none"
      BY <3>2 DEF Show
    <3>4. DoShow("pbx")
      BY <1>4, <3>3 DEF Do, DoRing, DoRung, DoOff, DoSet, DoBe, DoLock, DoState, DoShow, DoSend, DoSent, DoTell, DoOthers, Does, f
    <3>5. told' = [told EXCEPT ![d] = Dark] /\ talk' = talk /\ Then("pbx", <<>>)
      BY <1>4, <3>3, <3>4 DEF DoShow, f
    <3>6. todo'["pbx"] = <<o>>
      BY <1>4, <1>6, <3>2, <3>5, StepGone DEF Idle, Threads
    <3>7. told'[d].state = "none"
      BY <3>5 DEF Shape, ScreensShape, Dark
    <3>8. QED
      BY <1>4, <1>5, <2>2, <3>5, <3>6, <3>7 DEF LeavesPhone
  <2>4. CASE s = <<Sent>>
    <3>1. f = Sent /\ Tail(todo["pbx"]) = <<sh, o>>
      <4>1. IsSteps(<<sh, o>>)
        BY TwoSteps
      <4>2. Head(<<Sent>> \o <<sh, o>>) = Sent /\ Tail(<<Sent>> \o <<sh, o>>) = <<sh, o>>
        <5> HIDE DEF sh, o
        <5> QED BY <4>1, FirstJoined
      <4>3. QED
        BY <1>6, <2>1, <2>4, <4>2
    <3>2. f.do = "sent"
      BY <3>1 DEF Sent
    <3>3. DoSent("pbx")
      BY <1>4, <3>2 DEF Do, DoRing, DoRung, DoOff, DoSet, DoBe, DoLock, DoState, DoShow, DoSend, DoSent, DoTell, DoOthers, Does, f
    <3>4. told' = told /\ talk' = talk /\ Then("pbx", <<>>)
      BY <3>3 DEF DoSent
    <3>5. todo'["pbx"] = <<sh, o>>
      BY <1>4, <1>6, <3>1, <3>4, StepGone DEF Idle, Threads
    <3>6. <<>> \o <<sh, o>> = <<sh, o>>
      <4>1. IsSteps(<<sh, o>>)
        BY TwoSteps
      <4>2. QED
        <5> HIDE DEF sh, o
        <5> QED BY <4>1, NoSteps, Joining
    <3>7. todo'["pbx"] = <<>> \o <<sh, o>> /\ <<>> \in {<<>>, <<Sent>>, <<Send(d, TRUE)>>}
      BY <3>5, <3>6
    <3>8. Leaving(d)'
      BY <2>2, <3>4, <3>7 DEF Leaving
    <3>9. QED
      BY <1>4, <1>5, <3>4, <3>8 DEF LeavesPhone
  <2>5. CASE s = <<Send(d, TRUE)>>
    <3> DEFINE x == Send(d, TRUE)
    <3>1. f = x /\ Tail(todo["pbx"]) = <<sh, o>> /\ IsSteps(<<sh, o>>)
      <4>1. IsSteps(<<sh, o>>)
        BY TwoSteps
      <4>2. Head(<<x>> \o <<sh, o>>) = x /\ Tail(<<x>> \o <<sh, o>>) = <<sh, o>>
        <5> HIDE DEF sh, o, x
        <5> QED BY <4>1, FirstJoined
      <4>3. QED
        BY <1>6, <2>1, <2>5, <4>1, <4>2
    <3>2. f.do = "send" /\ f.force
      BY <3>1 DEF Send
    <3>3. DoSend("pbx")
      BY <1>4, <3>2 DEF Do, DoRing, DoRung, DoOff, DoSet, DoBe, DoLock, DoState, DoShow, DoSend, DoSent, DoTell, DoOthers, Does, f
    <3>4. talk' = talk /\ Then("pbx", <<Sent>>)
      <4>1. Next1("pbx").force
        BY <1>4, <3>2 DEF f
      <4>2. QED
        BY <4>1, <3>3 DEF DoSend
    <3>5. todo'["pbx"] = <<Sent>> \o <<sh, o>>
      BY <1>6, <3>1, <3>4 DEF Then, TodoShape, Threads
    <3>6. Leaving(d)'
      BY <2>2, <3>4, <3>5 DEF Leaving
    <3>7. QED
      BY <1>4, <1>5, <3>4, <3>6 DEF LeavesPhone
  <2>6. QED
    BY <2>3, <2>4, <2>5
<1>9. CASE /\ todo["pbx"] = <<o>> /\ told[d].state = "none"
           /\ talk.st = "down" /\ talk.prev # "down"
  <2>1. f = o /\ Tail(todo["pbx"]) = <<>>
    BY <1>6, <1>9
  <2>2. f.do = "others" /\ f.on = d /\ f.state = "onhook"
    BY <2>1 DEF OtherPhones
  <2>3. DoOthers("pbx")
    BY <1>4, <2>2 DEF Do, DoRing, DoRung, DoOff, DoSet, DoBe, DoLock, DoState, DoShow, DoSend, DoSent, DoTell, DoOthers, Does
  <2>4. Then("pbx", <<>>)
    BY <2>3 DEF DoOthers
  <2>5. todo'["pbx"] = <<>>
    BY <1>4, <1>6, <2>1, <2>4, StepGone DEF Idle, Threads
  <2>6. CASE Len(Screens) > 1
    <3>1. told' = [q \in Lookers |-> IF q = d THEN told[q] ELSE Remote(q, "onhook")]
      BY <1>4, <1>5, <1>9, <2>2, <2>3, <2>6 DEF DoOthers, Shared
    <3>2. \A q \in Lookers : Remote(q, "onhook") = Dark
      BY DEF Remote, RemoteState
    <3>3. \A q \in Lookers : told'[q].state = "none"
      BY <1>9, <3>1, <3>2 DEF Dark
    <3>4. QED
      BY <1>4, <2>5, <3>3 DEF LeavesPhone
  <2>7. CASE ~(Len(Screens) > 1)
    <3>1. told' = told
      BY <2>3, <2>7 DEF DoOthers
    <3>2. \A q \in Lookers : q = d
      <4>1. DOMAIN Screens = {1}
        BY <2>7, TheLookers
      <4>2. QED
        BY <4>1 DEF Lookers
    <3>3. \A q \in Lookers : told'[q].state = "none"
      BY <1>9, <3>1, <3>2
    <3>4. QED
      BY <1>4, <2>5, <3>3 DEF LeavesPhone
  <2>8. QED
    BY <2>6, <2>7
<1>10. QED
  BY <1>5, <1>7, <1>8, <1>9

-----------------------------------------------------------------------------
(* The parties *)

\* A whole party written over another makes one person.
LEMMA MixedParties ==
  ASSUME NEW old, NEW new
  PROVE  /\ old.name # Null /\ old.number # Null => Mixed(old, new).name # Null /\ Mixed(old, new).number # Null
         /\ Whole(new) => OnePerson(Mixed(old, new))
<1>1. /\ Mixed(old, new).name = (IF new.name = Null THEN old.name ELSE new.name)
      /\ Mixed(old, new).number = (IF new.number = Null THEN old.number ELSE new.number)
  BY DEF Mixed, Merge
<1>2. Whole(new) => Mixed(old, new).name = new.name /\ Mixed(old, new).number = new.number
  BY <1>1 DEF Whole
<1>3. QED
  BY <1>1, <1>2 DEF Whole, OnePerson

\* The parties stay whole under every step.
LEMMA PersonKept ==
  ASSUME Shape, PartyShape, PhasesInv, Person, NEW t \in Threads, Do(t)
  PROVE  Person'
<1> DEFINE f == Next1(t)
<1>1. After(t) /\ InfoAfter(f) /\ f \in Pending(t)
  BY DoAfter, DoTalk DEF After
<1>2. /\ \A g \in {"calling", "called"} : info.party[g].name # Null /\ info.party[g].number # Null
      /\ ~ghost.partial => \A g \in {"calling", "called"} : OnePerson(info.party[g])
  BY DEF Person, Stored, PeerIsOnePerson
<1>3. ghost'.partial = ghost.partial
  BY <1>1 DEF InfoAfter
<1>4. \A g \in {"calling", "called"} :
        \/ info'.party[g] = info.party[g]
        \/ /\ f.do = "set" /\ g \in DOMAIN f.with.parties
           /\ info'.party[g] = Mixed(info.party[g], f.with.parties[g])
  <2>1. CASE f.do # "set"
    BY <1>1, <2>1 DEF InfoAfter
  <2>2. CASE f.do = "set"
    <3> DEFINE u == f.with
    <3>1. info' = Setter(info, u) \/ info'.party = info.party
      BY <1>1 DEF InfoAfter
    <3>2. DOMAIN info = InfoFields /\ DOMAIN info.party = Groups
      BY DEF Shape, InfoShape, PartyShape, InfoFields
    <3> HIDE DEF u, f
    <3>3. \A g \in Groups : Setter(info, u).party[g] =
              IF g \in DOMAIN u.parties THEN Mixed(info.party[g], u.parties[g]) ELSE info.party[g]
      BY ONLY <3>2, SetterWrites
    <3>4. "calling" \in Groups /\ "called" \in Groups
      BY DEF Groups
    <3>5. \A g \in {"calling", "called"} :
             \/ Setter(info, u).party[g] = info.party[g]
             \/ g \in DOMAIN u.parties /\ Setter(info, u).party[g] = Mixed(info.party[g], u.parties[g])
      BY ONLY <3>3, <3>4
    <3>6. \A g \in {"calling", "called"} :
             \/ info'.party[g] = info.party[g]
             \/ g \in DOMAIN u.parties /\ info'.party[g] = Mixed(info.party[g], u.parties[g])
      BY ONLY <3>1, <3>5
    <3>7. QED
      BY <2>2, <3>6 DEF u
  <2>3. QED
    BY <2>1, <2>2
<1> HIDE DEF f
<1>5. Stored'
  <2>1. \A g \in {"calling", "called"} : info'.party[g].name # Null /\ info'.party[g].number # Null
    BY <1>2, <1>4, MixedParties
  <2>2. QED
    BY <2>1 DEF Stored
<1>6. Sets'
  <2>1. \A e : CameFrom(f, e) => e.do # "set" \/ IsDialled(e)
    BY DEF CameFrom, StepOf, IsDialled, Set, SetThen, State, Show, Send, Sent, Tell, OtherPhones
  <2>2. \A o \in Threads : \A e \in Pending(o)' : e \in Pending(o) \/ e.do # "set" \/ IsDialled(e)
    <3>1. SUFFICES ASSUME NEW o \in Threads, NEW e \in Pending(o)' PROVE e \in Pending(o) \/ e.do # "set" \/ IsDialled(e)
      OBVIOUS
    <3>2. CASE o = t
      BY <1>1, <2>1, <3>1, <3>2 DEF After, f
    <3>3. CASE o # t
      <4>1. Pending(o)' = Pending(o)
        BY <1>1, <3>3 DEF After, Pending
      <4>2. QED
        BY <3>1, <4>1
    <3>4. QED
      BY <3>2, <3>3
  <2>3. Sets
    BY DEF Person
  <2>4. QED
    BY <1>3, <2>2, <2>3 DEF Sets
<1>7. PeerIsOnePerson'
  <2>1. SUFFICES ASSUME ~ghost.partial, NEW g \in {"calling", "called"} PROVE OnePerson(info'.party[g])
    BY <1>3 DEF PeerIsOnePerson, OnePerson
  <2>2. CASE info'.party[g] = info.party[g]
    BY <1>2, <2>1, <2>2 DEF OnePerson
  <2>3. CASE /\ f.do = "set" /\ g \in DOMAIN f.with.parties /\ ~IsDialled(f)
             /\ info'.party[g] = Mixed(info.party[g], f.with.parties[g])
    <3>1. Whole(f.with.parties[g])
      BY <1>1, <2>1, <2>3 DEF Person, Sets
    <3>2. OnePerson(Mixed(info.party[g], f.with.parties[g]))
      BY <3>1, MixedParties
    <3>3. QED
      BY ONLY <2>3, <3>2 DEF OnePerson
  <2>4. CASE /\ g \in DOMAIN f.with.parties /\ IsDialled(f)
             /\ info'.party[g] = Mixed(info.party[g], f.with.parties[g])
    <3>1. ~talk.running
      BY <1>1, <2>4 DEF PhasesInv, Running, Goes
    <3>2. info.party["called"].name = Blank
      BY <3>1 DEF PhasesInv, NotRunning
    <3>3. g = "called" /\ f.with.parties[g].name = Null
      BY <2>4 DEF IsDialled, Update, Because, DialledNumber
    <3>4. Mixed(info.party[g], f.with.parties[g]).name = Blank
      BY <3>2, <3>3 DEF Mixed, Merge
    <3>5. QED
      BY ONLY <2>4, <3>4 DEF OnePerson
  <2>5. QED
    BY <1>4, <2>2, <2>3, <2>4
<1>8. QED
  BY <1>5, <1>6, <1>7 DEF Person

\* Every step keeps the invariant.
LEMMA DoKeeps ==
  ASSUME CallInv, NEW t \in Threads, Do(t)
  PROVE  CallInv'
<1>1. Shape /\ PartyShape /\ PhasesInv /\ Person /\ HeadsFirst /\ Hung
  BY DEF CallInv, PhasesInv
<1>2. Shape' /\ PartyShape' /\ HeadsFirst'
  BY <1>1, ShapeKept
<1>3. NotRunning' /\ Running' /\ DarkAtFirst' /\ Hung' /\ Ended'
  BY <1>1, NotRunningKept, RunningKept, DarkAtFirstKept, HungKept, EndedKept
<1>4. Person'
  BY <1>1, PersonKept
<1>5. QED
  BY <1>2, <1>3, <1>4 DEF CallInv, PhasesInv

-----------------------------------------------------------------------------
(* Handlers begin *)

\* A step that a handler of a running call may have.
Fit(e) == WellFormed(e) /\ ~HeadOnly(e) /\ Goes(e) /\ (talk.st # "down" => Later(e))

\* An update that writes whole parties.
WholeSet(e) ==
  e.do = "set" => \A g \in {"calling", "called"} \cap DOMAIN e.with.parties : Whole(e.with.parties[g])

\* Updates, states, changes of the call and the other steps that are fit.
LEMMA FitSet ==
  ASSUME NEW u, NEW then \in {<<>>, <<Tell(TRUE)>>}, u # Update(DialledNumber)
  PROVE  Fit(SetThen(u, then))
BY DEF Fit, WellFormed, HeadOnly, IsDialled, Goes, Later, SetThen, PicksUp, Be

LEMMA FitState ==
  ASSUME NEW d \in Lookers \cup {Nobody}, NEW s, NEW force, s \notin {"offhook", "dialing", "onhook"},
         s = "down" => talk.st = "down"
  PROVE  Fit(State(d, s, force)) /\ WholeSet(State(d, s, force))
BY DEF Fit, WholeSet, WellFormed, HeadOnly, IsDialled, Goes, Later, State, PicksUp, Be

LEMMA FitBe ==
  ASSUME NEW fields, "stage" \notin DOMAIN fields, "running" \notin DOMAIN fields,
         "dev" \in DOMAIN fields => fields.dev \in Lookers \cup {Nobody},
         "st" \in DOMAIN fields => fields.st \in {"ringout", "hold"},
         "type" \in DOMAIN fields => fields.type # "in"
  PROVE  Fit(Be(fields)) /\ WholeSet(Be(fields))
<1> DEFINE e == Be(fields)
<1>1. e.do = "be" /\ e.fields = fields
  BY DEF Be
<1>2. "running" \in DOMAIN PicksUp.fields
  BY DEF PicksUp, Be
<1> HIDE DEF e
<1>3. e # PicksUp
  BY <1>1, <1>2
<1>4. Fit(e) /\ WholeSet(e)
  BY <1>1, <1>3 DEF Fit, WholeSet, WellFormed, HeadOnly, IsDialled, Goes, Later
<1>5. QED
  BY <1>4 DEF e

LEMMA FitOthers ==
  ASSUME NEW d \in Lookers, NEW x, NEW b
  PROVE  /\ Fit(Show(d, x)) /\ WholeSet(Show(d, x)) /\ Fit(OffExcept(d)) /\ WholeSet(OffExcept(d))
         /\ Fit(RingOn(d)) /\ WholeSet(RingOn(d)) /\ Fit(Rung) /\ WholeSet(Rung)
         /\ Fit(Tell(b)) /\ WholeSet(Tell(b))
<1>1. Fit(Show(d, x)) /\ WholeSet(Show(d, x))
  BY DEF Fit, WholeSet, WellFormed, HeadOnly, IsDialled, Goes, Later, PicksUp, Be, Show
<1>2. Fit(OffExcept(d)) /\ WholeSet(OffExcept(d))
  BY DEF Fit, WholeSet, WellFormed, HeadOnly, IsDialled, Goes, Later, PicksUp, Be, OffExcept
<1>3. Fit(RingOn(d)) /\ WholeSet(RingOn(d))
  BY DEF Fit, WholeSet, WellFormed, HeadOnly, IsDialled, Goes, Later, PicksUp, Be, RingOn
<1>4. Fit(Rung) /\ WholeSet(Rung)
  BY DEF Fit, WholeSet, WellFormed, HeadOnly, IsDialled, Goes, Later, PicksUp, Be, Rung
<1>5. Fit(Tell(b)) /\ WholeSet(Tell(b))
  BY DEF Fit, WholeSet, WellFormed, HeadOnly, IsDialled, Goes, Later, PicksUp, Be, Tell
<1>6. QED
  BY <1>1, <1>2, <1>3, <1>4, <1>5
HandlerFits(t, S) ==
  /\ Begun(t, S) /\ talk.running
  /\ talk' = talk \/ talk' = [talk EXCEPT !.locked = TRUE]
  /\ DOMAIN ghost' = DOMAIN ghost /\ (ghost.partial => ghost'.partial)
  /\ \A e \in S : Fit(e) /\ (~ghost'.partial => WholeSet(e))
  /\ talk.st = "down" => t = "pbx" /\ ((\A e \in S : RingStep(e)) \/ (\A e \in S : LineStep(e)))

\* The shapes when a handler begins.
LEMMA BegunShape ==
  ASSUME Shape, PartyShape, HeadsFirst, NEW t \in Threads, NEW S, Begun(t, S), \A e \in S : WellFormed(e),
         DOMAIN talk' = DOMAIN talk, talk'.dev = talk.dev, DOMAIN ghost' = DOMAIN ghost
  PROVE  /\ Shape' /\ PartyShape' /\ Pending(t)' = S
         /\ \A o \in Threads : o # t => todo'[o] = todo[o] /\ Pending(o)' = Pending(o) /\ Rest(o)' = Rest(o)
         /\ \A e \in Rest(t)' : e \in S
<1>1. TalkShape' /\ ScreensShape' /\ InfoShape' /\ PartyShape'
  BY DEF Begun, Shape, TalkShape, ScreensShape, InfoShape, PartyShape
<1>2. TodoShape'
  BY DEF Begun, Shape, TodoShape
<1>3. Pending(t)' = S
  BY DEF Begun, Pending
<1>4. \A o \in Threads : o # t => todo'[o] = todo[o] /\ Pending(o)' = Pending(o) /\ Rest(o)' = Rest(o)
  BY DEF Begun, Pending, Rest
<1>5. \A e \in Rest(t)' : e \in S
  <2>1. todo'[t] # <<>> => Range(Tail(todo'[t])) \subseteq S
    BY FirstAndRest DEF Begun
  <2>2. QED
    BY <2>1 DEF Rest
<1>6. QED
  BY <1>1, <1>2, <1>3, <1>4, <1>5 DEF Shape

\* A handler whose steps are fit keeps the invariant when it begins.
LEMMA HandlerKeeps ==
  ASSUME CallInv, NEW t \in Threads, NEW S, HandlerFits(t, S)
  PROVE  CallInv'
<1>1. /\ Begun(t, S) /\ talk.running /\ DOMAIN ghost' = DOMAIN ghost /\ (ghost.partial => ghost'.partial)
      /\ \A e \in S : Fit(e) /\ (~ghost'.partial => WholeSet(e))
      /\ talk.st = "down" => t = "pbx" /\ ((\A e \in S : RingStep(e)) \/ (\A e \in S : LineStep(e)))
  BY DEF HandlerFits
<1>2. Shape /\ PartyShape /\ HeadsFirst /\ Running /\ DarkAtFirst /\ Person
  BY DEF CallInv, PhasesInv
<1>3. DOMAIN talk' = DOMAIN talk /\ \A g \in Fields : g # "locked" => talk'[g] = talk[g]
  BY <1>2 DEF HandlerFits, Shape, TalkShape
<1>4. /\ talk'.dev = talk.dev /\ talk'.running = talk.running /\ talk'.st = talk.st /\ talk'.type = talk.type
      /\ talk'.why = talk.why /\ talk'.stage = talk.stage
  BY <1>3 DEF Fields
<1>5. \A e \in S : WellFormed(e) /\ ~HeadOnly(e) /\ Goes(e) /\ (talk.st # "down" => Later(e))
  BY <1>1 DEF Fit
<1>6. /\ Shape' /\ PartyShape' /\ Pending(t)' = S
      /\ \A o \in Threads : o # t => todo'[o] = todo[o] /\ Pending(o)' = Pending(o) /\ Rest(o)' = Rest(o)
      /\ \A e \in Rest(t)' : e \in S
  BY <1>1, <1>2, <1>3, <1>4, <1>5, BegunShape
<1>7. HeadsFirst'
  BY <1>2, <1>5, <1>6 DEF HeadsFirst, Threads
<1>8. Up /\ Up' /\ info' = info /\ told' = told
  BY <1>1, <1>4 DEF Begun, Up
<1>9. Running'
  <2>1. \A o \in Threads : \A e \in Pending(o)' : Goes(e)
    BY <1>1, <1>2, <1>5, <1>6 DEF Running
  <2>2. talk.st # "down" => \A o \in Threads : \A e \in Pending(o)' : Later(e)
    BY <1>1, <1>2, <1>5, <1>6, <1>8 DEF Running
  <2>3. talk.st = "down" => /\ talk.type = "in" /\ talk.dev = Nobody /\ todo'["phone"] = <<>> /\ talk.why = "normal"
                            /\ (\A e \in Pending("pbx")' : RingStep(e)) \/ (\A e \in Pending("pbx")' : LineStep(e))
    BY <1>1, <1>2, <1>6, <1>8 DEF Running, Threads
  <2>4. talk.st \notin {"offhook", "onhook"} /\ (talk.st = "dialing" => talk.type # "in")
    BY <1>1, <1>2, <1>8 DEF Running
  <2>5. QED
    BY <1>4, <2>1, <2>2, <2>3, <2>4 DEF Running
<1>10. NotRunning' /\ DarkAtFirst' /\ Hung' /\ Ended'
  BY <1>1, <1>2, <1>4, <1>8 DEF NotRunning, DarkAtFirst, Hung, Ended
<1>11. Person'
  <2>1. Stored'
    BY <1>2, <1>8 DEF Person, Stored
  <2>2. PeerIsOnePerson'
    BY <1>1, <1>2, <1>8 DEF Person, PeerIsOnePerson, OnePerson
  <2>3. Sets'
    <3>1. SUFFICES ASSUME ~ghost'.partial, NEW o \in Threads, NEW e \in Pending(o)', e.do = "set", ~IsDialled(e)
                   PROVE  \A g \in {"calling", "called"} \cap DOMAIN e.with.parties : Whole(e.with.parties[g])
      BY DEF Sets
    <3>2. CASE o = t
      BY <1>1, <1>6, <3>1, <3>2 DEF WholeSet
    <3>3. CASE o # t
      <4>1. e \in Pending(o) /\ ~ghost.partial
        BY <1>1, <1>6, <3>1, <3>3
      <4>2. QED
        BY <1>2, <3>1, <4>1 DEF Person, Sets
    <3>4. QED
      BY <3>2, <3>3
  <2>4. QED
    BY <2>1, <2>2, <2>3 DEF Person
<1>12. QED
  BY <1>6, <1>7, <1>9, <1>10, <1>11 DEF CallInv, PhasesInv

\* Updates that are not the one of the dialled number.
LEMMA NotTheDialled ==
  ASSUME NEW u
  PROVE  /\ DOMAIN u.parties # {"called"} => u # Update(DialledNumber)
         /\ u.last # Keep => u # Update(DialledNumber)
         /\ u.orig # Keep => u # Update(DialledNumber)
         /\ u.parties["called"].name # Null => u # Update(DialledNumber)
BY DEF Update, Because, DialledNumber

\* A handler of Asterisk's, and what each of them does is fit.
LEMMA PbxFits ==
  ASSUME Shape, NEW S, Begun("pbx", S), talk' = talk, talk.running, ghost' = ghost, talk.st # "down",
         \A e \in S : Fit(e) /\ WholeSet(e)
  PROVE  HandlerFits("pbx", S)
BY DEF HandlerFits

LEMMA PresentationFits ==
  ASSUME NEW n
  PROVE  /\ Fit(Set(Presentation(n))) /\ WholeSet(Set(Presentation(n))) /\ RingStep(Set(Presentation(n)))
         /\ DOMAIN Set(Presentation(n)).with.parties = {}
<1>1. DOMAIN Presentation(n).parties = {}
  BY DEF Presentation, Update, Because
<1> DEFINE u == Presentation(n)
<1>2. u # Update(DialledNumber)
  <2> HIDE DEF u
  <2>1. DOMAIN u.parties = {}
    BY <1>1 DEF u
  <2>2. QED
    BY <2>1, NotTheDialled
<1> HIDE DEF u
<1>3. Fit(SetThen(u, <<>>))
  BY <1>2, FitSet
<1>4. DOMAIN u.parties = {}
  BY <1>1 DEF u
<1>5. WholeSet(SetThen(u, <<>>)) /\ RingStep(SetThen(u, <<>>)) /\ DOMAIN SetThen(u, <<>>).with.parties = {}
  BY <1>4 DEF WholeSet, SetThen, RingStep
<1>6. QED
  BY <1>3, <1>5 DEF Set, u

LEMMA RingFits ==
  ASSUME CallInv, NEW n, Ring(n)
  PROVE  \E S : HandlerFits("pbx", S)
<1> DEFINE S == {Set(Presentation(n)), Rung} \cup {RingOn(q) : q \in Lookers}
<1>0. Shape /\ TodoShape
  BY DEF CallInv, Shape
<1>1. Begun("pbx", S) /\ talk' = talk /\ ghost' = ghost
  BY <1>0, RingBegins
<1>2. talk.running
  BY DEF Ring, Pbx
<1>3. \A e \in S : Fit(e) /\ WholeSet(e) /\ RingStep(e)
  <2>1. SUFFICES ASSUME NEW e \in S PROVE Fit(e) /\ WholeSet(e) /\ RingStep(e)
    OBVIOUS
  <2>2. CASE e = Set(Presentation(n))
    BY <2>2, PresentationFits
  <2>3. CASE e = Rung
    <3>1. RingStep(Rung)
      BY DEF RingStep, Rung
    <3>2. QED
      BY <2>3, <3>1, FitOthers, TheLookers
  <2>4. CASE \E q \in Lookers : e = RingOn(q)
    <3>1. \A q : RingStep(RingOn(q))
      BY DEF RingStep, RingOn
    <3>2. QED
      BY <2>4, <3>1, FitOthers
  <2>5. QED
    BY <2>1, <2>2, <2>3, <2>4
<1> HIDE DEF S
<1>4. HandlerFits("pbx", S)
  BY <1>1, <1>2, <1>3 DEF HandlerFits
<1>5. QED
  BY <1>4

LEMMA IndicatedFits ==
  ASSUME CallInv, NEW s \in {"ringout", "proceed", "progress", "congestion", "connected"}, Indicated(s)
  PROVE  \E S : HandlerFits("pbx", S)
<1> DEFINE e == State(talk.dev, s, FALSE)
<1>0. Shape /\ TodoShape /\ talk.dev \in Lookers \cup {Nobody}
  BY DEF CallInv, Shape, TalkShape
<1>1. Begun("pbx", {e}) /\ talk' = talk /\ ghost' = ghost /\ talk.st # "down"
  BY <1>0, IndicatedBegins
<1>2. talk.running
  BY DEF Indicated, Pbx
<1>3. Fit(e) /\ WholeSet(e)
  BY <1>0, FitState
<1> HIDE DEF e
<1>4. HandlerFits("pbx", {e})
  BY <1>0, <1>1, <1>2, <1>3, PbxFits
<1>5. QED
  BY <1>4

LEMMA RedirectedFits ==
  ASSUME CallInv, NEW from, RedirectedUpdate(from)
  PROVE  \E S : HandlerFits("pbx", S)
<1>0. Shape /\ TodoShape /\ Running
  BY DEF CallInv, Shape, PhasesInv
<1>1. PICK w : Begun("pbx", {Set(Because([redirecting |-> w, origCalled |-> w], info.last, 4)), Tell(FALSE)})
                /\ talk' = talk /\ ghost' = ghost
  BY <1>0, RedirectedBegins
<1> DEFINE u == Because([redirecting |-> w, origCalled |-> w], info.last, 4)
<1>2. talk.running
  BY DEF RedirectedUpdate, Pbx
<1>3. u # Update(DialledNumber) /\ DOMAIN u.parties = {"redirecting", "origCalled"}
  <2>1. u.last # Keep /\ DOMAIN u.parties = {"redirecting", "origCalled"}
    BY DEF Because, Keep
  <2> HIDE DEF u
  <2>2. QED
    BY <2>1, NotTheDialled
<1> HIDE DEF u
<1>4. Fit(Set(u)) /\ WholeSet(Set(u)) /\ LineStep(Set(u))
  BY <1>3, FitSet DEF WholeSet, SetThen, LineStep, Set
<1>5. Fit(Tell(FALSE)) /\ WholeSet(Tell(FALSE)) /\ LineStep(Tell(FALSE))
  BY FitOthers, TheLookers DEF LineStep, Tell
<1> DEFINE S == {Set(u), Tell(FALSE)}
<1>6. Begun("pbx", S) /\ \A e \in S : Fit(e) /\ WholeSet(e) /\ LineStep(e)
  BY <1>1, <1>4, <1>5 DEF u
<1> HIDE DEF S
<1>7. HandlerFits("pbx", S)
  BY <1>1, <1>2, <1>6 DEF HandlerFits
<1>8. QED
  BY <1>7

LEMMA AnsweredElsewhereFits ==
  ASSUME CallInv, NEW who, AnsweredElsewhere(who)
  PROVE  \E S : HandlerFits("pbx", S)
<1> DEFINE u == Because([hunt |-> who, redirecting |-> who], Keep, 5)
           b == Be([elsewhere |-> TRUE])
           S == {Set(u), b}
<1>0. Shape /\ TodoShape
  BY DEF CallInv, Shape
<1>1. Begun("pbx", S) /\ talk' = talk /\ ghost' = ghost /\ talk.st # "down"
  BY <1>0, AnsweredElsewhereBegins
<1>2. talk.running
  BY DEF AnsweredElsewhere, Pbx
<1>3. u # Update(DialledNumber) /\ DOMAIN u.parties = {"hunt", "redirecting"}
  <2>1. u.last # Keep /\ DOMAIN u.parties = {"hunt", "redirecting"}
    BY DEF Because, Keep
  <2> HIDE DEF u
  <2>2. QED
    BY <2>1, NotTheDialled
<1> HIDE DEF u
<1>4. Fit(Set(u)) /\ WholeSet(Set(u))
  BY <1>3, FitSet DEF WholeSet, SetThen, Set
<1>5. Fit(b) /\ WholeSet(b)
  BY FitBe
<1>6. \A e \in S : Fit(e) /\ WholeSet(e)
  BY <1>4, <1>5
<1> HIDE DEF S
<1>7. HandlerFits("pbx", S)
  BY <1>0, <1>1, <1>2, <1>6, PbxFits
<1>8. QED
  BY <1>7

LEMMA CallParkFits ==
  ASSUME CallInv, CallPark
  PROVE  \E S : HandlerFits("pbx", S)
<1> DEFINE e == State(Nobody, "callpark", FALSE)
<1>0. Shape /\ TodoShape
  BY DEF CallInv, Shape
<1>1. Begun("pbx", {e}) /\ talk' = talk /\ ghost' = ghost /\ talk.st # "down"
  BY <1>0, CallParkBegins
<1>2. talk.running
  BY DEF CallPark, Pbx
<1>3. Fit(e) /\ WholeSet(e)
  BY FitState
<1> HIDE DEF e
<1>4. HandlerFits("pbx", {e})
  BY <1>0, <1>1, <1>2, <1>3, PbxFits
<1>5. QED
  BY <1>4

\* Asterisk names a person by the name and the number that go together.
LEMMA CallersAreWhole ==
  ASSUME NEW who \in Callers, who.name # Null
  PROVE  Whole(who) /\ who.name # Blank /\ who.number # Blank
<1>1. /\ who.number = <<who.number[1], "number">> /\ who.name = <<who.number[1], "name">>
  BY CallersAssumption
<1> DEFINE p == who.number[1]
<1>2. who.number = <<p, "number">> /\ who.name = <<p, "name">>
  BY <1>1
<1> HIDE DEF p
<1>3. who.name[1] = p /\ who.number[1] = p
  BY <1>2
<1>4. <<p, "number">> # Null /\ <<p, "number">> # Blank /\ <<p, "name">> # Null /\ <<p, "name">> # Blank
  BY DEF Null, Blank
<1>5. QED
  BY <1>2, <1>3, <1>4 DEF Whole, OnePerson

(* What sccp_astwrap_connectedline writes is one person's, when Asterisk   *)
(* named the number and the name.                                          *)
LEMMA LineUpdateFits ==
  ASSUME NEW who \in Callers, NEW orig, NEW transfer \in BOOLEAN, NEW parker \in BOOLEAN
  PROVE  /\ LineUpdate(who, orig, transfer, parker) # Update(DialledNumber)
         /\ who.name # Null =>
              \A g \in {"calling", "called"} \cap DOMAIN LineUpdate(who, orig, transfer, parker).parties :
                 Whole(LineUpdate(who, orig, transfer, parker).parties[g])
<1> DEFINE u == LineUpdate(who, orig, transfer, parker)
<1>1. \/ u = Reached(who) \/ u = Transferred(who) \/ u = Answering(who, orig)
  BY DEF LineUpdate
<1>2. CASE u = Reached(who)
  <2> DEFINE called == info.party["called"]
             r == [name |-> Or(who.name, called.name), number |-> Or(who.number, called.number)]
  <2>1. DOMAIN Reached(who).parties = {"called", "origCalled"} /\ Reached(who).parties["called"] = r
    BY DEF Reached, Update, Because
  <2>2. who.name # Null => r.name = who.name /\ r.number = who.number
    BY CallersAreWhole DEF Or, Whole
  <2> HIDE DEF u, r
  <2>3. who.name # Null => Whole(r)
    BY <2>2, CallersAreWhole DEF Whole, OnePerson
  <2>4. DOMAIN u.parties = {"called", "origCalled"} /\ u.parties["called"] = r
    BY <1>2, <2>1
  <2>5. u # Update(DialledNumber)
    BY <2>4, NotTheDialled
  <2>6. QED
    BY <2>3, <2>4, <2>5 DEF u
<1>3. CASE u = Transferred(who)
  <2>1. "calling" \in DOMAIN Transferred(who).parties /\ "called" \notin DOMAIN Transferred(who).parties
        /\ Transferred(who).parties["calling"] = who
    BY DEF Transferred, Because
  <2> HIDE DEF u
  <2>2. "calling" \in DOMAIN u.parties /\ "called" \notin DOMAIN u.parties /\ u.parties["calling"] = who
    BY <1>3, <2>1
  <2>3. u # Update(DialledNumber)
    BY <2>2, NotTheDialled
  <2>4. QED
    BY <2>2, <2>3, CallersAreWhole DEF u
<1>4. CASE u = Answering(who, orig)
  <2>1. "calling" \in DOMAIN Answering(who, orig).parties /\ "called" \notin DOMAIN Answering(who, orig).parties
        /\ Answering(who, orig).parties["calling"] = who
    BY DEF Answering, Update, Because
  <2> HIDE DEF u
  <2>2. "calling" \in DOMAIN u.parties /\ "called" \notin DOMAIN u.parties /\ u.parties["calling"] = who
    BY <1>4, <2>1
  <2>3. u # Update(DialledNumber)
    BY <2>2, NotTheDialled
  <2>4. QED
    BY <2>2, <2>3, CallersAreWhole DEF u
<1>5. QED
  BY <1>1, <1>2, <1>3, <1>4

LEMMA ConnectedLineFits ==
  ASSUME CallInv, NEW who \in Callers, NEW orig, NEW transfer \in BOOLEAN, NEW parker \in BOOLEAN,
         ConnectedLine(who, orig, transfer, parker)
  PROVE  \E S : HandlerFits("pbx", S)
<1> DEFINE u == LineUpdate(who, orig, transfer, parker)
           x == SetThen(u, <<Tell(TRUE)>>)
           y == State(Nobody, talk.st, FALSE)
           z == State(Nobody, "connected", TRUE)
           b == Be([type |-> "out", prev |-> talk.st, st |-> "ringout"])
<1>0. Shape /\ TodoShape /\ Running /\ Up
  BY DEF CallInv, Shape, PhasesInv, ConnectedLine, Pbx, Starts
<1>1. PICK S : LineBegun(S, who, u)
  BY <1>0, ConnectedLineBegins
<1>11. /\ Begun("pbx", S) /\ talk' = talk
       /\ ghost' = [ghost EXCEPT !.partial = @ \/ who.name = Null]
       /\ talk.type # "in" => talk.st \notin {"down", "offhook"}
       /\ talk.running /\ ~talk.locked
       /\ \A e \in S : 
            \/ e = x
            \/ e = y /\ talk.type = "in"
            \/ e = z /\ talk.st = "callpark"
            \/ e = b /\ talk.st = "callpark"
  BY <1>1 DEF LineBegun
<1>2. DOMAIN ghost' = DOMAIN ghost /\ (ghost.partial => ghost'.partial) /\ (~ghost'.partial => who.name # Null)
  <2>1. "partial" \in DOMAIN ghost
    BY <1>0 DEF Shape, InfoShape
  <2>2. QED
    BY <1>11, <2>1
<1>3. Fit(x) /\ (~ghost'.partial => WholeSet(x)) /\ LineStep(x)
  <2>1. u # Update(DialledNumber) 
    BY LineUpdateFits
  <2>2. who.name # Null => \A g \in {"calling", "called"} \cap DOMAIN u.parties : Whole(u.parties[g])
    BY LineUpdateFits
  <2> HIDE DEF u
  <2>3. Fit(x)
    BY <2>1, FitSet
  <2>4. QED
    BY <1>2, <2>2, <2>3 DEF WholeSet, LineStep, SetThen
<1>4. talk.type = "in" => Fit(y) /\ WholeSet(y) /\ LineStep(y)
  <2>1. talk.st \notin {"offhook", "onhook"} /\ (talk.st = "dialing" => talk.type # "in")
    BY <1>0, <1>11 DEF Running
  <2>2. LineStep(y)
    BY DEF LineStep, State
  <2>3. talk.type = "in" => Fit(y) /\ WholeSet(y)
    BY <2>1, FitState
  <2>4. QED
    BY <2>2, <2>3
<1>5. Fit(z) /\ WholeSet(z)
  BY FitState
<1>6. Fit(b) /\ WholeSet(b)
  BY FitBe
<1> HIDE DEF x, y, z, b
<1>7. \A e \in S : Fit(e) /\ (~ghost'.partial => WholeSet(e))
  BY <1>11, <1>3, <1>4, <1>5, <1>6
<1>8. talk.st = "down" => \A e \in S : LineStep(e)
  BY <1>11, <1>3, <1>4
<1>9. HandlerFits("pbx", S)
  BY <1>11, <1>2, <1>7, <1>8 DEF HandlerFits
<1>10. QED
  BY <1>9

\* What the state of a call says of whether Asterisk runs it.
LEMMA RunningWhen ==
  ASSUME CallInv, Up
  PROVE  /\ talk.type = "in" \/ talk.why # "normal" \/ talk.dev = Nobody
              \/ talk.st \notin {"down", "offhook", "dialing"} => talk.running
         /\ talk.running /\ (talk.dev # Nobody \/ talk.why # "normal") => talk.st # "down"
         /\ talk.dev \in Lookers \cup {Nobody} /\ Shape /\ TodoShape
BY DEF CallInv, PhasesInv, NotRunning, Running, Shape, TalkShape

\* A handler of a phone, and what each of them does is fit.
LEMMA PhoneFits ==
  ASSUME Shape, NEW S, Begun("phone", S), talk' = talk \/ talk' = [talk EXCEPT !.locked = TRUE], talk.running,
         ghost' = ghost, talk.st # "down", \A e \in S : Fit(e) /\ (~ghost.partial => WholeSet(e))
  PROVE  HandlerFits("phone", S)
BY DEF HandlerFits

LEMMA AnswerFits ==
  ASSUME CallInv, NEW p \in Lookers, Answer(p)
  PROVE  \E S : HandlerFits("phone", S)
<1> DEFINE x == Be([dev |-> p])
           y == Show(p, "offhook")
           z == Show(p, "connected")
           o == OffExcept(p)
           l == Be([locked |-> FALSE])
<1>0. Up
  BY DEF Answer, Locked, Starts
<1>1. /\ Begun("phone", {x, y, z, o, l})
      /\ talk' = [talk EXCEPT !.locked = TRUE] /\ ghost' = ghost /\ talk.type = "in" /\ talk.st = "ringing"
  BY <1>0, AnswerBegins, RunningWhen
<1>2. talk.running /\ Shape
  BY <1>0, <1>1, RunningWhen
<1>3. Fit(x) /\ WholeSet(x) /\ Fit(l) /\ WholeSet(l)
  BY FitBe
<1>4. Fit(y) /\ WholeSet(y) /\ Fit(z) /\ WholeSet(z) /\ Fit(o) /\ WholeSet(o)
  BY FitOthers
<1> HIDE DEF x, y, z, o, l
<1>5. HandlerFits("phone", {x, y, z, o, l})
  BY <1>1, <1>2, <1>3, <1>4, PhoneFits
<1>6. QED
  BY <1>5

LEMMA AnswerCompletionFits ==
  ASSUME CallInv, AnswerCompletion
  PROVE  \E S : HandlerFits("phone", S)
<1> DEFINE x == State(talk.dev, "connected", FALSE)
           l == Be([locked |-> FALSE])
<1>0. Up
  BY DEF AnswerCompletion, Locked, Starts
<1>1. /\ Begun("phone", {x, l})
      /\ talk' = [talk EXCEPT !.locked = TRUE] /\ ghost' = ghost /\ talk.type = "in" /\ talk.st = "ringing"
  BY <1>0, AnswerCompletionBegins, RunningWhen
<1>2. talk.running /\ Shape /\ talk.dev \in Lookers \cup {Nobody}
  BY <1>0, <1>1, RunningWhen
<1>3. Fit(x) /\ WholeSet(x) /\ Fit(l) /\ WholeSet(l)
  BY <1>2, FitBe, FitState
<1> HIDE DEF x, l
<1>5. HandlerFits("phone", {x, l})
  BY <1>1, <1>2, <1>3, PhoneFits
<1>6. QED
  BY <1>5

LEMMA HoldFits ==
  ASSUME CallInv, Hold
  PROVE  \E S : HandlerFits("phone", S)
<1> DEFINE x == Be([why |-> "normal"])
           y == State(talk.dev, "hold", FALSE)
           z == Be([dev |-> Nobody])
<1>0. Up
  BY DEF Hold, Phone, Starts
<1>1. /\ Begun("phone", {x, y, z}) /\ talk' = talk /\ ghost' = ghost
      /\ talk.st \in {"connected", "conference", "proceed"}
  BY <1>0, HoldBegins, RunningWhen
<1>2. talk.running /\ Shape /\ talk.dev \in Lookers \cup {Nobody}
  BY <1>0, <1>1, RunningWhen
<1>3. Fit(x) /\ WholeSet(x) /\ Fit(y) /\ WholeSet(y) /\ Fit(z) /\ WholeSet(z)
  BY <1>2, FitBe, FitState
<1> HIDE DEF x, y, z
<1>5. HandlerFits("phone", {x, y, z})
  BY <1>1, <1>2, <1>3, PhoneFits
<1>6. QED
  BY <1>5

LEMMA ResumeFits ==
  ASSUME CallInv, NEW p \in Lookers, Resume(p)
  PROVE  \E S : HandlerFits("phone", S)
<1>0. Up
  BY DEF Resume, Locked, Starts
<1>1. PICK S, s, u :
         /\ Begun("phone", S) /\ talk' = [talk EXCEPT !.locked = TRUE] /\ ghost' = ghost /\ todo["pbx"] = <<>>
         /\ talk.st \in {"hold", "calltransfer"} /\ s \in {"conference", "connected"}
         /\ S \subseteq {Be([dev |-> p, st |-> "hold", why |-> "normal"]), State(p, s, FALSE), Set(Update(u)),
                         Be([locked |-> FALSE])}
         /\ \E g \in {"calling", "called"} : u = [h \in {g} |-> [name |-> Us.number, number |-> Us.name]]
  BY <1>0, ResumeBegins, RunningWhen
<1> DEFINE x == Be([dev |-> p, st |-> "hold", why |-> "normal"])
           y == State(p, s, FALSE)
           z == Set(Update(u))
           l == Be([locked |-> FALSE])
<1>2. talk.running /\ Shape
  BY <1>0, <1>1, RunningWhen
<1>3. Fit(x) /\ WholeSet(x) /\ Fit(l) /\ WholeSet(l)
  BY FitBe
<1>4. Fit(y) /\ WholeSet(y)
  BY <1>1, FitState
<1>5. Fit(z) /\ WholeSet(z)
  <2> DEFINE turned == [name |-> Us.number, number |-> Us.name]
             w == Update(u)
  <2>1. Whole(turned)
    BY DEF Whole, OnePerson, Us, Party, Null, Blank
  <2>2. PICK g \in {"calling", "called"} : u = [h \in {g} |-> turned]
    BY <1>1
  <2> HIDE DEF turned
  <2>3. w.parties = [h \in {g} |-> turned]
    BY <2>2 DEF Update, Because
  <2> HIDE DEF w
  <2>4. DOMAIN w.parties = {g} /\ w.parties[g] = turned
    BY <2>3
  <2>5. w # Update(DialledNumber)
    BY <2>1, <2>4, NotTheDialled DEF Whole
  <2>6. \A h \in {"calling", "called"} \cap DOMAIN w.parties : Whole(w.parties[h])
    BY <2>1, <2>4
  <2>7. Fit(SetThen(w, <<>>)) /\ WholeSet(SetThen(w, <<>>))
    BY <2>5, <2>6, FitSet DEF WholeSet, SetThen
  <2>8. QED
    BY <2>7 DEF w, Set
<1> HIDE DEF x, y, z, l
<1>6. \A e \in S : Fit(e) /\ (~ghost.partial => WholeSet(e))
  <2>1. S \subseteq {x, y, z, l}
    BY <1>1 DEF x, y, z, l
  <2>2. QED
    BY <2>1, <1>3, <1>4, <1>5
<1>7. talk.st # "down" /\ talk' = [talk EXCEPT !.locked = TRUE] /\ ghost' = ghost /\ Begun("phone", S)
  BY <1>1
<1>8. HandlerFits("phone", S)
  BY <1>2, <1>6, <1>7, PhoneFits
<1>9. QED
  BY <1>8

LEMMA TransferKeyFits ==
  ASSUME CallInv, TransferKey
  PROVE  \E S : HandlerFits("phone", S)
<1> DEFINE x == Be([why |-> "transfer"])
           y == State(talk.dev, "hold", FALSE)
           z == Be([dev |-> Nobody])
           w == State(talk.dev, "calltransfer", FALSE)
<1>0. Up
  BY DEF TransferKey, Phone, Starts
<1>1. /\ Begun("phone", {x, y, z, w}) /\ talk' = talk /\ ghost' = ghost /\ talk.st = "connected"
  BY <1>0, TransferKeyBegins, RunningWhen
<1>2. talk.running /\ Shape /\ talk.dev \in Lookers \cup {Nobody}
  BY <1>0, <1>1, RunningWhen
<1>3. Fit(x) /\ WholeSet(x) /\ Fit(y) /\ WholeSet(y) /\ Fit(z) /\ WholeSet(z) /\ Fit(w) /\ WholeSet(w)
  BY <1>2, FitBe, FitState
<1> HIDE DEF x, y, z, w
<1>5. HandlerFits("phone", {x, y, z, w})
  BY <1>1, <1>2, <1>3, PhoneFits
<1>6. QED
  BY <1>5

LEMMA TransferSourceFits ==
  ASSUME CallInv, TransferSource
  PROVE  \E S : HandlerFits("phone", S)
<1> DEFINE x == Be([why |-> "normal"])
           u == Update([redirecting |-> Us])
<1>0. Up
  BY DEF TransferSource, Phone, Starts
<1>1. /\ Begun("phone", {x, Set(u)}) /\ talk' = talk /\ ghost' = ghost /\ talk.why = "transfer"
  BY <1>0, TransferSourceBegins, RunningWhen
<1>2. talk.running /\ Shape /\ talk.st # "down"
  BY <1>0, <1>1, RunningWhen
<1>3. DOMAIN u.parties = {"redirecting"}
  BY DEF Update, Because
<1>4. Fit(x) /\ WholeSet(x)
  BY FitBe
<1> HIDE DEF x, u
<1>5. Fit(Set(u)) /\ WholeSet(Set(u))
  BY <1>3, NotTheDialled, FitSet DEF WholeSet, SetThen, Set
<1>6. HandlerFits("phone", {x, Set(u)})
  BY <1>1, <1>2, <1>4, <1>5, PhoneFits
<1>7. QED
  BY <1>6

LEMMA TransferDestinationFits ==
  ASSUME CallInv, TransferDestination
  PROVE  \E S : HandlerFits("phone", S)
<1> DEFINE x == Be([type |-> "forward"])
           u == Update([redirecting |-> info.party["calling"]])
<1>0. Up
  BY DEF TransferDestination, Phone, Starts
<1>1. /\ Begun("phone", {Set(u), x}) /\ talk' = talk /\ ghost' = ghost /\ talk.st \in {"ringout", "connected"}
  BY <1>0, TransferDestinationBegins, RunningWhen
<1>2. talk.running /\ Shape /\ talk.st # "down"
  BY <1>0, <1>1, RunningWhen
<1>3. DOMAIN u.parties = {"redirecting"}
  BY DEF Update, Because
<1>4. Fit(x) /\ WholeSet(x)
  BY FitBe
<1> HIDE DEF x, u
<1>5. Fit(Set(u)) /\ WholeSet(Set(u))
  BY <1>3, NotTheDialled, FitSet DEF WholeSet, SetThen, Set
<1>6. HandlerFits("phone", {Set(u), x})
  BY <1>1, <1>2, <1>4, <1>5, PhoneFits
<1>7. QED
  BY <1>6

LEMMA JoinFits ==
  ASSUME CallInv, JoinConference
  PROVE  \E S : HandlerFits("phone", S)
<1> DEFINE x == Be([conference |-> TRUE])
           y == State(Nobody, "conference", FALSE)
           peer == info.party[IF talk.type = "in" THEN "calling" ELSE "called"]
           own == info.party[IF talk.type = "in" THEN "called" ELSE "calling"]
           ps == IF talk.type = "in" THEN [origCalling |-> peer, calling |-> own]
                 ELSE [origCalled |-> peer, called |-> own]
           u == Joins
<1>0. Up /\ Person
  BY DEF JoinConference, Phone, Starts, CallInv
<1>1. /\ Begun("phone", {x, Set(u), y}) /\ talk' = talk /\ ghost' = ghost /\ talk.st = "connected"
  BY <1>0, JoinBegins, RunningWhen
<1>2. talk.running /\ Shape /\ talk.st # "down"
  BY <1>0, <1>1, RunningWhen
<1>3. ~ghost.partial => Whole(own)
  <2>1. own = info.party["called"] \/ own = info.party["calling"]
    OBVIOUS
  <2>2. ~ghost.partial => Whole(info.party["called"]) /\ Whole(info.party["calling"])
    BY <1>0 DEF Person, Stored, PeerIsOnePerson, Whole
  <2> HIDE DEF own
  <2>3. QED
    BY <2>1, <2>2
<1>4. Fit(x) /\ WholeSet(x) /\ Fit(y) /\ WholeSet(y)
  BY FitBe, FitState
<1>5. u.parties = ps
  BY DEF Joins, Update, Because
<1> HIDE DEF x, y, u, own, peer
<1>6. \/ DOMAIN u.parties = {"origCalling", "calling"} /\ u.parties["calling"] = own
      \/ DOMAIN u.parties = {"origCalled", "called"} /\ u.parties["called"] = own
  BY <1>5
<1> HIDE DEF ps
<1>7. Fit(Set(u))
  BY <1>6, NotTheDialled, FitSet DEF Set
<1>8. ~ghost.partial => WholeSet(Set(u))
  BY <1>3, <1>6 DEF WholeSet, SetThen, Set
<1>9. HandlerFits("phone", {x, Set(u), y})
  BY <1>1, <1>2, <1>4, <1>7, <1>8, PhoneFits
<1>10. QED
  BY <1>9

LEMMA SetPresentationFits ==
  ASSUME CallInv, NEW n, SetPresentation(n), talk.running
  PROVE  \E S : HandlerFits("phone", S)
<1> DEFINE x == Set(Presentation(n))
<1>0. Up
  BY DEF SetPresentation, Phone, Starts
<1>1. /\ Begun("phone", {x}) /\ talk' = talk /\ ghost' = ghost /\ talk.dev # Nobody
  BY <1>0, SetPresentationBegins, RunningWhen
<1>2. Shape /\ talk.st # "down"
  BY <1>0, <1>1, RunningWhen
<1>3. Fit(x) /\ WholeSet(x)
  BY PresentationFits
<1> HIDE DEF x
<1>4. HandlerFits("phone", {x})
  BY <1>1, <1>2, <1>3, PhoneFits
<1>5. QED
  BY <1>4

\* A handler of a phone that begins before Asterisk runs the call.
LEMMA BeforeRunning ==
  ASSUME CallInv, ~talk.running, NEW S, Begun("phone", S), talk' = talk, ghost' = ghost,
         \A e \in S : WellFormed(e) /\ (~ghost.partial /\ ~IsDialled(e) => WholeSet(e)),
         \A e \in Rest("phone")' : ~HeadOnly(e),
         PicksUpFirst' \/ AllCalm'
  PROVE  CallInv'
<1>1. Shape /\ PartyShape /\ HeadsFirst /\ NotRunning /\ DarkAtFirst /\ Person
  BY DEF CallInv, PhasesInv
<1>2. Up /\ Up' /\ info' = info /\ told' = told
  BY DEF Begun, Up
<1>3. /\ Shape' /\ PartyShape' /\ Pending("phone")' = S
      /\ \A o \in Threads : o # "phone" => todo'[o] = todo[o] /\ Pending(o)' = Pending(o) /\ Rest(o)' = Rest(o)
  BY <1>1, BegunShape DEF Threads
<1>4. HeadsFirst'
  BY <1>1, <1>3 DEF HeadsFirst, Threads
<1>5. NotRunning'
  <2>1. NotRunningShape
    BY <1>1, NotRunningParts
  <2>2. NotRunningShape'
    BY <2>1, <1>2, <1>3 DEF NotRunningShape, Threads
  <2>3. QED
    BY <2>2 DEF NotRunning, NotRunningShape, PicksUpFirst, AllCalm
<1>6. Running' /\ DarkAtFirst' /\ Hung' /\ Ended'
  BY <1>1, <1>2 DEF Running, DarkAtFirst, Hung, Ended
<1>7. Person'
  <2>1. Stored' /\ PeerIsOnePerson'
    BY <1>1, <1>2 DEF Person, Stored, PeerIsOnePerson, OnePerson
  <2>2. Sets'
    <3>1. SUFFICES ASSUME ~ghost.partial, NEW o \in Threads, NEW e \in Pending(o)', e.do = "set", ~IsDialled(e)
                   PROVE  \A g \in {"calling", "called"} \cap DOMAIN e.with.parties : Whole(e.with.parties[g])
      BY DEF Sets
    <3>2. CASE o = "phone"
      BY <1>3, <3>1, <3>2 DEF WholeSet
    <3>3. CASE o # "phone"
      <4>1. e \in Pending(o)
        BY <1>3, <3>1, <3>3
      <4>2. QED
        BY <1>1, <3>1, <4>1 DEF Person, Sets
    <3>4. QED
      BY <3>2, <3>3
  <2>3. QED
    BY <2>1, <2>2 DEF Person
<1>8. QED
  BY <1>3, <1>4, <1>5, <1>6, <1>7 DEF CallInv, PhasesInv

LEMMA NotYetRunning ==
  ASSUME CallInv, Up
  PROVE  /\ talk.st = "offhook" => ~talk.running
         /\ talk.st = "down" /\ talk.type = "out" => ~talk.running
         /\ ~talk.running => talk.dev \in Lookers
BY DEF CallInv, PhasesInv, NotRunning, Running, Shape, TalkShape

(* Those handlers: the receiver, the private key, the number, a call that  *)
(* is picked up.                                                           *)
LEMMA OffHookKeeps ==
  ASSUME CallInv, OffHook
  PROVE  CallInv'
<1> DEFINE e == State(talk.dev, "offhook", FALSE)
<1>0. Up
  BY DEF OffHook, Phone, Starts
<1>1. /\ Begun("phone", {e}) /\ talk' = talk /\ ghost' = ghost /\ todo'["phone"] = <<e>>
      /\ talk.type = "out" /\ talk.st = "down"
  BY <1>0, OffHookBegins, RunningWhen
<1>2. ~talk.running /\ talk.dev \in Lookers
  BY <1>0, <1>1, NotYetRunning
<1>3. WellFormed(e) /\ WholeSet(e) /\ Calm(e) /\ e # Be([running |-> TRUE]) /\ e.do = "state"
  BY <1>2 DEF WellFormed, WholeSet, Calm, State, Be
<1> HIDE DEF e
<1>4. Rest("phone")' = {}
  <2>1. Tail(<<e>>) = <<>>
    OBVIOUS
  <2>2. Range(Tail(todo'["phone"])) = {}
    BY <1>1, <2>1, NoSteps
  <2>3. QED
    BY <2>2 DEF Rest
<1>5. Pending("phone")' = {e}
  BY <1>1 DEF Begun, Pending
<1>6. AllCalm'
  <2>1. (\A x \in Pending("phone")' : Calm(x)) /\ Be([running |-> TRUE]) \notin Pending("phone")'
    BY <1>3, <1>5
  <2>2. \A x \in Pending("phone")' : x.do \notin {"show", "others", "be"}
    BY <1>3, <1>5
  <2>3. QED
    BY <2>1, <2>2 DEF AllCalm
<1>7. QED
  BY <1>1, <1>2, <1>3, <1>4, <1>6, BeforeRunning

LEMMA SetPresentationKeeps ==
  ASSUME CallInv, NEW n, SetPresentation(n), ~talk.running
  PROVE  CallInv'
<1> DEFINE e == Set(Presentation(n))
<1>0. Up
  BY DEF SetPresentation, Phone, Starts
<1>1. Begun("phone", {e}) /\ talk' = talk /\ ghost' = ghost
  BY <1>0, SetPresentationBegins, RunningWhen
<1>2. Fit(e) /\ WholeSet(e) /\ DOMAIN e.with.parties = {}
  BY PresentationFits
<1>3. Calm(e) /\ e # Be([running |-> TRUE]) /\ e.do = "set"
  <2>1. e.do = "set" /\ e.then = <<>>
    BY DEF Set, SetThen
  <2> HIDE DEF e
  <2>2. QED
    BY <1>2, <2>1 DEF Calm, Be
<1> HIDE DEF e
<1>4. Pending("phone")' = {e} /\ \A x \in Rest("phone")' : x = e
  <2>1. Shape /\ PartyShape /\ HeadsFirst
    BY DEF CallInv, PhasesInv
  <2>2. QED
    BY <1>1, <1>2, <2>1, BegunShape DEF Fit, Threads
<1>5. AllCalm'
  <2>1. (\A x \in Pending("phone")' : Calm(x)) /\ Be([running |-> TRUE]) \notin Pending("phone")'
    BY <1>3, <1>4
  <2>2. \A x \in Pending("phone")' : x.do \notin {"show", "others", "be"}
    BY <1>3, <1>4
  <2>3. QED
    BY <2>1, <2>2 DEF AllCalm
<1>6. \A x \in Rest("phone")' : ~HeadOnly(x)
  BY <1>2, <1>4 DEF Fit
<1>7. WellFormed(e) /\ WholeSet(e)
  BY <1>2 DEF Fit
<1>8. QED
  BY <1>1, <1>5, <1>6, <1>7, BeforeRunning

LEMMA DialKeeps ==
  ASSUME CallInv, NEW private, Dial(private)
  PROVE  CallInv'
<1> DEFINE e == State(talk.dev, "dialing", FALSE)
           p == Set(Presentation(0))
           run == Be([running |-> TRUE])
<1>0. Up
  BY DEF Dial, Phone, Starts
<1>1. PICK b : /\ IsSteps(b) /\ Range(b) \subseteq {p, run}
               /\ todo'["phone"] = <<e>> \o b
               /\ Begun("phone", {e} \cup Range(b))
               /\ talk' = talk /\ ghost' = ghost /\ talk.st = "offhook"
  BY <1>0, DialBegins, RunningWhen
<1>2. ~talk.running /\ talk.dev \in Lookers
  BY <1>0, <1>1, NotYetRunning
<1>3. /\ WellFormed(e) /\ WholeSet(e) /\ Calm(e) /\ e # run /\ e.do = "state" /\ e.state = "dialing"
  BY <1>2 DEF WellFormed, WholeSet, Calm, State, Be
<1>4. WellFormed(p) /\ WholeSet(p) /\ Calm(p) /\ ~HeadOnly(p) /\ p.do = "set"
  <2>1. Fit(p) /\ WholeSet(p) /\ DOMAIN p.with.parties = {}
    BY PresentationFits
  <2>2. p.do = "set" /\ p.then = <<>>
    BY DEF Set, SetThen
  <2> HIDE DEF p
  <2>3. QED
    BY <2>1, <2>2 DEF Fit, Calm
<1>5. WellFormed(run) /\ WholeSet(run) /\ Calm(run) /\ ~HeadOnly(run) /\ run.do = "be"
  <2>1. run.do = "be" /\ run.fields = [running |-> TRUE]
    BY DEF Be
  <2>2. run # PicksUp
    BY DEF Be, PicksUp
  <2>3. Calm(run)
    BY DEF Calm
  <2> HIDE DEF run
  <2>4. QED
    BY <2>1, <2>2, <2>3 DEF WellFormed, WholeSet, HeadOnly, IsDialled
<1> HIDE DEF e, p, run
<1>6. /\ Head(todo'["phone"]) = e /\ Tail(todo'["phone"]) = b
      /\ Pending("phone")' = {e} \cup Range(b) /\ Rest("phone")' \subseteq Range(b)
  <2>1. Head(<<e>> \o b) = e /\ Tail(<<e>> \o b) = b
    BY <1>1, NoSteps, Joining
  <2>2. Head(todo'["phone"]) = e /\ Tail(todo'["phone"]) = b
    BY <1>1, <2>1
  <2>3. QED
    BY <1>1, <2>2 DEF Begun, Pending, Rest
<1>7. AllCalm'
  <2>1. \A x \in Pending("phone")' : Calm(x)
    BY <1>1, <1>3, <1>4, <1>5, <1>6
  <2>2. \A x \in Pending("phone")' : x.do = "state" => x.state = "dialing"
    BY <1>1, <1>3, <1>4, <1>5, <1>6
  <2>3. Head(todo'["phone"]).do = "state" /\ Head(todo'["phone"]).state = "dialing" /\ talk'.st = "offhook"
    BY <1>1, <1>3, <1>6
  <2>4. QED
    BY <2>1, <2>2, <2>3 DEF AllCalm
<1>8. \A x \in Rest("phone")' : ~HeadOnly(x)
  BY <1>1, <1>4, <1>5, <1>6
<1> DEFINE S == {e} \cup Range(b)
<1>9. \A x \in S : WellFormed(x) /\ WholeSet(x)
  BY <1>1, <1>3, <1>4, <1>5
<1>10. Begun("phone", S)
  BY <1>1
<1> HIDE DEF S
<1>11. QED
  BY <1>1, <1>2, <1>7, <1>8, <1>9, <1>10, BeforeRunning

LEMMA PickUpKeeps ==
  ASSUME CallInv, NEW target, NEW answer, PickUp(target, answer)
  PROVE  CallInv'
<1> DEFINE u == Picked(target)
           y == Set(u)
           d == talk.dev
           T == {State(d, "ringing", FALSE), Show(d, "ringin"), Show(d, "offhook"), Lock, Be([dev |-> d]),
                 Show(d, "connected"), Be([locked |-> FALSE])}
<1>0. Up /\ Person
  BY DEF PickUp, Phone, Starts, CallInv
<1>1. PICK b : 
         /\ IsSteps(b) /\ todo'["phone"] = <<PicksUp, y>> \o b
         /\ Begun("phone", {PicksUp, y} \cup Range(b))
         /\ talk' = talk /\ ghost' = ghost /\ talk.st = "offhook"
         /\ Range(b) \subseteq T
  <2>1. TodoShape
    BY <1>0, RunningWhen
  <2>2. QED
    BY <2>1, PickUpBegins
<1>2. ~talk.running /\ d \in Lookers
  BY <1>0, <1>1, NotYetRunning
<1>3. \A e \in T : WellFormed(e) /\ WholeSet(e) /\ ~HeadOnly(e) /\ Later(e)
  <2>1. SUFFICES ASSUME NEW e \in T PROVE (Fit(e) /\ WholeSet(e)) \/ e = Lock
    <3>1. WellFormed(Lock) /\ WholeSet(Lock) /\ ~HeadOnly(Lock) /\ Later(Lock)
      BY DEF WellFormed, WholeSet, HeadOnly, IsDialled, PicksUp, Be, Later, Lock
    <3>2. talk.st # "down"
      BY <1>1
    <3> HIDE DEF T
    <3>3. QED
      BY <3>1, <3>2 DEF Fit
  <2>2. Fit(State(d, "ringing", FALSE)) /\ WholeSet(State(d, "ringing", FALSE))
    BY <1>2, FitState
  <2>3. \A x : Fit(Show(d, x)) /\ WholeSet(Show(d, x))
    BY <1>2, FitOthers
  <2>4. Fit(Be([dev |-> d])) /\ WholeSet(Be([dev |-> d])) /\ Fit(Be([locked |-> FALSE])) /\ WholeSet(Be([locked |-> FALSE]))
    BY <1>2, FitBe
  <2>5. QED
    BY <2>1, <2>2, <2>3, <2>4
<1> HIDE DEF T, d
<1>4. WellFormed(y) /\ (~ghost.partial => WholeSet(y)) /\ ~HeadOnly(y) /\ Later(y)
  <2>1. u.orig = 5 /\ DOMAIN u.parties = {"called", "origCalled", "redirecting", "hunt"}
        /\ u.parties["called"] = info.party["called"]
    BY DEF Picked, Because
  <2>2. ~ghost.partial => Whole(info.party["called"])
    BY <1>0 DEF Person, Stored, PeerIsOnePerson, Whole
  <2> HIDE DEF u
  <2>3. u # Update(DialledNumber)
    BY <2>1, NotTheDialled DEF Keep
  <2>4. Fit(y)
    BY <2>3, FitSet DEF Set
  <2>5. ~ghost.partial => WholeSet(y)
    BY <2>1, <2>2 DEF WholeSet, Set, SetThen
  <2>6. talk.st # "down"
    BY <1>1
  <2>7. QED
    BY <2>4, <2>5, <2>6 DEF Fit
<1>5. WellFormed(PicksUp) /\ WholeSet(PicksUp)
  BY DEF WellFormed, WholeSet, PicksUp, Be
<1> HIDE DEF y
<1>6. Head(todo'["phone"]) = PicksUp /\ todo'["phone"] # <<>> /\ \A e \in Rest("phone")' : e = y \/ e \in Range(b)
  <2> DEFINE a == <<PicksUp, y>>
             U == {PicksUp, y} \cup Range(b)
  <2>1. Range(b) \subseteq U /\ PicksUp \in U /\ y \in U
    OBVIOUS
  <2>2. b \in Seq(U)
    <3> HIDE DEF U
    <3> QED BY <1>1, <2>1, SeqMonotonic DEF IsSteps
  <2>3. a \in Seq(U) /\ a # <<>> /\ Head(a) = PicksUp /\ Tail(a) = <<y>> /\ Len(a) = 2 /\ a[1] = PicksUp
    <3> HIDE DEF U
    <3> QED BY <2>1
  <2> HIDE DEF a, U
  <2>4. Tail(a \o b) = <<y>> \o b
    BY <2>2, <2>3, TailJoined
  <2>5. a \o b \in Seq(U) /\ Len(a \o b) = 2 + Len(b) /\ Len(b) \in Nat /\ (a \o b)[1] = PicksUp
    <3>1. /\ a \o b \in Seq(U) /\ Len(a \o b) = Len(a) + Len(b)
          /\ \A i \in 1..Len(a) + Len(b) : (a \o b)[i] = IF i <= Len(a) THEN a[i] ELSE b[i - Len(a)]
      BY <2>2, <2>3, ConcatProperties
    <3>2. Len(b) \in Nat
      BY <2>2, LenProperties
    <3>3. QED
      BY <2>3, <3>1, <3>2
  <2>6. a \o b # <<>> /\ Head(a \o b) = PicksUp
    <3>1. a \o b # <<>>
      BY <2>5, EmptySeq
    <3>2. QED
      BY <2>5, <3>1, HeadTailProperties
  <2>7. todo'["phone"] = a \o b
    BY <1>1 DEF a
  <2>8. IsSteps(<<y>>) /\ Range(<<y>>) = {y}
    BY SingleSteps
  <2>9. Range(<<y>> \o b) = {y} \cup Range(b)
    BY <1>1, <2>8, JoinedSteps
  <2>10. QED
    BY <2>4, <2>6, <2>7, <2>9 DEF Rest
<1>7. \A e \in Rest("phone")' : ~HeadOnly(e) /\ Later(e)
  BY <1>1, <1>3, <1>4, <1>6
<1>8. PicksUpFirst'
  BY <1>1, <1>6, <1>7 DEF PicksUpFirst, BeginsWith
<1> DEFINE S == {PicksUp, y} \cup Range(b)
<1>9. Begun("phone", S) /\ \A e \in S : WellFormed(e) /\ (~ghost.partial => WholeSet(e))
  BY <1>1, <1>3, <1>4, <1>5
<1> HIDE DEF S
<1>10. QED
  BY <1>1, <1>2, <1>7, <1>8, <1>9, BeforeRunning

\* sccp_pbx_hangup: the steps that take the call off its phone are begun.
LEMMA HangupKeeps ==
  ASSUME CallInv, PbxHangup
  PROVE  CallInv'
<1> DEFINE d == IF talk.dev # Nobody THEN talk.dev ELSE Screens[1]
           e == State(d, "onhook", FALSE)
           s == If(talk.st # "down", <<e>>)
<1>1. /\ Shape /\ PartyShape /\ HeadsFirst /\ NotRunning /\ Running /\ DarkAtFirst /\ Person
      /\ TodoShape /\ DOMAIN talk = Fields /\ DOMAIN ghost = {"late", "crossed", "partial"}
  BY DEF CallInv, PhasesInv, Shape, TalkShape, InfoShape
<1>2. d \in Lookers
  BY <1>1, TheLookers DEF Shape, TalkShape
<1>3. /\ e.do = "state" /\ e.state = "onhook" /\ WellFormed(e) /\ ~HeadOnly(e) /\ Goes(e) /\ EndStep(e)
  BY <1>2 DEF WellFormed, HeadOnly, IsDialled, Goes, EndStep, State, PicksUp, Be
<1>4. /\ Starts("pbx", s)
      /\ talk' = [talk EXCEPT !.stage = "ended", !.conference = FALSE]
      /\ ghost' = [ghost EXCEPT !.crossed = ~Idle("phone")]
  BY DEF PbxHangup
<1> DEFINE oneStep == <<e>>
<1>5. IsSteps(oneStep) /\ Range(oneStep) = {e} /\ Tail(oneStep) = <<>>
  <2>1. Tail(<<e>>) = <<>>
    <3> HIDE DEF e
    <3> QED OBVIOUS
  <2>2. QED
    BY <2>1, SingleSteps
<1>6. s = If(talk.st # "down", oneStep) /\ oneStep = <<State(d, "onhook", FALSE)>>
  OBVIOUS
<1> HIDE DEF e, s, oneStep
<1>7. /\ IsSteps(s) /\ Range(s) \subseteq {e} /\ (talk.st = "down" => s = <<>>) /\ (talk.st # "down" => s = oneStep)
  BY <1>5, <1>6, IfSteps
<1>8. Begun("pbx", Range(s)) /\ todo'["pbx"] = s
  BY <1>1, <1>4, <1>7, Begins DEF Threads
<1>9. /\ ~Up' /\ Up /\ DOMAIN talk' = DOMAIN talk
      /\ \A g \in {"running", "type", "st", "prev", "dev", "why"} : talk'[g] = talk[g]
      /\ talk'.conference = FALSE /\ DOMAIN ghost' = DOMAIN ghost
      /\ ghost'.partial = ghost.partial /\ ghost'.crossed = ~Idle("phone")
  BY <1>1, <1>4, <1>8 DEF Fields, Up, Begun
<1>10. info' = info /\ told' = told
  BY <1>8 DEF Begun
<1>11. \A x \in Range(s) : WellFormed(x)
  BY <1>3, <1>7
<1>12. /\ Shape' /\ PartyShape' /\ Pending("pbx")' = Range(s)
       /\ \A o \in Threads : o # "pbx" => todo'[o] = todo[o] /\ Pending(o)' = Pending(o) /\ Rest(o)' = Rest(o)
       /\ \A x \in Rest("pbx")' : x \in Range(s)
  BY <1>1, <1>8, <1>9, <1>11, BegunShape DEF Threads
<1>13. HeadsFirst'
  BY <1>1, <1>3, <1>7, <1>12 DEF HeadsFirst, Threads
<1>14. NotRunning'
  BY <1>1, <1>9, <1>10, <1>12 DEF NotRunning, Threads, BeginsWith
<1>15. Running'
  <2>1. ASSUME talk.running PROVE \A o \in Threads : \A x \in Pending(o)' : Goes(x)
    BY <1>1, <1>3, <1>7, <1>12, <2>1 DEF Running, Threads
  <2>2. QED
    BY <1>9, <2>1 DEF Running
<1>16. DarkAtFirst' /\ Hung'
  BY <1>3, <1>7, <1>9, <1>12 DEF DarkAtFirst, Hung
<1>17. Ended'
  <2>1. SUFFICES ASSUME Idle("phone") PROVE todo'["phone"] = <<>> /\ LeavesPhone'
    BY <1>9 DEF Ended
  <2>2. todo'["phone"] = <<>>
    BY <1>12, <2>1 DEF Idle, Threads
  <2>3. CASE talk.st = "down"
    <3>1. todo'["pbx"] = <<>>
      BY <1>7, <1>8, <2>3
    <3>2. \A q \in Lookers : told'[q].state = "none"
      BY <1>1, <1>9, <1>10, <2>3 DEF DarkAtFirst
    <3>3. QED
      BY <2>2, <3>1, <3>2 DEF LeavesPhone
  <2>4. CASE talk.st # "down"
    <3>1. todo'["pbx"] = <<State(d, "onhook", FALSE)>> /\ talk'.st # "down" /\ ~talk'.conference
      BY <1>6, <1>7, <1>8, <1>9, <2>4
    <3> HIDE DEF d
    <3>2. LeavesPhone'
      BY <1>2, <3>1 DEF LeavesPhone
    <3>3. QED
      BY <2>2, <3>2
  <2>5. QED
    BY <2>3, <2>4
<1>18. Person'
  <2>1. Stored' /\ PeerIsOnePerson'
    BY <1>1, <1>9, <1>10 DEF Person, Stored, PeerIsOnePerson, OnePerson
  <2>2. Sets'
    <3>1. SUFFICES ASSUME ~ghost.partial, NEW o \in Threads, NEW x \in Pending(o)', x.do = "set", ~IsDialled(x)
                   PROVE  \A g \in {"calling", "called"} \cap DOMAIN x.with.parties : Whole(x.with.parties[g])
      BY <1>9 DEF Sets
    <3>2. x \in Pending(o)
      BY <1>3, <1>7, <1>12, <3>1
    <3>3. QED
      BY <1>1, <3>1, <3>2 DEF Person, Sets
  <2>3. QED
    BY <2>1, <2>2 DEF Person
<1>19. QED
  BY <1>12, <1>13, <1>14, <1>15, <1>16, <1>17, <1>18 DEF CallInv, PhasesInv

\* Nothing but the other calls of the phones changes.
LEMMA SameKeeps ==
  ASSUME CallInv, info' = info, talk' = talk, told' = told, todo' = todo, ghost' = ghost,
         DOMAIN busy' = Lookers, \A q \in Lookers : busy'[q] \in {"no", "other", "linked"}
  PROVE  CallInv'
<1>1. Shape' /\ PartyShape'
  BY DEF CallInv, Shape, TalkShape, ScreensShape, InfoShape, TodoShape, PartyShape
<1>2. \A t : Pending(t)' = Pending(t) /\ Rest(t)' = Rest(t)
  BY DEF Pending, Rest
<1>3. HeadsFirst' /\ Running' /\ DarkAtFirst' /\ Hung'
  BY <1>2 DEF CallInv, PhasesInv, HeadsFirst, Running, DarkAtFirst, Hung, Up
<1>4. NotRunning'
  BY <1>2 DEF CallInv, PhasesInv, NotRunning, BeginsWith, Up
<1>5. Ended'
  BY DEF CallInv, PhasesInv, Ended, LeavesPhone, Leaving, Up
<1>6. Person'
  BY <1>2 DEF CallInv, Person, Stored, Sets, PeerIsOnePerson, OnePerson
<1>7. QED
  BY <1>1, <1>3, <1>4, <1>5, <1>6 DEF CallInv, PhasesInv

LEMMA TakesCallKeeps ==
  ASSUME CallInv, NEW q \in Lookers, NEW how \in {"no", "linked"}, TakesCall(q, how)
  PROVE  CallInv'
<1>1. /\ info' = info /\ talk' = talk /\ told' = told /\ todo' = todo /\ ghost' = ghost
      /\ busy' = [busy EXCEPT ![q] = how]
  BY DEF TakesCall
<1>2. DOMAIN busy = Lookers /\ \A p \in Lookers : busy[p] \in {"no", "other", "linked"}
  BY DEF CallInv, Shape, ScreensShape
<1>3. DOMAIN busy' = Lookers /\ \A p \in Lookers : busy'[p] \in {"no", "other", "linked"}
  BY <1>1, <1>2
<1>4. QED
  BY <1>1, <1>3, SameKeeps

\* Every step keeps the invariant.
LEMMA CallInvKept ==
  ASSUME CallInv, [InfoNext]_infoVars
  PROVE  CallInv'
<1>1. ASSUME NEW t \in Threads, Do(t) PROVE CallInv'
  BY <1>1, DoKeeps
<1>2. ASSUME NEW S, HandlerFits("pbx", S) \/ HandlerFits("phone", S) PROVE CallInv'
  BY <1>2, HandlerKeeps DEF Threads
<1>3. ASSUME NEW n \in {0, 1}, Ring(n) \/ SetPresentation(n) PROVE CallInv'
  BY <1>2, <1>3, RingFits, SetPresentationFits, SetPresentationKeeps
<1>4. ASSUME NEW s \in {"ringout", "proceed", "progress", "congestion", "connected"}, Indicated(s) PROVE CallInv'
  BY <1>2, <1>4, IndicatedFits
<1>5. ASSUME NEW who \in Callers, NEW orig \in Callers \cup {NoParty}, NEW transfer \in BOOLEAN, NEW parker \in BOOLEAN,
             ConnectedLine(who, orig, transfer, parker)
      PROVE  CallInv'
  BY <1>2, <1>5, ConnectedLineFits
<1>6. ASSUME NEW who, RedirectedUpdate(who) \/ AnsweredElsewhere(who) PROVE CallInv'
  BY <1>2, <1>6, RedirectedFits, AnsweredElsewhereFits
<1>7. ASSUME NEW who, NEW answer, PickUp(who, answer) PROVE CallInv'
  BY <1>7, PickUpKeeps
<1>8. ASSUME NEW p \in Lookers, Answer(p) \/ Resume(p) PROVE CallInv'
  BY <1>2, <1>8, AnswerFits, ResumeFits
<1>9. ASSUME NEW q \in Lookers, NEW how \in {"no", "linked"}, TakesCall(q, how) PROVE CallInv'
  BY <1>9, TakesCallKeeps
<1>10. ASSUME NEW private, Dial(private) PROVE CallInv'
  BY <1>10, DialKeeps
<1>11. ASSUME CallPark \/ Hold \/ PbxHangup \/ OffHook PROVE CallInv'
  BY <1>2, <1>11, CallParkFits, HoldFits, HangupKeeps, OffHookKeeps
<1>12. ASSUME AnswerCompletion \/ TransferKey \/ JoinConference \/ TransferSource \/ TransferDestination PROVE CallInv'
  BY <1>2, <1>12, AnswerCompletionFits, TransferKeyFits, JoinFits, TransferSourceFits, TransferDestinationFits
<1>13. ASSUME UNCHANGED infoVars PROVE CallInv'
  <2>1. info' = info /\ talk' = talk /\ told' = told /\ todo' = todo /\ ghost' = ghost /\ busy' = busy
    BY <1>13 DEF infoVars
  <2>2. DOMAIN busy' = Lookers /\ \A p \in Lookers : busy'[p] \in {"no", "other", "linked"}
    BY <2>1 DEF CallInv, Shape, ScreensShape
  <2>3. QED
    BY <2>1, <2>2, SameKeeps
<1>14. QED
  BY <1>1, <1>3, <1>4, <1>5, <1>6, <1>7, <1>8, <1>9, <1>10, <1>11, <1>12, <1>13 DEF InfoNext

-----------------------------------------------------------------------------
(* The beginning, and the theorems *)

\* The first parties are whole.
LEMMA WholeAtFirst ==
  /\ \A who \in Callers \cup {NoParty} : Whole(Mixed([name |-> Blank, number |-> Blank], who))
  /\ Whole(Mixed([name |-> Blank, number |-> Blank], Us)) /\ Whole([name |-> Blank, number |-> Blank])
  /\ Whole(Mixed([name |-> Blank, number |-> Blank], Party("them")))
<1> DEFINE b == [name |-> Blank, number |-> Blank]
<1>1. Blank # Null /\ b.name = Blank /\ b.number = Blank
  BY DEF Blank, Null
<1>2. ASSUME NEW p, p # Nobody PROVE Whole(Mixed(b, Party(p)))
  BY <1>1 DEF Whole, Mixed, Merge, Party, OnePerson, Null, Blank
<1>3. Whole(b)
  BY <1>1 DEF Whole, OnePerson
<1>4. Mixed(b, NoParty) = b
  BY DEF Mixed, Merge, NoParty, Null, Blank
<1>5. ASSUME NEW who \in Callers PROVE Whole(Mixed(b, who))
  <2>1. /\ who.number = <<who.number[1], "number">>
        /\ who.name = <<who.number[1], "name">> \/ who.name = Null
    <3>1. /\ who = [name |-> who.name, number |-> <<who.number[1], "number">>]
          /\ who.name \in {<<who.number[1], "name">>, Null}
      BY CallersAssumption
    <3>2. who.number = [name |-> who.name, number |-> <<who.number[1], "number">>].number
      BY ONLY <3>1, Zenon
    <3>3. QED
      BY <3>1, <3>2
  <2>2. who.number # Null
    <3>1. <<who.number[1], "number">>[2] = "number" /\ Null[2] = "NULL"
      BY DEF Null
    <3>2. QED
      BY <2>1, <3>1
  <2>3. Mixed(b, who).number = who.number
    BY <2>2 DEF Mixed, Merge
  <2>4. CASE who.name = Null
    <3>1. Mixed(b, who).name = Blank
      BY <1>1, <2>4 DEF Mixed, Merge
    <3>2. QED
      BY <1>1, <2>2, <2>3, <3>1 DEF Whole, OnePerson
  <2>5. CASE who.name # Null /\ who.name = <<who.number[1], "name">>
    <3>1. Mixed(b, who).name = who.name
      BY <2>5 DEF Mixed, Merge
    <3>2. <<who.number[1], "name">>[1] = who.number[1]
      OBVIOUS
    <3>3. who.name[1] = who.number[1]
      BY <2>5, <3>2
    <3>4. QED
      BY <2>2, <2>3, <2>5, <3>1, <3>3 DEF Whole, OnePerson
  <2>6. QED
    BY <2>1, <2>4, <2>5
<1>6. Us = Party("us") /\ "us" # Nobody /\ "them" # Nobody
  BY DEF Us, Nobody
<1>7. QED
  BY <1>2, <1>3, <1>4, <1>5, <1>6

\* The parties of a new call (sccp_pbx_channel_allocate, sccp_requestChannel).
LEMMA AllocatedParties ==
  /\ \A type \in {"in", "out", "forward"} :
       /\ DOMAIN Allocated(type) = InfoFields /\ DOMAIN Allocated(type).party = Groups
       /\ \A g \in {"calling", "called"} : Whole(Allocated(type).party[g])
  /\ \A type \in {"out", "forward"} : Allocated(type).party["called"].name = Blank
  /\ \A who \in Callers \cup {NoParty, Party("them")} : \A orig :
       /\ DOMAIN Requested(who, orig) = InfoFields /\ DOMAIN Requested(who, orig).party = Groups
       /\ \A g \in {"calling", "called"} : Whole(Requested(who, orig).party[g])
<1> DEFINE b == [name |-> Blank, number |-> Blank]
<1>1. /\ DOMAIN Constructed = InfoFields /\ DOMAIN Constructed.party = Groups
      /\ \A g \in Groups : Constructed.party[g] = b
  BY DEF Constructed, InfoFields
<1>2. "calling" \in Groups /\ "called" \in Groups
  BY DEF Groups
<1>3. /\ Whole(b) /\ Whole(Mixed(b, Us))
      /\ \A who \in Callers \cup {NoParty, Party("them")} : Whole(Mixed(b, who))
  BY WholeAtFirst
<1> DEFINE i == Update([called |-> Us])
           o == Because([calling |-> Us, redirecting |-> Us], Keep, 0)
           f == Because([calling |-> Us, redirecting |-> Us], Keep, 4)
<1>4. DOMAIN i.parties = {"called"} /\ i.parties["called"] = Us
  BY DEF Update, Because
<1>5. /\ DOMAIN o.parties = {"calling", "redirecting"} /\ o.parties["calling"] = Us
      /\ DOMAIN f.parties = {"calling", "redirecting"} /\ f.parties["calling"] = Us
  BY DEF Because
<1>6. /\ Allocated("in") = Setter(Constructed, i) /\ Allocated("out") = Setter(Constructed, o)
      /\ Allocated("forward") = Setter(Constructed, f)
  BY DEF Allocated
<1> DEFINE c == Constructed
<1> HIDE DEF i, o, f, b, c
<1>7. /\ DOMAIN Allocated("in") = InfoFields /\ DOMAIN Allocated("in").party = Groups
      /\ Allocated("in").party["calling"] = b /\ Allocated("in").party["called"] = Mixed(b, Us)
  <2>1. \A g \in Groups : Setter(Constructed, i).party[g] =
           IF g \in DOMAIN i.parties THEN Mixed(Constructed.party[g], i.parties[g]) ELSE Constructed.party[g]
    BY <1>1, SetterWrites
  <2>2. DOMAIN Setter(Constructed, i) = InfoFields /\ DOMAIN Setter(Constructed, i).party = Groups
    BY <1>1, SetterWrites
  <2>3. QED
    BY <1>1, <1>2, <1>4, <1>6, <2>1, <2>2
<1>8. ASSUME NEW u, DOMAIN u.parties = {"calling", "redirecting"}, u.parties["calling"] = Us
      PROVE  /\ DOMAIN Setter(Constructed, u) = InfoFields /\ DOMAIN Setter(Constructed, u).party = Groups
             /\ Setter(Constructed, u).party["calling"] = Mixed(b, Us) /\ Setter(Constructed, u).party["called"] = b
  <2>1. \A g \in Groups : Setter(Constructed, u).party[g] =
           IF g \in DOMAIN u.parties THEN Mixed(Constructed.party[g], u.parties[g]) ELSE Constructed.party[g]
    BY <1>1, SetterWrites
  <2>2. DOMAIN Setter(Constructed, u) = InfoFields /\ DOMAIN Setter(Constructed, u).party = Groups
    BY <1>1, SetterWrites
  <2>3. QED
    BY <1>1, <1>2, <1>8, <2>1, <2>2
<1>9. \A type \in {"out", "forward"} :
        /\ DOMAIN Allocated(type) = InfoFields /\ DOMAIN Allocated(type).party = Groups
        /\ Allocated(type).party["calling"] = Mixed(b, Us) /\ Allocated(type).party["called"] = b
  BY <1>5, <1>6, <1>8
<1>10. ASSUME NEW who \in Callers \cup {NoParty, Party("them")}, NEW orig
       PROVE  /\ DOMAIN Requested(who, orig) = InfoFields /\ DOMAIN Requested(who, orig).party = Groups
              /\ Requested(who, orig).party["calling"] = Mixed(b, who)
              /\ Requested(who, orig).party["called"] = Mixed(b, Us)
  <2> DEFINE u == Update([calling |-> who, origCalled |-> orig])
  <2>1. DOMAIN u.parties = {"calling", "origCalled"} /\ u.parties["calling"] = who
    BY DEF Update, Because
  <2>2. Requested(who, orig) = Setter(Allocated("in"), u)
    BY DEF Requested
  <2> HIDE DEF u
  <2>3. \A g \in Groups : Setter(Allocated("in"), u).party[g] =
           IF g \in DOMAIN u.parties THEN Mixed(Allocated("in").party[g], u.parties[g])
           ELSE Allocated("in").party[g]
    BY <1>7, SetterWrites
  <2>4. DOMAIN Setter(Allocated("in"), u) = InfoFields /\ DOMAIN Setter(Allocated("in"), u).party = Groups
    BY <1>7, SetterWrites
  <2>5. QED
    BY <1>2, <1>7, <2>1, <2>2, <2>3, <2>4
<1>11. b.name = Blank
  BY DEF b
<1>12. QED
  BY <1>3, <1>7, <1>9, <1>10, <1>11

LEMMA WholeIsStored ==
  ASSUME \A g \in {"calling", "called"} : Whole(info.party[g])
  PROVE  Stored /\ PeerIsOnePerson
BY DEF Whole, Stored, PeerIsOnePerson

\* Nothing is to be done at first.
LEMMA NothingPending ==
  ASSUME todo = [t \in Threads |-> <<>>]
  PROVE  /\ \A t \in Threads : todo[t] = <<>> /\ Pending(t) = {} /\ Rest(t) = {} /\ IsSteps(todo[t])
         /\ TodoShape
<1>1. \A t \in Threads : todo[t] = <<>> /\ Pending(t) = {} /\ Rest(t) = {} /\ IsSteps(todo[t])
  BY NoSteps DEF Pending, Rest
<1>2. \A t \in Threads : Range(todo[t]) = {}
  BY <1>1 DEF Pending
<1>3. DOMAIN todo = Threads
  OBVIOUS
<1>4. TodoShape
  BY <1>1, <1>2, <1>3 DEF TodoShape
<1>5. QED
  BY <1>1, <1>4

(* The invariant holds of a new call, of one that is placed and of one     *)
(* that was answered.                                                      *)
LEMMA CallBegins == InfoInit => CallInv
<1>1. SUFFICES ASSUME InfoInit PROVE CallInv
  OBVIOUS
<1>2. /\ todo = [t \in Threads |-> <<>>]
      /\ ghost = [late |-> FALSE, crossed |-> FALSE, partial |-> FALSE]
  BY <1>1 DEF InfoInit, InfoStart
<1>3. /\ \A t \in Threads : todo[t] = <<>> /\ Pending(t) = {} /\ Rest(t) = {}
      /\ TodoShape
  BY <1>2, NothingPending
<1>4. DOMAIN ghost = {"late", "crossed", "partial"}
  BY <1>2
<1>5. HeadsFirst /\ Sets
  BY <1>3 DEF HeadsFirst, Sets, Threads
<1>6. "pbx" \in Threads /\ "phone" \in Threads
  BY DEF Threads
<1>7. /\ DOMAIN talk = Fields /\ talk.dev \in Lookers \cup {Nobody} /\ Up /\ talk.why = "normal"
      /\ DOMAIN info = InfoFields /\ DOMAIN info.party = Groups
      /\ \A g \in {"calling", "called"} : Whole(info.party[g])
      /\ ScreensShape
      /\ \/ /\ talk.running /\ talk.type = "in" /\ talk.st = "down" /\ talk.dev = Nobody
            /\ \A q \in Lookers : told[q].state = "none"
         \/ talk.running /\ talk.st = "connected"
         \/ /\ ~talk.running /\ talk.type # "in" /\ talk.dev # Nobody /\ talk.st = "down"
            /\ \A q \in Lookers : told[q].state = "none"
            /\ info.party["called"].name = Blank
  <2>1. DOMAIN NewTalk = Fields
    BY DEF NewTalk, Fields
  <2>2. DOMAIN Dark = {"state", "info"} /\ Dark.state = "none"
    BY DEF Dark
  <2>3. ASSUME NEW who \in Callers \cup {NoParty}, NEW orig, Incoming(who, orig) PROVE <1>7
    <3>1. /\ talk = NewTalk /\ info = Requested(who, orig)
          /\ busy \in [Lookers -> {"no", "other"}] /\ told = [q \in Lookers |-> Dark]
      BY <2>3 DEF Incoming
    <3>2. /\ talk.dev = Nobody /\ Up /\ talk.why = "normal" /\ talk.running /\ talk.type = "in" /\ talk.st = "down"
          /\ DOMAIN talk = Fields
      BY <2>1, <3>1 DEF NewTalk, Up
    <3>3. /\ DOMAIN info = InfoFields /\ DOMAIN info.party = Groups
          /\ \A g \in {"calling", "called"} : Whole(info.party[g])
      BY <3>1, AllocatedParties
    <3>4. ScreensShape /\ \A q \in Lookers : told[q].state = "none"
      BY <2>2, <3>1 DEF ScreensShape
    <3>5. QED
      BY <3>2, <3>3, <3>4
  <2>4. ASSUME NEW type \in {"out", "forward"}, NEW p \in Lookers, Outgoing(type, p) PROVE <1>7
    <3>1. /\ talk = [NewTalk EXCEPT !.type = type, !.dev = p, !.running = FALSE]
          /\ info = Allocated(type)
          /\ busy = [q \in Lookers |-> "no"] /\ told = [q \in Lookers |-> Dark]
      BY <2>4 DEF Outgoing
    <3>2. /\ talk.dev = p /\ Up /\ talk.why = "normal" /\ ~talk.running /\ talk.type = type /\ talk.st = "down"
          /\ DOMAIN talk = Fields
      BY <2>1, <3>1 DEF NewTalk, Up
    <3>3. /\ DOMAIN info = InfoFields /\ DOMAIN info.party = Groups
          /\ \A g \in {"calling", "called"} : Whole(info.party[g])
          /\ info.party["called"].name = Blank
      BY <3>1, AllocatedParties
    <3>4. ScreensShape /\ \A q \in Lookers : told[q].state = "none"
      BY <2>2, <3>1 DEF ScreensShape
    <3>5. p # Nobody
      BY TheLookers
    <3>6. QED
      BY <3>2, <3>3, <3>4, <3>5
  <2>5. ASSUME NEW p \in Lookers, Answered(Party("them"), p) PROVE <1>7
    <3> DEFINE r == Requested(Party("them"), NoParty)
    <3>1. /\ talk = [NewTalk EXCEPT !.st = "connected", !.prev = "ringing", !.dev = p, !.called = TRUE]
          /\ info = [r EXCEPT !.changed = FALSE]
          /\ busy = [q \in Lookers |-> "no"]
          /\ told = [q \in Lookers |->
                        IF q = p THEN [state |-> "connected", info |-> Carried(p, info)]
                        ELSE [state |-> "remote", info |-> Carried(q, info)]]
      BY <2>5 DEF Answered
    <3>2. /\ talk.dev = p /\ Up /\ talk.why = "normal" /\ talk.running /\ talk.st = "connected"
          /\ DOMAIN talk = Fields
      BY <2>1, <3>1 DEF NewTalk, Up
    <3>3. /\ DOMAIN r = InfoFields /\ DOMAIN r.party = Groups
          /\ \A g \in {"calling", "called"} : Whole(r.party[g])
      BY AllocatedParties
    <3> HIDE DEF r
    <3>4. /\ DOMAIN info = InfoFields /\ info.party = r.party
      BY <3>1, <3>3 DEF InfoFields
    <3>5. ScreensShape
      BY <3>1 DEF ScreensShape
    <3>6. QED
      BY <3>2, <3>3, <3>4, <3>5
  <2>6. QED
    BY <1>1, <2>3, <2>4, <2>5 DEF InfoInit
<1>8. Shape /\ PartyShape
  BY <1>3, <1>4, <1>7 DEF Shape, TalkShape, InfoShape, InfoFields, PartyShape
<1>9. NotRunning
  BY <1>3, <1>6, <1>7 DEF NotRunning
<1>10. Running
  BY <1>3, <1>6, <1>7 DEF Running
<1>11. DarkAtFirst /\ Hung /\ Ended
  BY <1>7 DEF DarkAtFirst, Hung, Ended
<1>12. Person
  BY <1>5, <1>7, WholeIsStored DEF Person
<1>13. QED
  BY <1>5, <1>8, <1>9, <1>10, <1>11, <1>12 DEF CallInv, PhasesInv

(* The inductive invariant of a call's parties and displays: which steps a *)
(* thread may still have in each phase of the call, what a phone may show  *)
(* in it, and that the parties are whole.                                  *)
THEOREM CallIsWhole == InfoSpec => []CallInv
<1>1. InfoInit => CallInv
  BY CallBegins
<1>2. CallInv /\ [InfoNext]_infoVars => CallInv'
  BY CallInvKept
<1>3. QED
  BY <1>1, <1>2, PTL DEF InfoSpec

(* The name and the number of either party are one person's at every step, *)
(* for any number of handlers of Asterisk and the phones in any order, as  *)
(* long as Asterisk named both (sccp_astwrap_connectedline).               *)
THEOREM PartiesArePersons == InfoSpec => []PeerIsOnePerson
<1>1. CallInv => PeerIsOnePerson
  BY DEF CallInv, Person
<1>2. QED
  BY <1>1, CallIsWhole, PTL

(* A call that has ended is shown on no phone of the line, however many    *)
(* share it and whatever was told to them before (sccp_pbx_hangup,         *)
(* __sccp_indicate_remote_device).                                         *)
THEOREM EndedCallsAreGone == InfoSpec => []EndedIsGone
<1>1. CallInv => EndedIsGone
  <2>1. SUFFICES ASSUME CallInv, Quiet, ~Up, ~ghost.crossed PROVE \A q \in Lookers : told[q].state = "none"
    BY DEF EndedIsGone
  <2>2. LeavesPhone
    BY <2>1 DEF CallInv, PhasesInv, Ended
  <2>3. todo["pbx"] = <<>>
    BY <2>1 DEF Quiet, Idle, Threads
  <2>4. CASE \E d \in Lookers :
               /\ ~talk.conference
               /\ \/ todo["pbx"] = <<State(d, "onhook", FALSE)>> /\ talk.st # "down"
                  \/ Leaving(d)
                  \/ /\ todo["pbx"] = <<OtherPhones(d, "onhook", FALSE)>> /\ told[d].state = "none"
                     /\ talk.st = "down" /\ talk.prev # "down"
    <3>1. PICK d \in Lookers :
               \/ todo["pbx"] = <<State(d, "onhook", FALSE)>>
               \/ Leaving(d)
               \/ todo["pbx"] = <<OtherPhones(d, "onhook", FALSE)>>
      BY <2>4
    <3>2. \A x : <<x>> # <<>>
      OBVIOUS
    <3>3. Leaving(d)
      BY <2>3, <3>1, <3>2
    <3>4. PICK s \in {<<>>, <<Sent>>, <<Send(d, TRUE)>>} :
             todo["pbx"] = s \o <<Show(d, "none"), OtherPhones(d, "onhook", FALSE)>>
      BY <3>3 DEF Leaving
    <3>5. IsSteps(s) /\ IsSteps(<<Show(d, "none"), OtherPhones(d, "onhook", FALSE)>>)
      BY <3>4, NoSteps, SingleSteps, TwoSteps
    <3>6. Range(todo["pbx"]) = Range(s) \cup Range(<<Show(d, "none"), OtherPhones(d, "onhook", FALSE)>>)
      BY <3>4, <3>5, JoinedSteps
    <3>7. Show(d, "none") \in Range(todo["pbx"])
      BY <3>6, TwoSteps
    <3>8. QED
      BY <2>3, <3>7, NoSteps
  <2>5. QED
    BY <2>2, <2>4 DEF LeavesPhone
<1>2. QED
  BY <1>1, CallIsWhole, PTL
=============================================================================
