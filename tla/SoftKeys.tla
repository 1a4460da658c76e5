----------------------------- MODULE SoftKeys -----------------------------
(***************************************************************************)
(* The soft keys of a phone: the sets the file describes                   *)
(* (sccp_config_softKeySet), the one the phone is given                    *)
(* (handle_soft_key_set_req), the bits that switch single keys on and off  *)
(* (sccp_softkey_setSoftkeyState), the mode that is shown                  *)
(* (sccp_dev_set_keyset), and the reload that frees all sets and reads     *)
(* them anew while the phones go on.                                       *)
(*                                                                         *)
(* A bit belongs to a place, a wish to a label; the set says which label   *)
(* is at which place.  What the keys do is Calls, Features and Conference. *)
(***************************************************************************)
EXTENDS Naturals, Sequences, FiniteSets, SequencesExt

CONSTANTS
  Labels,        \* the labels of softkeysmap that are used
  LeftOut,       \* the labels of features that are not compiled in
  KeyModes,      \* the modes of a phone that are used, "ONHOOK", "CONNECTED", ...
  Stealable,     \* the modes that KEYMODE_ONHOOKSTEALABLE does not precede
  KeyFiles,      \* the soft key sections of the files: sequences of sections
  DefaultKeys,   \* the built-in set: the keys of every mode
  KeySetNames,   \* what a phone's section may name as its set
  MostKeys,      \* StationMaxSoftKeySetDefinition
  KeyReloads,    \* bound: reloads
  KeySteps       \* bound: what happens to the phone and its calls

VARIABLES
  file,     \* the file now on disk
  sets,     \* the sets loaded: name to the keys of every mode and the redefined labels
  reading,  \* how far a reload has come
  unit,     \* the phone: its set, what its calls and settings are
  mask,     \* the places that are switched off, in every mode
  screen,   \* what the phone was told: the labels at their places; its mode
  said,     \* history: what was last said of a label in a mode
  apart     \* history: the keys moved under bits already set, or bits were lost

keyVars == <<file, sets, reading, unit, mask, screen, said, apart>>

NoKeys == [m \in KeyModes |-> <<>>]
NoSet == "none"
Gap == "gap"

----------------------------------------------------------------------------
\* Reading the sets.

\* sccp_config_readSoftKeySet: a feature that is not compiled in has no place, a
\* word that is no label an empty one; one less than fit are kept.
ReadKeys(text) ==
  LET known == SelectSeq(text, LAMBDA l : l \notin LeftOut)
  IN  [p \in 1..(IF Len(known) < MostKeys THEN Len(known) ELSE MostKeys - 1) |->
         IF known[p] \in Labels THEN known[p] ELSE Gap]

\* The keys a mode has after a section's lines; a later line replaces an earlier
\* one, and one without keys leaves the mode without.
ModeAfter(s, m) ==
  LET at == SelectInSeq(Reverse(s.lines), LAMBDA l : l.mode = m)
  IN  ReadKeys(Reverse(s.lines)[at].keys)

\* sccp_config_softKeySet: a section adds to the set of its name or makes it.
KeySection(known, s) ==
  LET before == IF s.name \in DOMAIN known THEN known[s.name] ELSE [keys |-> NoKeys, uri |-> {}]
      named == {s.lines[i].mode : i \in 1..Len(s.lines)}
  IN  [n \in DOMAIN known \cup {s.name} |->
         IF n # s.name THEN known[n]
         ELSE [keys |-> [m \in KeyModes |-> IF m \in named THEN ModeAfter(s, m) ELSE before.keys[m]],
               uri |-> before.uri \cup s.uri]]

\* sccp_config_readDevicesLines: the sections in their order, [default] passed
\* over, and the built-in set at the end.
SetsUpTo(f, n) ==
  LET made[i \in 0..Len(f)] ==
        IF i = 0 THEN [x \in {} |-> x]
        ELSE IF f[i].name = "default" THEN made[i - 1] ELSE KeySection(made[i - 1], f[i])
  IN  made[n]

WithDefault(known) ==
  [n \in DOMAIN known \cup {"default"} |->
     IF n = "default" THEN [keys |-> DefaultKeys, uri |-> {}] ELSE known[n]]

----------------------------------------------------------------------------
\* The bits.

\* The places of labels among the keys of a mode.
Places(keys, labels) == {p \in DOMAIN keys : keys[p] \in labels}

\* sccp_softkey_setSoftkeyState, for the labels that are switched on and those
\* that are switched off in mode m: a phone without a set is passed over.
Switched(b, keys, m, on, off) ==
  [b EXCEPT ![m] = (@ \cup Places(keys[m], off)) \ Places(keys[m], on)]

Switch(m, on, off) ==
  IF unit.set = NoSet THEN mask ELSE Switched(mask, unit.keys, m, on, off)

Saying(s, m, on, off) == [s EXCEPT ![m] = (@ \cup off) \ on]

\* What is said while the phone has no set is lost.
Lost(on, off) == unit.set = NoSet /\ unit.shows /\ on \cup off # {}

----------------------------------------------------------------------------
\* The phone asks for its keys.

\* Mutant: the keys behind one that is not granted move up.
MPlaced(keys) == [m \in KeyModes |-> SelectSeq(keys[m], LAMBDA l : l \in unit.granted)]

\* The labels a phone's settings or lines do not grant leave a gap: their place
\* is counted all the same (handle_soft_key_set_req).
Placed(keys) ==
  [m \in KeyModes |-> [p \in DOMAIN keys[m] |->
     IF keys[m][p] \in unit.granted THEN keys[m][p] ELSE Gap]]

\* The phone's set, or the built-in one; none while a reload has removed them.
FoundSet ==
  CASE unit.wish \in DOMAIN sets -> unit.wish
    [] unit.wish \notin DOMAIN sets /\ "default" \in DOMAIN sets -> "default"
    [] OTHER -> NoSet

\* sccp_handle_soft_key_template_req and handle_soft_key_set_req: the phone is
\* told the labels and the sets; joining and video start switched off, except
\* where a call may be taken over.
KeySetReq ==
  /\ LET found == FoundSet
         keys == IF found = NoSet THEN NoKeys ELSE sets[found].keys
         some == KeyModes \ Stealable
         off == {"VIDEO_MODE", "JOIN"}
     IN  /\ unit' = [unit EXCEPT !.set = found, !.keys = keys, !.shows = TRUE,
                                 !.last = keys, !.between = (reading # "no"),
                                 !.uri = IF found = NoSet THEN {} ELSE sets[found].uri]
         /\ screen' = [screen EXCEPT !.keys = Placed(keys), !.mode = "none"]
         /\ mask' = [m \in KeyModes |->
                       IF m \in some /\ found # NoSet THEN Switched(mask, keys, m, {}, off)[m] ELSE mask[m]]
         /\ said' = [m \in KeyModes |->
                       IF m \in some /\ found # NoSet THEN Saying(said, m, {}, off)[m] ELSE said[m]]
         /\ apart' = (apart \/ reading # "no"
                      \/ (keys # unit.last /\ \E m \in KeyModes : said[m] # {}))
  /\ UNCHANGED <<file, sets, reading>>

----------------------------------------------------------------------------
\* A mode is shown.

\* sccp_dev_set_keyset: the connected mode depends on what else is going on.
\* The small models keep their own modes for a transfer.
ModeFor(m) ==
  IF unit.small
  THEN CASE unit.transfer = "asking" /\ m = "OFFHOOK" -> "OFFHOOKFEAT"
         [] unit.transfer = "calling" /\ m \in {"RINGOUT", "CONNECTED"} -> "CONNTRANS"
         [] OTHER -> m
  ELSE IF m # "CONNECTED" THEN m
  ELSE IF unit.conference THEN "CONNCONF"
  ELSE IF unit.transfer # "never" THEN "CONNTRANS"
  ELSE m

Fresh == {"ONHOOK", "OFFHOOK", "OFFHOOKFEAT"}
Talking == {"CONNTRANS", "CONNECTED", "EMPTY"}

\* The labels that go on and off with the mode.
OnFor(m) ==
  (IF m \in Fresh /\ unit.redial THEN {"REDIAL"} ELSE {})
  \cup (IF unit.mayConfer THEN {"CONFLIST", IF unit.conference THEN "JOIN" ELSE "CONFRN"} ELSE {})
  \cup (IF m = "RINGOUT" /\ unit.transfer = "calling" THEN {"TRANSFER"} ELSE {})

OffFor(m) ==
  ((IF m \in Fresh THEN {"REDIAL"} ELSE {})
   \cup {"CONFRN", "JOIN", "CONFLIST"}
   \cup (IF m \notin Talking THEN {"MONITOR"} ELSE {})
   \cup (IF m = "RINGOUT" THEN {"TRANSFER"} ELSE {})) \ OnFor(m)

SetKeyset(asked) ==
  /\ unit.shows /\ unit.steps < KeySteps /\ ModeFor(asked) \in KeyModes
  /\ LET m == ModeFor(asked)
     IN  /\ mask' = Switch(m, OnFor(m), OffFor(m))
         /\ said' = Saying(said, m, OnFor(m), OffFor(m))
         /\ apart' = (apart \/ Lost(OnFor(m), OffFor(m)))
         /\ screen' = [screen EXCEPT !.mode = m]
  /\ unit' = [unit EXCEPT !.steps = @ + 1]
  /\ UNCHANGED <<file, sets, reading>>

\* The calls of others that switch a key: the video capabilities
\* (handle_updatecapabilities_message), the number last dialled
\* (sccp_device_setLastNumberDialed), a private call (sccp_sk_private).
Says(modes, on, off) ==
  /\ mask' = [m \in KeyModes |-> IF m \in modes THEN Switch(m, on, off)[m] ELSE mask[m]]
  /\ said' = [m \in KeyModes |-> IF m \in modes THEN Saying(said, m, on, off)[m] ELSE said[m]]
  /\ apart' = (apart \/ Lost(on, off))
  /\ UNCHANGED <<file, sets, reading, screen>>

VideoFound(yes) ==
  /\ unit.shows /\ unit.steps < KeySteps
  /\ Says({"CONNTRANS", "CONNECTED"}, IF yes THEN {"VIDEO_MODE"} ELSE {}, IF yes THEN {} ELSE {"VIDEO_MODE"})
  /\ unit' = [unit EXCEPT !.steps = @ + 1]

Dialled ==
  /\ unit.shows /\ ~unit.redial /\ unit.steps < KeySteps
  /\ Says(Fresh \cup {"ONHOOKSTEALABLE"}, {"REDIAL"}, {})
  /\ unit' = [unit EXCEPT !.redial = TRUE, !.steps = @ + 1]

\* A conference, or a transfer, begins and ends with the phone's calls.
Conferring ==
  /\ unit.mayConfer /\ unit.steps < KeySteps
  /\ unit' = [unit EXCEPT !.conference = ~@, !.steps = @ + 1]
  /\ UNCHANGED <<file, sets, reading, mask, screen, said, apart>>

Transferring(t) ==
  /\ unit.transfer # "never" /\ t # unit.transfer /\ unit.steps < KeySteps
  /\ unit' = [unit EXCEPT !.transfer = t, !.steps = @ + 1]
  /\ UNCHANGED <<file, sets, reading, mask, screen, said, apart>>

----------------------------------------------------------------------------
\* A reload.

\* Mutant: the phones keep their sets.
MKeysPreReload(f) ==
  /\ reading = "no" /\ unit.reloads < KeyReloads
  /\ file' = f /\ reading' = "freed next"
  /\ unit' = [unit EXCEPT !.reloads = @ + 1]
  /\ UNCHANGED <<sets, mask, screen, said, apart>>

\* sccp_device_pre_reload: the phones let go of their sets.
KeysPreReload(f) ==
  /\ reading = "no" /\ unit.reloads < KeyReloads
  /\ file' = f /\ reading' = "freed next"
  /\ unit' = [unit EXCEPT !.set = NoSet, !.keys = NoKeys, !.uri = {}, !.reloads = @ + 1]
  /\ UNCHANGED <<sets, mask, screen, said, apart>>

\* sccp_softkey_clear: every set is freed.
KeysClear ==
  /\ reading = "freed next"
  /\ sets' = [x \in {} |-> x] /\ reading' = "freed"
  /\ UNCHANGED <<file, unit, mask, screen, said, apart>>

\* sccp_config_softKeySet for every section, and then for the built-in set.
KeysRead ==
  /\ reading = "freed"
  /\ sets' = WithDefault(SetsUpTo(file, Len(file))) /\ reading' = "read"
  /\ UNCHANGED <<file, unit, mask, screen, said, apart>>

\* sccp_softkey_post_reload: a phone gets the set it names, and only that.
KeysPostReload ==
  /\ reading = "read" /\ reading' = "no"
  /\ LET found == unit.wish \in DOMAIN sets
         keys == IF found THEN sets[unit.wish].keys ELSE NoKeys
     IN  /\ unit' = IF found
                    THEN [unit EXCEPT !.set = unit.wish, !.keys = keys, !.last = keys, !.between = FALSE,
                                      !.uri = sets[unit.wish].uri]
                    ELSE unit
         /\ apart' = (apart \/ (found /\ unit.shows /\ keys # unit.last))
  /\ UNCHANGED <<file, sets, mask, screen, said>>

----------------------------------------------------------------------------
AnyUnit ==
  [wish : KeySetNames, set : {NoSet}, keys : {NoKeys}, last : {NoKeys}, uri : {{}}, between : {FALSE},
   shows : {FALSE}, granted : {Labels, Labels \ {"TRANSFER"}}, small : BOOLEAN,
   conference : {FALSE}, mayConfer : BOOLEAN, transfer : {"never", "no"},
   redial : {FALSE}, reloads : {0}, steps : {0}]

\* No phone and no file.
KeysIdle ==
  /\ file = <<>> /\ sets = [x \in {} |-> x] /\ reading = "no"
  /\ mask = [m \in KeyModes |-> {}] /\ said = [m \in KeyModes |-> {}]
  /\ screen = [keys |-> NoKeys, mode |-> "none"]
  /\ apart = FALSE
  /\ unit = (CHOOSE u \in AnyUnit : TRUE)

\* A phone that has not asked for its keys; its bits are all on (sccp_device_create).
KeysInit ==
  /\ file \in KeyFiles /\ sets = WithDefault(SetsUpTo(file, Len(file))) /\ reading = "no"
  /\ mask = [m \in KeyModes |-> {}] /\ said = [m \in KeyModes |-> {}]
  /\ screen = [keys |-> NoKeys, mode |-> "none"]
  /\ apart = FALSE
  /\ unit \in AnyUnit

KeysNext ==
  \/ KeySetReq
  \/ \E m \in KeyModes : SetKeyset(m)
  \/ \E yes \in BOOLEAN : VideoFound(yes)
  \/ Dialled
  \/ Conferring
  \/ \E t \in {"no", "asking", "calling"} : Transferring(t)
  \/ \E f \in KeyFiles : KeysPreReload(f)
  \/ KeysClear
  \/ KeysRead
  \/ KeysPostReload

KeysSpec == KeysInit /\ [][KeysNext]_keyVars

----------------------------------------------------------------------------
(***************************************************************************)
(* A key the phone was given is switched off exactly when that was the     *)
(* last that was said of its label in this mode: the places of the set     *)
(* told to the phone (handle_soft_key_set_req, with its gaps), the places  *)
(* of the set the bits are found by (sccp_softkey_setSoftkeyState) and the *)
(* bits that were left from before agree.  It holds as long as no reload   *)
(* moves the keys under bits already set or takes the phone's set away.    *)
(***************************************************************************)
OffersAsSaid ==
  ~apart =>
    \A m \in KeyModes : \A p \in DOMAIN screen.keys[m] :
      screen.keys[m][p] # Gap => ((p \in mask[m]) <=> (screen.keys[m][p] \in said[m]))

(***************************************************************************)
(* Outside a reload, the keys and the redefined labels a phone works with  *)
(* are those of a set that is loaded: freeing the sets                     *)
(* (sccp_softkey_clear) leaves no phone with a set that is gone, unless it *)
(* asked for its keys in the middle of the reload and names no set.        *)
(***************************************************************************)
SetIsLoaded ==
  (reading = "no" /\ unit.set # NoSet /\ ~unit.between) =>
    /\ unit.set \in DOMAIN sets
    /\ unit.keys = sets[unit.set].keys /\ unit.uri = sets[unit.set].uri
=============================================================================
