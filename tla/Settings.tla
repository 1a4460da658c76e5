------------------------------ MODULE Settings ------------------------------
(***************************************************************************)
(* How sccp.conf becomes the settings in memory, and what a reload of it   *)
(* does (sccp_config.c): the sections are read entry by entry              *)
(* (sccp_config_object_setValue), what is left is taken from [general] or  *)
(* from the built-in defaults (sccp_config_set_defaults), and a change of  *)
(* an option that the phone must know of asks for a restart, which waits   *)
(* for the phone's call to end.                                            *)
(*                                                                         *)
(* One field, with the options that write to it, is followed at a time:    *)
(* fields do not touch each other.  A text of the file is a word; what it  *)
(* means to the converters is given by Number, Cut, Length, Numbers and    *)
(* Known; words that differ in capitals only are one.                      *)
(***************************************************************************)
EXTENDS Naturals, Sequences, FiniteSets, SequencesExt

CONSTANTS
  Items,        \* the fields: [global, own: their options; zero: the value before any load]
  Number,       \* the words that are numbers, and the number
  Cut,          \* a word cut to the size of its field
  Length,       \* how long a word is, in characters
  Numbers,      \* the numbers a group word lists
  Known,        \* the words an enumeration or a table of names knows
  Without,      \* a button without what checkButton passes over
  KeptWords,    \* the texts of the file: option name to words
  LeastAlive,   \* SCCP_MIN_KEEPALIVE
  MostGeneral, MostOwn,  \* bounds: entries of [general] and of the object's section
  Edits,        \* bound: times the file is edited
  Loads         \* bound: reloads

VARIABLES
  item,     \* the field followed
  disk,     \* the file: its state, the entries of [general] and of the object's section
  loaded,   \* GLOB(cfg): the entries last read
  global,   \* the value in [general]'s object, and whether its load asks for a restart
  own,      \* the value in the device's or line's object, and whether ...
  running,  \* what the phone was started with: the two values
  step,     \* how far a reload has come: "no", "begun", "general"
  due,      \* pendingUpdate, a call; history: a value set by hand, a restart forgotten
  counts    \* edits and reloads so far

setVars == <<item, disk, loaded, global, own, running, step, due, counts>>

None == <<>>

----------------------------------------------------------------------------
\* What a converter says of a text: the new value of the field, and
\* SCCP_CONFIG_CHANGE_*.

Same(f) == [field |-> f, says |-> "same"]
Invalid(f) == [field |-> f, says |-> "invalid"]

Stored(f, part, v) ==
  IF f[part] = v THEN Same(f) ELSE [field |-> [f EXCEPT ![part] = v], says |-> "changed"]

Meaning(t) == IF t = "" THEN "no" ELSE t

\* The types of sccp_config_object_setValue that convert themselves.
StringValue(f, p, t) == Stored(f, p, Cut[t])

NumberOf(t) == IF t = "" THEN Number["0"] ELSE Number[t]

\* An int8 or uint8 is compared before it is cut to its width.
NumberValue(f, p, t, width) ==
  IF t # "" /\ t \notin DOMAIN Number THEN Same(f)
  ELSE IF f[p] = NumberOf(t) THEN Same(f)
  ELSE [field |-> [f EXCEPT ![p] = NumberOf(t) % width], says |-> "changed"]

BooleanValue(f, p, t) ==
  IF Meaning(t) \in {"yes", "no"} THEN Stored(f, p, Meaning(t)) ELSE Invalid(f)

EnumValue(f, p, t) == IF t \in Known THEN Stored(f, p, t) ELSE Invalid(f)

\* The converters.
AddressValue(f, t) ==
  LET a == IF t = "" THEN "any" ELSE t
  IN  IF a \notin Known THEN Invalid(f)
      ELSE IF f["address"] = a THEN Same(f)
      ELSE [field |-> [f EXCEPT !["address"] = a, !["port"] = 0], says |-> "changed"]

PortValue(f, t) == IF t \in DOMAIN Number THEN Stored(f, "port", Number[t]) ELSE Invalid(f)

PrivacyValue(f, p, t) ==
  IF Meaning(t) \in {"full", "yes", "no"} THEN Stored(f, p, Meaning(t)) ELSE Invalid(f)

\* A word that is no type of service counts as 0x68, and as a change unless it
\* was that before.
TosValue(f, p, t) ==
  IF t \in Known THEN Stored(f, p, t)
  ELSE IF f[p] = "0x68" THEN Invalid(f) ELSE Stored(f, p, "0x68")

CosValue(f, p, t) ==
  IF t \in DOMAIN Number /\ Number[t] <= 7 THEN Stored(f, p, Number[t])
  ELSE IF t \in DOMAIN Number THEN Invalid(f) ELSE Stored(f, p, 0)

AmaValue(f, p, t) == IF t = "" THEN Same(f) ELSE Stored(f, p, IF t \in Known THEN t ELSE "none")

\* Nine digits are let through and eight are copied.
DigitsValue(f, p, t) == IF Length[t] > 9 THEN Invalid(f) ELSE IF f[p] = t THEN Same(f)
                       ELSE [field |-> [f EXCEPT ![p] = Cut[t]], says |-> "changed"]

GroupValue(f, p, t) == Stored(f, p, Numbers[t] \cap 0..63)

ContextValue(f, p, t) == IF t = "" THEN Invalid(f) ELSE Stored(f, p, t)

HotlineValue(f, p, t) == Stored(f, p, t)

JbFlagValue(f, p, t) == Stored(f, p, IF t = "yes" THEN "yes" ELSE "no")
JbNumberValue(f, p, t) == Stored(f, p, IF t \in DOMAIN Number THEN Number[t] ELSE 0)

\* A directory that is not there empties the field.
WebdirValue(f, p, t) ==
  LET d == IF t = "" THEN "static" ELSE t
  IN  IF d = f[p] THEN Same(f)
      ELSE IF d \in Known THEN Stored(f, p, d)
      ELSE [field |-> [f EXCEPT ![p] = ""], says |-> "invalid"]

EarlyRtpValue(f, p, t) == Stored(f, p, IF t \in {"no", "none"} THEN "no" ELSE "yes")

\* The converters that take all entries of their option.
Texts(es) == [i \in DOMAIN es |-> es[i].text]
Words(es) == SelectSeq(Texts(es), LAMBDA t : t # "")

DebugValue(f, p, es) == Stored(f, p, ToSet(Words(es)))

\* "disallow" removes, "allow" adds behind; a codec nobody knows spoils the list.
CodecsValue(f, p, es) ==
  LET after[i \in 0..Len(es)] ==
        IF i = 0 THEN <<>>
        ELSE IF es[i].key = "disallow"
             THEN IF es[i].text = "all" THEN <<>> ELSE SelectSeq(after[i - 1], LAMBDA c : c # es[i].text)
             ELSE IF Contains(after[i - 1], es[i].text) THEN after[i - 1] ELSE Append(after[i - 1], es[i].text)
  IN  IF \E i \in DOMAIN es : es[i].text \notin Known \/ es[i].key \notin {"allow", "disallow"}
      THEN Invalid(f) ELSE Stored(f, p, after[Len(es)])

AccessValue(f, p, es) ==
  LET rules == SelectSeq(es, LAMBDA e : e.key \in {"deny", "permit", "localnet"})
  IN  IF \E i \in DOMAIN rules : rules[i].text \notin Known THEN Invalid(f)
      ELSE Stored(f, p, [i \in DOMAIN rules |-> <<rules[i].key, rules[i].text>>])

\* The hosts are the same when as many entries are found as there are hosts.
PermitHostsValue(f, p, es) ==
  LET found == Cardinality({i \in DOMAIN es : \E j \in DOMAIN f[p] : f[p][j] = es[i].text})
  IN  IF Len(f[p]) = Len(es) /\ Len(f[p]) = found THEN Same(f)
      ELSE [field |-> [f EXCEPT ![p] = Texts(es)], says |-> "changed"]

\* The add-ons there are take over the types of the first entries, more entries
\* add up to two.
AddonsValue(f, p, es) ==
  LET has == f[p]
      t(i) == es[i].text
      both == {i \in DOMAIN has : i <= Len(es)}
      kept == [i \in both |-> IF t(i) \in Known THEN t(i) ELSE has[i]]
      more == SelectSeq([i \in 1..(IF Len(es) > Len(has) THEN Len(es) - Len(has) ELSE 0) |-> [n |-> i, text |-> t(Len(has) + i)]],
                        LAMBDA e : e.n <= 2 /\ e.text \in Known)
      bad == \E i \in DOMAIN es : (t(i) # "" /\ t(i) \notin Known) \/ i > Len(has) + 2
      new == kept \o [i \in DOMAIN more |-> more[i].text]
  IN  [field |-> [f EXCEPT ![p] = new],
       says |-> CASE new # has /\ bad -> "error"
                  [] new = has /\ bad -> "invalid"
                  [] new # has /\ ~bad -> "changed"
                  [] OTHER -> "same"]

\* Every mailbox is compared with every entry.
MailboxValue(f, p, es) ==
  LET new == Words(es)
      apart == \E i \in DOMAIN new, j \in DOMAIN f[p] : new[i] # f[p][j]
  IN  IF Len(new) = Len(f[p]) /\ ~apart THEN Same(f)
      ELSE [field |-> [f EXCEPT ![p] = new], says |-> "changed"]

\* The variables are always made anew.
VariablesValue(f, p, es) ==
  [field |-> [f EXCEPT ![p] = SelectSeq(Texts(es), LAMBDA t : t \in Known)], says |-> "same"]

----------------------------------------------------------------------------
\* The buttons: the list keeps what it had, marked, until the phone restarts.

\* sccp_config_checkButton: the first button of the list with this place.
ButtonSame(list, n, t) ==
  \E b \in DOMAIN list :
    /\ list[b].place = n /\ \A i \in 1..(b - 1) : list[i].place # n
    /\ t \in {list[b].text, Without[list[b].text]}

\* sccp_config_parse_button: up to the first empty entry; one that is no button
\* counts as an empty one.
UpToEmpty(texts) ==
  LET end == SelectInSeq(texts, LAMBDA t : t = "") IN IF end = 0 THEN texts ELSE SubSeq(texts, 1, end - 1)

ButtonsValue(f, p, es, again) ==
  LET texts == UpToEmpty(Texts(es))
      meant(i) == IF texts[i] \in Known THEN texts[i] ELSE "empty"
      same == again /\ Len(f[p]) = Len(texts) /\ \A i \in DOMAIN texts : ButtonSame(f[p], i, meant(i))
      added == [i \in DOMAIN texts |-> [place |-> i, text |-> meant(i), old |-> FALSE]]
  IN  IF same THEN [field |-> [f EXCEPT ![p] = [i \in DOMAIN f[p] |-> [f[p][i] EXCEPT !.old = FALSE]]], says |-> "same"]
      ELSE [field |-> [f EXCEPT ![p] = @ \o added],
            says |-> IF ToSet(texts) \subseteq Known THEN "changed" ELSE "invalid"]

\* Buttons marked by sccp_device_pre_reload, and what _sccp_dev_clean leaves.
Marked(f) ==
  IF "buttons" \in DOMAIN f
  THEN [f EXCEPT !["buttons"] = [i \in DOMAIN @ |-> [@[i] EXCEPT !.old = TRUE]]] ELSE f
Swept(f) ==
  IF "buttons" \in DOMAIN f
  THEN [f EXCEPT !["buttons"] = SelectSeq(@, LAMBDA b : ~b.old)] ELSE f

----------------------------------------------------------------------------
\* One entry.

\* The kinds whose converter gets every entry of the option.
Parsers == {"address", "port", "privacy", "tos", "cos", "ama", "digits", "group", "context", "hotline",
            "jbflag", "jbnumber", "webdir", "early", "debug", "codecs", "access", "hosts", "addons",
            "mailbox", "variables", "buttons"}

\* The value of entry e of option o, the option's entries being es.
Converted(o, f, e, es, again) ==
  LET p == o.part
      first == es[1].text
  IN  CASE o.kind \in {"char", "pointer"} -> Stored(f, p, e.text)
        [] o.kind = "string" -> StringValue(f, p, e.text)
        [] o.kind = "narrow" -> NumberValue(f, p, e.text, 256)
        [] o.kind = "number" -> NumberValue(f, p, e.text, 65536)
        [] o.kind = "boolean" -> BooleanValue(f, p, e.text)
        [] o.kind = "enum" -> EnumValue(f, p, e.text)
        [] o.kind = "address" -> AddressValue(f, first)
        [] o.kind = "port" -> PortValue(f, first)
        [] o.kind = "privacy" -> PrivacyValue(f, p, first)
        [] o.kind = "tos" -> TosValue(f, p, first)
        [] o.kind = "cos" -> CosValue(f, p, first)
        [] o.kind = "ama" -> AmaValue(f, p, first)
        [] o.kind = "digits" -> DigitsValue(f, p, first)
        [] o.kind = "group" -> GroupValue(f, p, first)
        [] o.kind = "context" -> ContextValue(f, p, first)
        [] o.kind = "hotline" -> HotlineValue(f, p, first)
        [] o.kind = "jbflag" -> JbFlagValue(f, p, first)
        [] o.kind = "jbnumber" -> JbNumberValue(f, p, first)
        [] o.kind = "webdir" -> WebdirValue(f, p, first)
        [] o.kind = "early" -> EarlyRtpValue(f, p, first)
        [] o.kind = "debug" -> DebugValue(f, p, es)
        [] o.kind = "codecs" -> CodecsValue(f, p, es)
        [] o.kind = "access" -> AccessValue(f, p, es)
        [] o.kind = "hosts" -> PermitHostsValue(f, p, es)
        [] o.kind = "addons" -> AddonsValue(f, p, es)
        [] o.kind = "mailbox" -> MailboxValue(f, p, es)
        [] o.kind = "variables" -> VariablesValue(f, p, es)
        [] o.kind = "buttons" -> ButtonsValue(f, p, es, again)

\* What the converter's answer means for the object (set: SetEntries, for all
\* options that write to the field; change: a restart is asked for).
Outcome(s, o, c) ==
  [field |-> c.field,
   set |-> s.set \/ c.says \notin {"invalid", "error"} \/ o.many,
   change |-> s.change \/ (c.says = "changed" /\ o.resets)]

\* sccp_config_object_setValue
SetValue(s, o, e, es, again) ==
  IF (o.many /\ s.set) \/ (o.obsolete /\ ~e.default) THEN s
  ELSE Outcome(s, o, Converted(o, s.field, e, es, again))

\* sccp_find_config, createVariableSetForMultiEntryParameters
OptionOf(opts, e) == CHOOSE i \in DOMAIN opts : Contains(opts[i].names, e.key)
EntriesOf(entries, o) == SelectSeq(entries, LAMBDA e : Contains(o.names, e.key))

\* The loop over the section's entries (sccp_config_apply*Configuration).
SectionRead(opts, f, entries, again) ==
  LET after[i \in 0..Len(entries)] ==
        IF i = 0 THEN [field |-> f, set |-> FALSE, change |-> FALSE]
        ELSE LET o == opts[OptionOf(opts, entries[i])]
             IN  SetValue(after[i - 1], o, entries[i], EntriesOf(entries, o), again)
  IN  after[Len(entries)]

----------------------------------------------------------------------------
\* What no entry gave.

Given(texts) == [i \in DOMAIN texts |-> [key |-> texts[i][1], text |-> texts[i][2], default |-> TRUE]]

\* [general] gives its first entry of the option's last name; a line that wants
\* its device's value looks for a section with its own id, and finds none.
Inherited(o, general) ==
  LET last == SelectSeq(general, LAMBDA e : e.key = Last(o.names))
  IN  IF o.from = "general" /\ last # <<>> THEN <<[last[1] EXCEPT !.default = TRUE]>> ELSE <<>>

\* sccp_config_set_defaults for one option: the first that there is of [general]'s
\* entry, the default, and nothing at all for the kinds that can be emptied.
Nothing == <<[key |-> "", text |-> "", default |-> TRUE]>>

DefaultEntries(o, general) ==
  CASE Inherited(o, general) # <<>> -> EntriesOf(general, o)
    [] o.builtin # <<>> -> Given(o.builtin)
    [] o.kind \in Parsers \cup {"pointer"} -> Nothing
    [] OTHER -> <<>>

\* Mutant: a reload sets no defaults.
MDefault(s, o, general, again) ==
  LET es == DefaultEntries(o, general)
  IN  IF again \/ s.set \/ o.obsolete \/ es = <<>> THEN s
      ELSE SetValue(s, o, Head(Inherited(o, general) \o es), es, again)

Default(s, o, general, again) ==
  LET es == DefaultEntries(o, general)
  IN  IF s.set \/ o.obsolete \/ es = <<>> THEN s
      ELSE SetValue(s, o, Head(Inherited(o, general) \o es), es, again)

Defaults(opts, s, general, again) ==
  LET after[i \in 0..Len(opts)] ==
        IF i = 0 THEN s ELSE Default(after[i - 1], opts[i], general, again)
  IN  [after[Len(opts)] EXCEPT !.change = s.change]   \* what the defaults change is not told

\* A bindaddr without a port gets one, before and after the load
\* (sccp_config_general); a keepalive that is too short is made longer
\* (applyGlobal- and applyDeviceConfiguration).
WithPort(f) ==
  IF "port" \in DOMAIN f THEN [f EXCEPT !["port"] = IF @ = 0 THEN 2000 ELSE @] ELSE f
WithKeepalive(f) ==
  IF "keepalive" \in DOMAIN f THEN [f EXCEPT !["keepalive"] = IF @ < LeastAlive THEN LeastAlive ELSE @] ELSE f

Loaded(opts, f, entries, general, again) ==
  LET s == Defaults(opts, SectionRead(opts, WithPort(f), entries, again), general, again)
  IN  [field |-> WithKeepalive(WithPort(s.field)), change |-> s.change]

----------------------------------------------------------------------------
\* The actions.

KeysOf(opts) == UNION {ToSet(opts[i].names) : i \in DOMAIN opts}
EntriesFor(opts, most) ==
  {[i \in DOMAIN q |-> [key |-> q[i][1], text |-> q[i][2], default |-> FALSE]] :
     q \in UNION {[1..n -> {<<k, t>> \in KeysOf(opts) \X UNION {KeptWords[k] : k \in KeysOf(opts)} : t \in KeptWords[k]}] :
                  n \in 0..most}}

\* The file is edited, taken away or spoilt.
Edit ==
  /\ counts.edits < Edits /\ step = "no"
  /\ \E state \in {"ok", "missing", "invalid", "old", "other"} :
       IF state # "ok" THEN disk' = [disk EXCEPT !.state = state, !.fresh = TRUE]
       ELSE \E g \in EntriesFor(item.global, MostGeneral), o \in EntriesFor(item.own, MostOwn) :
              disk' = [state |-> "ok", general |-> g, own |-> o, fresh |-> TRUE]
  /\ counts' = [counts EXCEPT !.edits = @ + 1]
  /\ UNCHANGED <<item, loaded, global, own, running, step, due>>

\* sccp_config_getConfig and the part of sccp_cli_reload that looks at its result: a
\* file that cannot be used leaves everything as it is, one that did not change too,
\* unless it is forced.
Reload(force) ==
  /\ step = "no" /\ counts.loads < Loads
  /\ disk.state = "ok" /\ (force \/ disk.fresh)
  /\ loaded' = [general |-> disk.general, own |-> disk.own]
  /\ disk' = [disk EXCEPT !.fresh = FALSE]
  /\ step' = "begun"
  /\ counts' = [counts EXCEPT !.loads = @ + 1]
  /\ UNCHANGED <<item, global, own, running, due>>

\* sccp_config_general, in a reload.
General ==
  /\ step = "begun" /\ step' = "general"
  /\ global' = Loaded(item.global, global.field, loaded.general, <<>>, TRUE)
  /\ UNCHANGED <<item, disk, loaded, own, running, due, counts>>

Restarted == /\ running' = [global |-> global'.field, own |-> own'.field]
             /\ due' = [due EXCEPT !.update = FALSE, !.forgotten = FALSE]

\* Mutant: [general] is not asked.
MAsks(new) == new.change

\* sccp_config_buildDevice and sccp_config_buildLine say whether the object changed; a
\* change in [general] is every phone's (the end of sccp_config_readDevicesLines).
Asks(new) == new.change \/ global.change

\* sccp_config_readDevicesLines: what was pending is forgotten
\* (sccp_device_pre_reload), the sections are read (sccp_config_buildDevice,
\* buildLine), and a phone that has no call restarts at once
\* (sccp_line_post_reload, sccp_device_post_reload).
DevicesLines ==
  /\ step = "general" /\ step' = "no"
  /\ \E new \in {Loaded(item.own, Marked(own.field), loaded.own, loaded.general, TRUE)} :
     LET update == Asks(new)
         now == update /\ ~due.call
     IN  /\ own' = [new EXCEPT !.field = IF now THEN Swept(@) ELSE @]
         /\ global' = [global EXCEPT !.change = FALSE]
         /\ IF now THEN Restarted
            ELSE /\ due' = [due EXCEPT !.update = update, !.forgotten = @ \/ (due.update /\ ~update)]
                 /\ UNCHANGED running
  /\ UNCHANGED <<item, disk, loaded, counts>>

\* A call begins; it ends, and the connection's thread finds a restart pending
\* (sccp_session_device_thread, sccp_device_check_update).
CallBegins ==
  /\ ~due.call /\ due' = [due EXCEPT !.call = TRUE]
  /\ UNCHANGED <<item, disk, loaded, global, own, running, step, counts>>

CallEnds ==
  /\ due.call /\ due' = [due EXCEPT !.call = FALSE]
  /\ UNCHANGED <<item, disk, loaded, global, own, running, step, counts>>

CheckUpdate ==
  /\ due.update /\ ~due.call /\ step = "no"
  /\ own' = [own EXCEPT !.field = Swept(@)]
  /\ UNCHANGED <<item, disk, loaded, global, step, counts>>
  /\ Restarted

\* "sccp set device ... <option> <value>": sccp_config_setDeviceOption.
SetDeviceOption(o, t) ==
  /\ step = "no" /\ item.owner = "device" /\ ~o.many /\ ~o.obsolete
  /\ \E e \in {[key |-> o.names[1], text |-> t, default |-> FALSE]} :
     \E s \in {SetValue([field |-> own.field, set |-> FALSE, change |-> FALSE], o, e, <<e>>, FALSE)} :
         /\ own' = [own EXCEPT !.field = WithKeepalive(s.field)]
         /\ due' = [due EXCEPT !.update = @ \/ s.change, !.byHand = TRUE]
  /\ UNCHANGED <<item, disk, loaded, global, running, step, counts>>

\* The values after a start with this file.
Started(i, g, o) ==
  [global |-> Loaded(i.global, i.zero, g, <<>>, FALSE).field,
   own |-> Loaded(i.own, i.zero, o, g, FALSE).field]

SettingsInit ==
  /\ item \in Items
  /\ \E g \in EntriesFor(item.global, MostGeneral), o \in EntriesFor(item.own, MostOwn) :
       /\ disk = [state |-> "ok", general |-> g, own |-> o, fresh |-> FALSE]
       /\ loaded = [general |-> g, own |-> o]
       /\ running = Started(item, g, o)
       /\ global = [field |-> running.global, change |-> FALSE]
       /\ own = [field |-> running.own, change |-> FALSE]
  /\ step = "no" /\ due = [update |-> FALSE, call |-> FALSE, byHand |-> FALSE, forgotten |-> FALSE]
  /\ counts = [edits |-> 0, loads |-> 0]

\* No file was read.
SettingsIdle ==
  /\ item = (CHOOSE i \in Items : TRUE)
  /\ disk = [state |-> "missing", general |-> <<>>, own |-> <<>>, fresh |-> FALSE]
  /\ loaded = [general |-> <<>>, own |-> <<>>]
  /\ running = [global |-> None, own |-> None]
  /\ global = [field |-> None, change |-> FALSE] /\ own = global
  /\ step = "never" /\ due = [update |-> FALSE, call |-> FALSE, byHand |-> FALSE, forgotten |-> FALSE]
  /\ counts = [edits |-> 0, loads |-> 0]

SettingsNext ==
  \/ Edit
  \/ \E force \in BOOLEAN : Reload(force)
  \/ General
  \/ DevicesLines
  \/ CallBegins
  \/ CallEnds
  \/ CheckUpdate
  \/ \E i \in DOMAIN item.own : \E t \in KeptWords[item.own[i].names[1]] : SetDeviceOption(item.own[i], t)

----------------------------------------------------------------------------
\* Texts that are stored as something that is not taken for the same the next time: a
\* number too big for its field, a keepalive below the least, a word that is no type of
\* service, nine digits, two mailboxes; a port that is read before its address; an
\* option that is written twice; an add-on nobody knows before one that is known.
Restless(o, es) ==
  \E i \in DOMAIN es :
    \/ o.kind = "narrow" /\ es[i].text \in DOMAIN Number /\ Number[es[i].text] > 255
    \/ o.part = "keepalive" /\ es[i].text \in DOMAIN Number /\ Number[es[i].text] < LeastAlive
    \/ o.kind = "tos" /\ es[i].text \notin Known
    \/ o.kind = "digits" /\ Length[es[i].text] = 9
    \/ o.kind = "addons" /\ es[i].text \notin Known
    \/ o.kind = "mailbox" /\ Len(Words(es)) > 1
    \/ o.kind \in {"address", "port"}
    \/ o.kind \notin Parsers /\ Len(es) > 1

Calm ==
  /\ step = "no" /\ ~due.update /\ ~due.byHand /\ ~due.forgotten
  /\ \A i \in DOMAIN item.global : ~Restless(item.global[i], EntriesOf(loaded.general, item.global[i]))
  /\ \A i \in DOMAIN item.own : ~Restless(item.own[i], EntriesOf(loaded.own \o loaded.general, item.own[i]))

\* Texts that leave what was there before: options that share a field, an option that has
\* neither a text nor a default, a list with a word nobody knows, a number that is none,
\* a button that lost its hint, the last add-on taken away, hosts in another order or one
\* of them in the place of another.
Clings(opts, entries, general) ==
  LET all == ToSet(entries \o general)
  IN  \/ Len(opts) > 1
      \/ opts # <<>> /\ ~Defaults(opts, SectionRead(opts, item.zero, entries, FALSE), general, FALSE).set
      \/ \E i \in DOMAIN opts :
           \/ opts[i].kind \in {"ama", "addons"} /\ opts[i].builtin = <<>> /\ entries = <<>>
           \/ opts[i].kind \in {"addons", "codecs", "access"} /\ \E e \in all : e.text \notin Known
           \/ opts[i].kind \in {"number", "narrow"} /\ \E e \in all : e.text \notin DOMAIN Number
           \/ opts[i].kind = "hosts" /\ Len(entries) > 1
           \/ opts[i].kind = "buttons" /\ \E e \in all, w \in Known : w # Without[w] /\ e.text = Without[w]

(***************************************************************************)
(* A reload leaves the settings that a start with the same file would give *)
(* (sccp_config_object_setValue, sccp_config_set_defaults), whatever they  *)
(* were before, but for the texts above.                                   *)
(***************************************************************************)
FreshAfterReload ==
  Calm /\ ~Clings(item.global, loaded.general, <<>>) /\ ~Clings(item.own, loaded.own, loaded.general) =>
     [global |-> global.field, own |-> Swept(own.field)] = Started(item, loaded.general, loaded.own)

\* An option of the file that the phone must know of, with a text that can be used.
Loud(opts, entries) ==
  /\ opts # <<>> /\ \A i \in DOMAIN opts : opts[i].resets
  /\ \A e \in ToSet(entries) : SectionRead(opts, item.zero, <<e>>, FALSE).change
  /\ entries # <<>>

Restarts == running' = [global |-> global'.field, own |-> own'.field]

(***************************************************************************)
(* A setting that the file changes and that the phone must know of         *)
(* restarts the phone or waits for its call to end: none of the steps from *)
(* the converter to sccp_device_post_reload loses the change.              *)
(***************************************************************************)
ChangeRestarts ==
  [][/\ step = "begun" /\ Loud(item.global, loaded.general) /\ global'.field # global.field => global'.change
     /\ step = "general" /\ step' = "no"
        /\ (global.change \/ (Loud(item.own, loaded.own) /\ Swept(own'.field) # Swept(own.field)))
          => due'.update \/ Restarts]_setVars

(***************************************************************************)
(* "a device on a call restarts when the call ends" (sccp_cli.c, usage of  *)
(* sccp reload): a restart that waits is not forgotten by another reload,  *)
(* unless the file has become again what the phone was started with.       *)
(***************************************************************************)
RestartRemembered ==
  [][due.update /\ due.call /\ ~due.byHand => due'.update \/ [global |-> global'.field, own |-> own'.field] = running]_setVars
=============================================================================
