------------------------------ MODULE Buttons ------------------------------
(***************************************************************************)
(* The keys of a phone: from the button lines of its section               *)
(* (sccp_config_addButton), over the keys its model has                    *)
(* (sccp_dev_build_buttontemplate) and the way the lines are laid on them  *)
(* (sccp_make_button_template), to the message that tells the phone about  *)
(* them and to the questions and presses that name a key by what it is and *)
(* its number.                                                             *)
(*                                                                         *)
(* A key has a class before anything is laid on it: MULTI takes all,       *)
(* LINE-KEY only lines, DIAL-KEY only speed dials, and the places a phone  *)
(* does not have (ABBR) take the speed dials that are left.  Names, URLs   *)
(* and labels are left out; a button remembers only which of them were     *)
(* given.  What a key shows is Features, who is attached to it is Devices. *)
(***************************************************************************)
EXTENDS Naturals, Sequences, FiniteSets, FiniteSetsExt, SequencesExt

CONSTANTS
  PhoneModels,   \* the skinny device types a phone may be of
  Versions,      \* the protocol versions a phone may speak
  AddonLists,    \* the expansion modules a phone may have
  ButtonLines,   \* the button lines a section may have
  MaxButtons,    \* bound: the button lines of a phone
  TemplateSize   \* StationMaxButtonTemplateSize

ASSUME ButtonsAssumption ==
  TemplateSize \in Nat \ {0} /\ MaxButtons \in Nat /\ Versions \subseteq Nat

VARIABLES
  phone,     \* its model, its protocol, and whether it takes the hotline
  buttons,   \* its button lines in their order, each with its number (0: none)
  template,  \* the keys while and after the lines are laid on them
  counters,  \* the next number of a line, a dial and a service; who is next
  keysTold,      \* the keys as the phone was told of them
  answer     \* the key last asked about or pressed, and the button it led to

buttonVars == <<phone, buttons, template, counters, keysTold, answer>>

----------------------------------------------------------------------------
\* The keys of the models.

Keys(n, class) == [i \in 1..n |-> class]

\* sccp_dev_build_buttontemplate: the models up to the 7945.
OlderModel ==
  [ VIP |-> Keys(4, "MULTI") \o
            <<"LASTNUMBERREDIAL", "VOICEMAIL", "CALLPARK", "FORWARDALL", "CONFERENCE">> \o
            Keys(4, "UNDEFINED") \o Keys(13, "MULTI"),
    SP12 |-> Keys(2, "LINE-KEY") \o Keys(4, "DIAL-KEY") \o
             <<"HOLD", "LASTNUMBERREDIAL", "TRANSFER", "FORWARDALL", "CALLPARK", "VOICEMAIL">>,
    C7902 |-> <<"LINE-KEY", "HOLD", "TRANSFER", "DISPLAY", "VOICEMAIL", "CONFERENCE",
                "FORWARDALL">> \o Keys(4, "DIAL-KEY") \o <<"LASTNUMBERREDIAL">>,
    C7910 |-> <<"LINE-KEY", "HOLD", "TRANSFER", "DISPLAY", "VOICEMAIL", "CONFERENCE",
                "FORWARDALL">> \o Keys(2, "DIAL-KEY") \o <<"LASTNUMBERREDIAL">>,
    C7911 |-> <<"LINE-KEY", "HOLD">> \o Keys(9, "DIAL-KEY"),
    C7920 |-> Keys(6, "MULTI"),
    C7931 |-> Keys(20, "MULTI") \o <<"MESSAGES", "DIRECTORY", "HEADSET", "APPLICATION">>,
    C7936 |-> Keys(2, "LINE-KEY"),
    C7940 |-> Keys(2, "MULTI") ]

\* The rest of them, and what a model nobody knows gets.
NewerModel ==
  [ C7960 |-> Keys(6, "MULTI"),
    C7970 |-> Keys(8, "MULTI"),
    C7985 |-> Keys(1, "MULTI"),
    NokiaE |-> Keys(2, "LINE-KEY") \o Keys(5, "DIAL-KEY"),
    VGC |-> <<"LINE-KEY">>,
    ATA |-> <<"LINE-KEY">> \o Keys(4, "DIAL-KEY"),
    C8941 |-> Keys(10, "MULTI") \o <<"CONFERENCE", "HOLD", "TRANSFER", "LASTNUMBERREDIAL">> ]

CiscoSmallModel ==
  [ SPA502 |-> Keys(1, "MULTI"),
    SPA303 |-> Keys(3, "MULTI"),
    SPA504 |-> Keys(4, "MULTI"),
    SPA508 |-> Keys(8, "MULTI") \o <<"VOICEMAIL", "HOLD">>,
    SPA509 |-> Keys(12, "MULTI") \o <<"VOICEMAIL", "HOLD">>,
    C6921 |-> Keys(2, "MULTI") \o Keys(6, "DIAL-KEY"),
    C6961 |-> Keys(12, "MULTI"),
    Other |-> <<"LINE-KEY">> ]

\* sccp_addon_build_buttontemplate: the keys an expansion module adds.
Addon == [ A7914 |-> 14, A7915 |-> 12, A7915x24 |-> 24, SPA500S |-> 32 ]

Model == OlderModel @@ NewerModel @@ CiscoSmallModel

\* An addon's keys follow the phone's, and what is left abbreviates.  The code
\* writes an addon's keys past the end of the template when they do not fit.
PhysicalKeys(p) ==
  LET own == Model[p.model] \o FlattenSeq([i \in 1..Len(p.addons) |-> Keys(Addon[p.addons[i]], "MULTI")])
  IN  own \o Keys(TemplateSize - Len(own), "ABBR")

Classes == {"MULTI", "LINE-KEY", "DIAL-KEY", "ABBR"}

----------------------------------------------------------------------------
\* The button lines.

\* sccp_config_addButton: a line that lacks its name, or another button that
\* lacks its options, keeps its place as an empty one.  A text says what kind
\* it asks for and which of the name, the options and the arguments it gives.
Parsed(t) ==
  IF t.kind # "empty" /\ (~t.name \/ (t.kind # "line" /\ ~t.options))
  THEN [kind |-> "empty", known |-> FALSE, hint |-> FALSE, options |-> FALSE, feature |-> "none",
        number |-> 0]
  ELSE [kind |-> t.kind,
        known |-> t.kind = "line" /\ t.known,      \* a section of this name exists
        hint |-> t.kind = "dial" /\ t.args,
        options |-> \/ t.kind = "line" /\ t.options   \* "default" among them
                    \/ t.kind = "feature" /\ (t.args \/ t.feature \in {"parkinglot", "devstate"}),
        feature |-> t.feature,
        number |-> 0]

----------------------------------------------------------------------------
\* Laying the lines on the keys.

\* The first key that is still free takes the next line, whether it suits or not.
FreeKeys == {i \in 1..Len(template) : template[i].what \in Classes}

\* What an unsuitable key becomes: nothing the phone can use.
Wasted == [what |-> "UNUSED", number |-> 0, button |-> 0]

\* The dials and the features count together, but a dial with a hint is a line
\* to the phones that cannot watch.
DialKey(class, b) ==
  CASE class = "MULTI" /\ b.hint -> IF phone.version >= 15 THEN "BLFSPEEDDIAL" ELSE "LINE"
    [] class \in {"MULTI", "DIAL-KEY", "ABBR"} /\ (class # "MULTI" \/ ~b.hint) -> "SPEEDDIAL"
    [] OTHER -> "UNUSED"

\* The features with keys of their own are told as such.
FeatureKey(b) ==
  CASE b.feature \in {"devstate", "monitor", "multiblink"} ->
         IF phone.version >= 15 /\ phone.model # "C8941" THEN "MULTIBLINK" ELSE "FEATURE"
    [] b.feature = "dnd" ->
         IF ~b.options /\ phone.version >= 15 THEN "MULTIBLINK" ELSE "FEATURE"
    [] b.feature = "parkinglot" -> IF phone.version > 15 THEN "MULTIBLINK" ELSE "FEATURE"
    [] b.feature \in {"hold", "transfer", "mobility", "conference", "pickup"} -> "OWN"
    [] OTHER -> "FEATURE"

\* What the key shows when b is laid on a key of this class.
LaidOn(class, b) ==
  CASE b.kind = "line" -> IF class \in {"MULTI", "LINE-KEY"} /\ b.known THEN "LINE" ELSE "UNUSED"
    [] b.kind = "service" -> IF class = "MULTI" THEN "SERVICE" ELSE "UNUSED"
    [] b.kind = "dial" -> DialKey(class, b)
    [] b.kind = "feature" -> IF class = "MULTI" THEN FeatureKey(b) ELSE "UNUSED"
    [] OTHER -> "UNUSED"

\* The counter a key takes its number from.
Series(what) ==
  CASE what = "LINE" -> "line" [] what = "SERVICE" -> "service" [] OTHER -> "dial"

\* One turn of the loop over the button lines; their list is locked throughout.
PlaceButton ==
  /\ counters.next \in 1..Len(buttons)
  /\ LET b == buttons[counters.next] IN
     IF FreeKeys = {} THEN UNCHANGED <<buttons, template, phone>> /\ counters' = [counters EXCEPT !.next = @ + 1]
     ELSE LET i == Min(FreeKeys)
              what == LaidOn(template[i].what, b)
              n == counters[Series(what)]
          IN IF what = "UNUSED"
             THEN /\ template' = [template EXCEPT ![i] = Wasted]
                  /\ counters' = [counters EXCEPT !.next = @ + 1]
                  /\ UNCHANGED <<buttons, phone>>
             ELSE /\ template' = [template EXCEPT ![i] =
                                    [what |-> what, number |-> n, button |-> counters.next]]
                  /\ buttons' = [buttons EXCEPT ![counters.next].number = n]
                  /\ counters' = [counters EXCEPT !.next = @ + 1, ![Series(what)] = @ + 1]
                  /\ phone' = IF b.kind = "line" /\ phone.default = 0
                              THEN [phone EXCEPT !.default = n] ELSE phone
  /\ UNCHANGED <<keysTold, answer>>

\* sccp_make_button_template, its beginning: the lines that already have a
\* number are passed over, which they are not as long as the phone is new.
MakeTemplate ==
  /\ template = <<>> /\ counters.next = 0
  /\ template' = [i \in 1..TemplateSize |->
                    [what |-> PhysicalKeys(phone)[i], number |-> 0, button |-> 0]]
  /\ counters' = [next |-> 1, line |-> 1, dial |-> 1, service |-> 1]
  /\ UNCHANGED <<phone, buttons, keysTold, answer>>

\* Its end: the places nobody took are unused, though not those for lines or
\* dials only; a line whose options ask for it is where new calls start.
TemplateMade ==
  /\ counters.next = Len(buttons) + 1
  /\ template' = [i \in 1..TemplateSize |->
                    IF template[i].what \in {"MULTI", "ABBR"} THEN Wasted ELSE template[i]]
  /\ LET named == {i \in 1..Len(buttons) : buttons[i].kind = "line" /\ buttons[i].options}
     IN  phone' = IF named = {} THEN phone
                  ELSE [phone EXCEPT !.default = buttons[Min(named)].number]
  /\ counters' = [counters EXCEPT !.next = @ + 1]
  /\ UNCHANGED <<buttons, keysTold, answer>>

----------------------------------------------------------------------------
\* Telling the phone.

\* sccp_handle_button_template_req: the number a dial without a key is given,
\* after the numbers of the dials before it in the list.
NextUnplaced[i \in 1..MaxButtons] ==
  IF i = 1 THEN 0
  ELSE LET b == buttons[i - 1] IN
       CASE b.kind # "dial" -> NextUnplaced[i - 1]
         [] b.number = 0 -> NextUnplaced[i - 1] + 1
         [] OTHER -> b.number + 1

\* A key meant for lines that got none is not told; one for dials is told raw.
AsTold(k) ==
  [k EXCEPT !.what = CASE @ \in {"LINE-KEY", "UNUSED"} -> "UNDEFINED" [] OTHER -> @]

SendTemplate ==
  /\ counters.next = Len(buttons) + 2 /\ keysTold = <<>>
  /\ LET last == Max({0} \cup {i \in 1..TemplateSize : template[i].what # "UNUSED"})
     IN  keysTold' = [i \in 1..last |-> AsTold(template[i])]
  /\ buttons' = [i \in 1..Len(buttons) |->
                   IF buttons[i].kind = "dial" /\ buttons[i].number = 0
                   THEN [buttons[i] EXCEPT !.number = NextUnplaced[i]] ELSE buttons[i]]
  /\ UNCHANGED <<phone, template, counters, answer>>

----------------------------------------------------------------------------
\* The phone asks about its keys and presses them.

\* sccp_line_find_byid over sccp_linedevice_createButtonsArray: the line whose
\* key was made with this number, 0 if there is none.
LineOf(n) ==
  LET at == {i \in 1..Len(template) : template[i].what = "LINE" /\ template[i].number = n
               /\ template[i].button > 0 /\ buttons[template[i].button].kind = "line"}
  IN  IF at = {} THEN 0 ELSE template[Max(at)].button

\* Mutant: the hint is not looked at.
MDialOf(n, withHint) == Max({0} \cup {i \in 1..Len(buttons) : buttons[i].kind = "dial" /\ buttons[i].number = n})

\* sccp_dev_speed_find_byindex: the last dial of this number with a hint, or
\* the last one without.
DialOf(n, withHint) ==
  Max({0} \cup {i \in 1..Len(buttons) : buttons[i].kind = "dial" /\ buttons[i].number = n
                                        /\ buttons[i].hint = withHint})

\* sccp_dev_serviceURL_find_byindex: the first service of this number.
ServiceOf(n) ==
  LET at == {i \in 1..Len(buttons) : buttons[i].kind = "service" /\ buttons[i].number = n}
  IN  IF at = {} THEN 0 ELSE Min(at)

\* handle_feature_action, handle_feature_stat_req: the feature of this number.
FeatureOf(n) ==
  LET at == {i \in 1..Len(buttons) : buttons[i].kind = "feature" /\ buttons[i].number = n}
  IN  IF at = {} THEN 0 ELSE Min(at)

\* handle_line_number: the line, or the dial told as one.
AskedLine(n) == IF LineOf(n) > 0 THEN LineOf(n) ELSE DialOf(n, TRUE)

\* handle_speed_dial_stat_req
AskedDial(n) == DialOf(n, FALSE)

\* handle_feature_stat_req: a watched dial first, for the phones that can watch.
AskedFeature(n, watching) ==
  IF watching /\ phone.version >= 15 /\ DialOf(n, TRUE) > 0 THEN DialOf(n, TRUE) ELSE FeatureOf(n)

\* handle_services_stat_req
AskedService(n) == ServiceOf(n)

\* The keys a phone asks about.
Asked == {"LINE", "SPEEDDIAL", "BLFSPEEDDIAL", "SERVICE", "FEATURE", "MULTIBLINK"}

AskAbout(i) ==
  /\ keysTold[i].what \in Asked
  /\ LET n == keysTold[i].number IN
     answer' = [key |-> i, by |-> "question", to |-> keysTold[i].button,
                got |-> CASE keysTold[i].what = "LINE" -> AskedLine(n)
                          [] keysTold[i].what = "SPEEDDIAL" -> AskedDial(n)
                          [] keysTold[i].what = "SERVICE" -> AskedService(n)
                          [] OTHER -> AskedFeature(n, keysTold[i].what = "BLFSPEEDDIAL")]
  /\ UNCHANGED <<phone, buttons, template, counters, keysTold>>

\* handle_stimulus and the handlers it chooses: handle_stimulus_line,
\* handle_stimulus_speeddial, handle_stimulus_blfspeeddial, handle_stimulus_feature.
\* The keys a phone serves by itself do not reach the server.
Pressed(what, n) ==
  CASE what = "LINE" -> IF LineOf(n) > 0 THEN LineOf(n) ELSE DialOf(n, TRUE)
    [] what = "SPEEDDIAL" -> DialOf(n, FALSE)
    [] what = "BLFSPEEDDIAL" -> DialOf(n, TRUE)
    [] OTHER -> FeatureOf(n)

Press(i) ==
  /\ keysTold[i].what \in Asked \ {"SERVICE"}
  /\ answer' = [key |-> i, by |-> "press", to |-> keysTold[i].button,
                got |-> Pressed(keysTold[i].what, keysTold[i].number)]
  /\ UNCHANGED <<phone, buttons, template, counters, keysTold>>

----------------------------------------------------------------------------
\* The section is read, and the phone registers.

AddButton(t) ==
  /\ template = <<>> /\ counters.next = 0 /\ Len(buttons) < MaxButtons
  /\ buttons' = Append(buttons, Parsed(t))
  /\ UNCHANGED <<phone, template, counters, keysTold, answer>>

NoAnswer == [key |-> 0, by |-> "none", to |-> 0, got |-> 0]

\* _sccp_dev_clean: the template goes and the numbers with it, the line that new
\* calls start on stays.  The phone may return with another protocol.
GoneAndBack(v) ==
  /\ keysTold # <<>> /\ phone.visits = 0
  /\ phone' = [phone EXCEPT !.version = v, !.visits = @ + 1]
  /\ buttons' = [i \in 1..Len(buttons) |-> [buttons[i] EXCEPT !.number = 0]]
  /\ template' = <<>> /\ keysTold' = <<>>
  /\ counters' = [next |-> 0, line |-> 1, dial |-> 1, service |-> 1]
  /\ answer' = NoAnswer

AnyPhone ==
  [model : PhoneModels, version : Versions, addons : AddonLists, default : {1}, visits : {0}]

NoButtons ==
  /\ buttons = <<>> /\ template = <<>> /\ keysTold = <<>> /\ answer = NoAnswer
  /\ counters = [next |-> 0, line |-> 1, dial |-> 1, service |-> 1]

ButtonsInit == NoButtons /\ phone \in AnyPhone
ButtonsIdle == NoButtons /\ phone = (CHOOSE p \in AnyPhone : TRUE)

ButtonsNext ==
  \/ \E t \in ButtonLines : AddButton(t)
  \/ Len(buttons) > 0 /\ MakeTemplate
  \/ PlaceButton
  \/ TemplateMade
  \/ SendTemplate
  \/ \E i \in 1..Len(keysTold) : AskAbout(i) \/ Press(i)
  \/ \E v \in Versions : GoneAndBack(v)

----------------------------------------------------------------------------
\* The dials with a hint whose key does not watch: their number is not looked
\* up when their key asks, and may be found when a line's key asks.
HiddenDials ==
  {i \in 1..Len(buttons) : /\ buttons[i].kind = "dial" /\ buttons[i].hint
                           /\ \E k \in 1..Len(keysTold) : keysTold[k].button = i /\ keysTold[k].what = "SPEEDDIAL"}

(***************************************************************************)
(* What the server answers about a key, and does when it is pressed, is    *)
(* about the button that lies on this key: the three counters, the number  *)
(* given to the dials without a key and the four ways to look a number up  *)
(* (sccp_line_find_byid, sccp_dev_speed_find_byindex with and without      *)
(* hints, the list of buttons) fit together, also when the phone comes     *)
(* back with another protocol.  The hidden dials are left out.             *)
(***************************************************************************)
AskedGetsItsKey ==
  {answer.to, answer.got} \cap HiddenDials = {} => answer.got = answer.to

=============================================================================
