------------------------------- MODULE Codecs -------------------------------
(***************************************************************************)
(* Which codec a call uses (sccp_codec.c, and its callers in sccp_line.c,  *)
(* sccp_linedevice.c, sccp_channel.c, sccp_actions.c, sccp_config.c).      *)
(* A codec list is a C array of MaxSlots slots ended by the first empty    *)
(* one; several handlers overwrite slots in place, so an array may hold a  *)
(* gap or the tail of an older list, and every operator here is defined on *)
(* such arrays.  Every handler holds the lock of the object it changes.    *)
(***************************************************************************)
EXTENDS Integers, Sequences, SequencesExt, FiniteSets

CONSTANTS
  Devices, NoDevice,
  Table,        \* skinny_codecs[]: a sequence of [codec, key, type] records
  NoCodec,      \* SKINNY_CODEC_NONE
  MaxSlots,     \* SKINNY_MAX_CAPABILITIES
  Wideband,     \* SKINNY_CODEC_WIDEBAND_256K
  LineDefaults, \* what a line is given when none of its phones has a codec
  GlobalPrefs,  \* GLOB(global_preferences).audio
  Configs,      \* allow/disallow lines: sequences of [allow, tokens] records
  MaxChanges,   \* bound: reloads, reports, attachments and calls in a behaviour
  CapLists,     \* lists a phone may report: sequences of codecs
  RemoteLists,  \* lists the other end of a call may have
  Preferred     \* lists a dialplan may set: sequences of tokens

ASSUME SlotsAssumption == MaxSlots \in Nat \ {0}
ASSUME DeviceAssumption == NoDevice \notin Devices

VARIABLES
  dev,   \* each phone: preferences, capabilities, its video soft key
  line,  \* the line the phones share: its own lists and its attached phones
  call,  \* the call of the line, or NoCall
  changes \* reloads, reports, attachments and calls so far
codecVars == <<dev, line, call, changes>>

Kinds == {"audio", "video"}
Slots == 1..MaxSlots
CodecsOf(t) == {Table[i].codec : i \in {j \in DOMAIN Table : Table[j].type = t}}
AllCodecs == {Table[i].codec : i \in DOMAIN Table}
Arrays == [Slots -> AllCodecs \cup {NoCodec}]
Empty == [i \in Slots |-> NoCodec]
NoSets == [k \in Kinds |-> Empty]
Pad(s) == [i \in Slots |-> IF i <= Len(s) THEN s[i] ELSE NoCodec]

Put(a, i, c) == [j \in Slots |-> IF j = i THEN c ELSE a[j]]

\* The entries a loop that stops at the first empty slot sees.
Live(a) == SubSeq(a, 1, CHOOSE n \in 0..MaxSlots :
                           /\ \A i \in 1..n : a[i] # NoCodec
                           /\ n = MaxSlots \/ a[n + 1] = NoCodec)

-----------------------------------------------------------------------------
(* sccp_codec.c *)

\* Every index from the match to the end is shifted once, not only the match.
PrefRemove(a, c) ==
  IF \A i \in Slots : a[i] # c THEN a
  ELSE LET k == CHOOSE i \in Slots : a[i] = c /\ \A j \in 1..(i - 1) : a[j] # c
           Shift(b, x) == [i \in Slots |-> IF i >= x /\ i < MaxSlots THEN b[i + 1] ELSE b[i]]
       IN FoldLeft(Shift, a, [j \in 1..(MaxSlots - k + 1) |-> k + j - 1])

PrefAppend(a, c) ==
  LET b == PrefRemove(a, c)
      free == {i \in Slots : b[i] = NoCodec}
  IN IF free = {} THEN b
     ELSE Put(b, CHOOSE i \in free : \A j \in free : i <= j, c)

\* One token of a list: "found" is not reset between the tokens.
ParseToken(s, t, allowing) ==
  LET allow == IF t.neg THEN ~allowing ELSE allowing
      hits == SelectSeq(Table, LAMBDA e : t.key \in {"all", e.key})
      Apply(a, e) == IF allow THEN PrefAppend(a, e.codec) ELSE PrefRemove(a, e.codec)
      found == s.found \/ hits # <<>>
  IN IF t.key = "all" /\ ~allow THEN [s EXCEPT !.codecs = Empty]
     ELSE [codecs |-> FoldLeft(Apply, s.codecs, hits), found |-> found,
           errors |-> IF found THEN s.errors ELSE s.errors + 1]

ParseAllowDisallow(a, list, allowing) ==
  FoldLeft(LAMBDA s, t : ParseToken(s, t, allowing),
           [codecs |-> a, found |-> FALSE, errors |-> 0], list)

CodecsByType(a, type) ==
  Pad(SelectSeq(a, LAMBDA c : c # NoCodec /\ c \in CodecsOf(type)))

IsCompatible(c, a) == c \in Range(Live(a))

\* The last slot of the result stays empty: the loops stop at z + 1 = MaxSlots.
GetReducedSet(base, by) ==
  LET copies(c) == [i \in 1..Cardinality({j \in DOMAIN Live(by) : by[j] = c}) |-> c]
      all == FoldLeft(LAMBDA r, c : r \o copies(c), <<>>, Live(base))
  IN Pad(SubSeq(all, 1, IF Len(all) < MaxSlots THEN Len(all) ELSE MaxSlots - 1))

\* Mutant: the reduced list takes the order of the other one.
MReducedBy(base, by) == Pad(SelectSeq(Live(by), LAMBDA c : c \in Range(Live(base))))

ReducedBy(base, by) == GetReducedSet(base, by)

\* "mark" (demarquation) ends the part of base a codec is looked for in; it
\* moves to each slot filled, and stays 0 once slot 0 was filled.
CombineSets(base, add) ==
  LET Seen(s, c) == \E i \in 1..s.mark : s.b[i] = c /\ \A j \in 1..i : s.b[j] # NoCodec
      Step(s, c) ==
        LET free == {i \in (s.z + 1)..MaxSlots : s.b[i] = NoCodec}
            i == CHOOSE x \in free : \A y \in free : x <= y
        IN CASE Seen(s, c) -> s
             [] ~Seen(s, c) /\ free = {} -> [s EXCEPT !.z = MaxSlots]
             [] OTHER -> [b |-> Put(s.b, i, c), z |-> i - 1,
                          mark |-> IF s.mark = 0 THEN 0 ELSE i - 1]
  IN FoldLeft(Step, [b |-> base, z |-> 0, mark |-> MaxSlots], Live(add)).b

\* Mutant: the other end's order decides.
MFindBestJoint(ours, remote, fallback) ==
  LET joint == GetReducedSet(remote, ours)[1]
  IN IF joint = NoCodec /\ fallback THEN ours[1] ELSE joint

FindBestJoint(ours, remote, fallback) ==
  LET joint == ReducedBy(ours, remote)[1]
  IN IF joint = NoCodec /\ fallback THEN ours[1] ELSE joint

-----------------------------------------------------------------------------
(* Lines: sccp_line.c *)

\* The first attached phone is copied, the others reduce it or, when they
\* have nothing in common with it, are added.
PreferencesFromDevices(l, d) ==
  LET Merge(base, by) == IF GetReducedSet(base, by) = Empty THEN CombineSets(base, by)
                         ELSE GetReducedSet(base, by)
      Step(p, x) == [k \in Kinds |-> Merge(p[k], d[x].prefs[k])]
  IN [l EXCEPT !.shared = Len(l.devices) > 1,
               !.prefs = IF l.level \/ l.devices = <<>> THEN @
                         ELSE FoldLeft(Step, d[Head(l.devices)].prefs, Tail(l.devices))]

CapabilitiesFromDevices(l, d) ==
  LET Step(c, x) == [k \in Kinds |-> CombineSets(c[k], d[x].caps[k])]
      caps == IF l.devices = <<>> THEN l.caps
              ELSE FoldLeft(Step, d[Head(l.devices)].caps, Tail(l.devices))
      n == Len(LineDefaults)
      Defaults == [i \in Slots |-> IF i <= n THEN LineDefaults[i]
                                   ELSE IF i = n + 1 THEN NoCodec ELSE caps["audio"][i]]
  IN [l EXCEPT !.caps = IF caps["audio"][1] # NoCodec THEN caps
                        ELSE [caps EXCEPT !["audio"] = Defaults]]

\* Mutant: only the newest phone's report reaches the line.
MByDevice(l, d, x) ==
  IF l.devices # <<>> /\ x = Head(l.devices) THEN CapabilitiesFromDevices(l, d) ELSE l

CapabilitiesByDevice(l, d, x) ==
  IF x \in Range(l.devices) THEN CapabilitiesFromDevices(l, d) ELSE l

-----------------------------------------------------------------------------
(* Calls: sccp_channel.c *)

NoCall == [live |-> FALSE]
NewCall(l) == [live |-> TRUE, device |-> NoDevice, prefs |-> NoSets, caps |-> NoSets,
               remote |-> NoSets, format |-> [k \in Kinds |-> NoCodec], receiving |-> FALSE]

\* The global list is copied over both kinds: the video preferences get the
\* audio codecs.
CopyCodecSets(c, l, x) ==
  LET own == IF ~l.level /\ x # NoDevice THEN dev[x].prefs ELSE l.prefs
  IN [c EXCEPT !.prefs = IF own["audio"][1] # NoCodec THEN own ELSE [k \in Kinds |-> GlobalPrefs],
               !.caps = IF x # NoDevice THEN dev[x].caps ELSE l.caps]

SetDevice(c, l, x) ==
  LET unset == c.prefs["audio"][1] = NoCodec \/ c.caps["audio"][1] = NoCodec
      b == IF unset THEN CopyCodecSets(c, l, x) ELSE c
      video == [b EXCEPT !.prefs["video"] = IF ~l.level /\ @[1] = NoCodec THEN dev[x].prefs["video"] ELSE @,
                         !.caps["video"] = IF @[1] = NoCodec THEN dev[x].caps["video"] ELSE @]
  IN [(IF x = NoDevice THEN b ELSE video) EXCEPT !.device = x]

Allocate(l, x) ==
  LET c == NewCall(l)
      levelled == [c EXCEPT !.prefs = l.prefs, !.caps = IF x # NoDevice THEN dev[x].caps ELSE @]
  IN SetDevice(IF l.level THEN levelled ELSE c, l, x)

\* sccp_pbx_channel_allocate: what is left of the preferences.
ChannelReduced(c, l, x) ==
  LET by == IF Len(l.devices) = 1 /\ x # NoDevice THEN dev[x].caps ELSE c.caps
  IN [c EXCEPT !.prefs = [k \in Kinds |-> ReducedBy(c.prefs[k], by[k])]]

\* Without preferences of the line the phone's own list is what is reduced,
\* for this call and for every later one.
UsesDevicePrefs(c) == c.device # NoDevice /\ ~line.level

Recalculated(c, k) ==
  LET own == IF UsesDevicePrefs(c)
             THEN ReducedBy(dev[c.device].prefs[k], dev[c.device].caps[k]) ELSE c.prefs[k]
      prefs == ReducedBy(own, c.caps[k])
      joint == FindBestJoint(prefs, c.remote[k], k = "audio")
  IN [prefs |-> prefs,
      format |-> CASE k = "audio" /\ joint = NoCodec ->
                        IF prefs[1] # NoCodec THEN prefs[1] ELSE Wideband
                   [] k = "video" /\ joint = NoCodec -> c.format["video"]
                   [] OTHER -> joint]

Keeps(d, c, k, r) == IF UsesDevicePrefs(c) THEN [d EXCEPT ![c.device].prefs[k] = r.prefs] ELSE d
Takes(c, k, r) == [c EXCEPT !.prefs[k] = IF UsesDevicePrefs(c) THEN @ ELSE r.prefs,
                            !.format[k] = r.format]

-----------------------------------------------------------------------------
(* Steps *)

Counted == changes < MaxChanges /\ changes' = changes + 1

\* sccp_config_parse_codec_preferences: one unknown codec and nothing changes.
ParseCodecPreferences(old, config) ==
  LET Line(s, l) == LET r == ParseAllowDisallow(s.codecs, l.tokens, l.allow)
                    IN [codecs |-> r.codecs, errors |-> s.errors + r.errors]
      r == FoldLeft(Line, [codecs |-> Empty, errors |-> 0], config)
  IN IF r.errors > 0 THEN old ELSE [k \in Kinds |-> CodecsByType(r.codecs, k)]

\* A reload gives phone x a new list.  For a phone the reload touches
\* (pending), sccp_device_post_reload keeps what it is known to support.
PostReload(x, config, pending) ==
  LET new == ParseCodecPreferences(dev[x].prefs, config)
      kept == [k \in Kinds |-> ReducedBy(new[k], dev[x].caps[k])]
  IN /\ dev' = [dev EXCEPT ![x].prefs = IF pending THEN kept ELSE new]
     /\ UNCHANGED <<line, call>> /\ Counted

\* sccp_config_applyLineConfiguration: preferences of the line itself.
ApplyLineConfiguration(config) ==
  LET new == ParseCodecPreferences(line.prefs, config)
  IN /\ line' = [line EXCEPT !.prefs = new, !.level = new["audio"][1] # NoCodec]
     /\ UNCHANGED <<dev, call>> /\ Counted

\* The answer to CapabilitiesReq: slots 1..n are written, the rest stays.
HandleCapabilitiesRes(x, list) ==
  LET Of(k) == SelectSeq(list, LAMBDA c : c \in CodecsOf(k))
      Over(k) == [i \in Slots |-> IF i <= Len(Of(k)) THEN Of(k)[i] ELSE dev[x].caps[k][i]]
      caps == [k \in Kinds |-> Over(k)]
      d == [dev EXCEPT ![x].caps = caps,
                       ![x].prefs["audio"] = IF @[1] = NoCodec THEN caps["audio"] ELSE @]
  IN /\ dev' = d
     /\ line' = CapabilitiesByDevice(line, d, x)
     /\ UNCHANGED call /\ Counted

VideoKey(x, video) == video # <<>>

\* UpdateCapabilities: an entry that is no audio codec leaves its slot alone;
\* no video entries at all takes video away from the phone.
HandleUpdateCapabilities(x, audio, video) ==
  LET Over(k, s) == [i \in Slots |-> IF i <= Len(s) /\ s[i] \in CodecsOf(k)
                                     THEN s[i] ELSE dev[x].caps[k][i]]
      a == Over("audio", audio)
      v == IF video = <<>> THEN [dev[x].caps["video"] EXCEPT ![1] = NoCodec]
           ELSE Over("video", video)
      p == dev[x].prefs
      d == [dev EXCEPT ![x] =
             [prefs |-> [audio |-> IF audio = <<>> THEN p["audio"] ELSE ReducedBy(p["audio"], a),
                         video |-> IF video = <<>> THEN p["video"] ELSE ReducedBy(p["video"], v)],
              caps |-> [audio |-> a, video |-> v],
              videoKey |-> VideoKey(x, video)]]
  IN /\ dev' = d
     /\ line' = CapabilitiesByDevice(line, d, x)
     /\ UNCHANGED call /\ Counted

LinedeviceCreate(x) ==
  /\ x \notin Range(line.devices)
  /\ LET l == [line EXCEPT !.devices = <<x>> \o @]
     IN line' = CapabilitiesFromDevices(PreferencesFromDevices(l, dev), dev)
  /\ UNCHANGED <<dev, call>> /\ Counted

LinedeviceRemove(x) ==
  /\ x \in Range(line.devices)
  /\ call.live => call.device # x
  /\ LET l == [line EXCEPT !.devices = SelectSeq(@, LAMBDA y : y # x)]
     IN line' = CapabilitiesFromDevices(PreferencesFromDevices(l, dev), dev)
  /\ UNCHANGED <<dev, call>> /\ Counted

\* A call placed from phone x, or offered to the line (x = NoDevice).  Without
\* preferences or capabilities it is given up at once.
ChannelAllocate(x) ==
  /\ ~call.live /\ line.devices # <<>>
  /\ x \in Range(line.devices) \cup {NoDevice}
  /\ LET l == IF line.caps["audio"][1] = NoCodec THEN CapabilitiesFromDevices(line, dev) ELSE line
         c == ChannelReduced(Allocate(line, x), l, x)
     IN /\ line' = l
        /\ call' = IF c.prefs["audio"][1] = NoCodec \/ c.caps["audio"][1] = NoCodec
                   THEN NoCall ELSE c
  /\ UNCHANGED dev /\ Counted

AnswerOn(x) ==
  /\ call.live /\ call.device = NoDevice /\ x \in Range(line.devices)
  /\ call' = SetDevice(call, line, x)
  /\ UNCHANGED <<dev, line, changes>>

\* Asterisk tells what the other end can do; it is asked while nothing is known.
SetRemoteCapabilities(list) ==
  /\ call.live /\ call.remote["audio"][1] = NoCodec
  /\ call' = [call EXCEPT !.remote = [k \in Kinds |->
                Pad(SelectSeq(list, LAMBDA c : c \in CodecsOf(k)))]]
  /\ UNCHANGED <<dev, line, changes>>

\* sccp_channel_recalculateAudioCodecFormat before the receive channel opens.
RecalculateAudio ==
  /\ call.live /\ ~call.receiving
  /\ LET r == Recalculated(call, "audio")
     IN /\ dev' = Keeps(dev, call, "audio", r)
        /\ call' = [Takes(call, "audio", r) EXCEPT !.receiving = TRUE]
  /\ UNCHANGED <<line, changes>>

RecalculateVideo ==
  /\ call.live /\ call.format["video"] = NoCodec
  /\ LET r == Recalculated(call, "video")
     IN /\ dev' = Keeps(dev, call, "video", r)
        /\ call' = Takes(call, "video", r)
  /\ UNCHANGED <<line, changes>>

CloseReceive ==
  /\ call.live /\ call.receiving
  /\ call' = [call EXCEPT !.receiving = FALSE]
  /\ UNCHANGED <<dev, line, changes>>

\* CHANNEL(codec)=...: the list becomes the call's, and from now on the line
\* counts as having preferences of its own.
SetPreferredCodec(list) ==
  /\ call.live /\ ~call.receiving
  /\ LET parsed == ParseAllowDisallow(Empty, list, TRUE).codecs
         New(k) == CodecsByType(parsed, k)
         c == [call EXCEPT !.prefs = [k \in Kinds |-> IF New(k)[1] # NoCodec THEN New(k) ELSE @[k]]]
         Own(k) == ReducedBy(c.prefs[k], c.caps[k])
         joint == FindBestJoint(Own("audio"), c.remote["audio"], TRUE)
         vjoint == FindBestJoint(Own("video"), c.remote["video"], FALSE)
     IN call' = [c EXCEPT !.prefs = [k \in Kinds |-> Own(k)],
                          !.format = [audio |-> IF joint # NoCodec THEN joint ELSE Wideband,
                                      video |-> IF vjoint # NoCodec THEN vjoint ELSE @["video"]]]
  /\ line' = [line EXCEPT !.level = TRUE]
  /\ UNCHANGED <<dev, changes>>

Hangup == call.live /\ call' = NoCall /\ UNCHANGED <<dev, line, changes>>

\* The phones are configured and their lines attached; none has reported yet.
CodecsInit ==
  /\ \E config \in Configs :
       /\ ParseCodecPreferences(NoSets, config) # NoSets
       /\ dev = [x \in Devices |-> [prefs |-> ParseCodecPreferences(NoSets, config),
                                   caps |-> NoSets, videoKey |-> FALSE]]
  /\ line = CapabilitiesFromDevices(PreferencesFromDevices(
              [prefs |-> NoSets, caps |-> NoSets, level |-> FALSE, shared |-> FALSE,
               devices |-> SetToSeq(Devices)], dev), dev)
  /\ call = NoCall
  /\ changes = 0
CodecsIdle ==
  /\ dev = [x \in Devices |-> [prefs |-> NoSets, caps |-> NoSets, videoKey |-> FALSE]]
  /\ line = [prefs |-> NoSets, caps |-> NoSets, level |-> FALSE, shared |-> FALSE, devices |-> <<>>]
  /\ call = NoCall /\ changes = 0

CodecsNext ==
  \/ \E x \in Devices, c \in Configs, pending \in BOOLEAN : PostReload(x, c, pending)
  \/ \E c \in Configs : ApplyLineConfiguration(c)
  \/ \E list \in Preferred : SetPreferredCodec(list)
  \/ \E x \in Devices, list \in CapLists : HandleCapabilitiesRes(x, list)
  \/ \E x \in Devices, list \in CapLists :
       HandleUpdateCapabilities(x, SelectSeq(list, LAMBDA c : c \notin CodecsOf("video")),
                                   SelectSeq(list, LAMBDA c : c \in CodecsOf("video")))
  \/ \E x \in Devices : LinedeviceCreate(x) \/ LinedeviceRemove(x) \/ AnswerOn(x)
  \/ \E x \in Devices \cup {NoDevice} : ChannelAllocate(x)
  \/ \E list \in RemoteLists : SetRemoteCapabilities(list)
  \/ RecalculateAudio \/ RecalculateVideo \/ CloseReceive \/ Hangup

-----------------------------------------------------------------------------
(* Properties *)

\* Every list is an array of codecs and empty slots, whatever the handlers
\* leave behind in it.
TypeOK ==
  /\ changes \in 0..MaxChanges
  /\ dev \in [Devices -> [prefs : [Kinds -> Arrays], caps : [Kinds -> Arrays], videoKey : BOOLEAN]]
  /\ line.prefs \in [Kinds -> Arrays] /\ line.caps \in [Kinds -> Arrays]
  /\ line.level \in BOOLEAN /\ line.shared \in BOOLEAN /\ line.devices \in Seq(Devices)
  /\ call.live => /\ call.device \in Devices \cup {NoDevice} /\ call.receiving \in BOOLEAN
                  /\ call.prefs \in [Kinds -> Arrays] /\ call.caps \in [Kinds -> Arrays]
                  /\ call.remote \in [Kinds -> Arrays]
                  /\ call.format \in [Kinds -> AllCodecs \cup {NoCodec, Wideband}]

First(a, c) == CHOOSE i \in DOMAIN a : a[i] = c /\ \A j \in 1..(i - 1) : a[j] # c
Follows(new, old) ==
  /\ Range(new) \subseteq Range(old)
  /\ \A c, e \in Range(new) : First(new, c) < First(new, e) => First(old, c) < First(old, e)

\* The order of preference the configuration gives is never changed by what
\* phones and calls do: a phone's list is only ever shortened, except by a
\* reload or when nothing was left of it (reduceSet works in place, on lists
\* that stale slots filled with duplicates).
OrderKept ==
  [][\A x \in Devices, k \in Kinds :
       LET old == Live(dev[x].prefs[k])
       IN \/ old = <<>>
          \/ Follows(Live(dev'[x].prefs[k]), old)
          \/ \E c \in Configs, pending \in BOOLEAN : PostReload(x, c, pending)]_codecVars

\* The codec a call is opened with is the one highest in the list in force
\* that the other end supports too, when there is one; without a list of the
\* line it is one the phone supports.
ChosenIsBest ==
  [][(call.live /\ call'.live /\ call'.receiving /\ ~call.receiving) =>
       LET own == IF UsesDevicePrefs(call) THEN Live(dev'[call.device].prefs["audio"])
                  ELSE Live(call'.prefs["audio"])
           both == {i \in DOMAIN own : own[i] \in Range(Live(call.remote["audio"]))}
           f == call'.format["audio"]
       IN /\ both # {} => f = own[CHOOSE i \in both : \A j \in both : i <= j]
          /\ UsesDevicePrefs(call) => f \in Range(Live(dev[call.device].caps["audio"])) \cup {Wideband}
     ]_codecVars

\* What a shared line says it supports includes what each of its phones
\* supports, after every attach, detach and new report of capabilities
\* (combineSets appends to an array another phone's report may have left with
\* gaps and duplicates).
LineCovers ==
  \A i \in DOMAIN line.devices, k \in Kinds :
    Range(Live(dev[line.devices[i]].caps[k])) \subseteq Range(Live(line.caps[k]))

=============================================================================
