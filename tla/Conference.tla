------------------------------ MODULE Conference ------------------------------
(***************************************************************************)
(* One conference (sccp_conference.c, with the features that feed it in    *)
(* sccp_feature.c): it is created by a phone, parties are added to it,     *)
(* join its bridge in threads of their own, are muted, kicked, promoted,   *)
(* hear music while it is on hold, leave, and the conference ends.         *)
(*                                                                         *)
(* The conference and its participants are reference counted; `refs`       *)
(* counts the references to the conference, a participant is destroyed     *)
(* when the last of its holders (the code that adds it, the roster, its    *)
(* thread, a queued kick, a command) lets it go.  The Asterisk bridge is   *)
(* external: joining it blocks until the party hangs up, is removed or the *)
(* bridge dissolves, which it does when its last party leaves.             *)
(***************************************************************************)
EXTENDS Integers, Sequences, FiniteSets, SequencesExt

CONSTANTS
    Parties,       \* who may be in the conference
    Phones,        \* the parties that are phones of this driver
    Owner,         \* the phone that creates the conference
    NoParty,       \* no party
    MusicPhones,   \* phones with a music class (conf_music_on_hold_class)
    MuteOnEntry,   \* the owner's conf_mute_on_entry
    ShowList,      \* the owner's conf_show_conflist
    MaxCommands,   \* bound: commands of phones and of the console
    MaxSteps       \* bound: steps of a behaviour in which commands are given

ASSUME ConferenceAssumption ==
    /\ IsFiniteSet(Parties) /\ Phones \subseteq Parties
    /\ Owner \in Phones /\ NoParty \notin Parties
    /\ MusicPhones \subseteq Phones /\ MuteOnEntry \in BOOLEAN /\ ShowList \in BOOLEAN
    /\ MaxCommands \in Nat /\ MaxSteps \in Nat

VARIABLES
    conf,    \* the conference
    roster,  \* conference->participants
    part,    \* what concerns each party
    cmd,     \* the command being carried out: [op, p], p retained
    end,     \* sccp_conference_end: how far each caller of it is (NoParty: cmd)
    count    \* [given, commands, steps]: commands are given at all, how many were,
             \* and the steps so far where they are

vars == <<conf, roster, part, cmd, end, count>>
World == [conf |-> conf, roster |-> roster, part |-> part, cmd |-> cmd, end |-> end]

Idle == [op |-> "none", from |-> "none", p |-> NoParty]
Actors == Parties \cup {NoParty}

\* setup: how far the owner's thread is with making the conference
NoConference ==
    [setup |-> "no", state |-> "up", listed |-> FALSE, refs |-> 0, mods |-> 0, finishing |-> 0,
     held |-> FALSE, bridge |-> FALSE, lost |-> 0]
\* chan, dev: the phone's channel->conference and device->conference;
\* list: it shows the list of participants (conferencelist_active);
\* away: its conference call is on HOLD; joining: whom it adds with the Join key;
\* wish: whether somebody asked for the party to be muted
NewParty ==
    [life |-> "none", id |-> 0, adding |-> "no", thread |-> "none", num |-> 0,
     mod |-> FALSE, pending |-> FALSE, mute |-> FALSE, wish |-> FALSE, moh |-> FALSE,
     phone |-> FALSE, hung |-> FALSE, told |-> FALSE, kick |-> "no",
     chan |-> FALSE, dev |-> FALSE, list |-> FALSE, away |-> FALSE, joining |-> NoParty]
Nobody ==
    [conf |-> NoConference, roster |-> <<>>, part |-> [p \in Parties |-> NewParty],
     cmd |-> Idle, end |-> [a \in Actors |-> "no"]]

StartFrom(w) ==
    /\ conf = w.conf /\ roster = w.roster /\ part = w.part /\ cmd = w.cmd /\ end = w.end
    /\ count \in [given : BOOLEAN, commands : {0}, steps : {0}]
Init == StartFrom(Nobody)

CanStep == conf.state = "up" /\ (count.given => count.steps < MaxSteps)
Counted(n) ==
    IF count.given THEN [count EXCEPT !.steps = @ + 1, !.commands = @ + n] ELSE count

CommandsLeft == count.given /\ count.commands < MaxCommands

Become(w) ==
    /\ CanStep
    /\ conf' = w.conf /\ roster' = w.roster /\ part' = w.part /\ cmd' = w.cmd /\ end' = w.end
    /\ count' = Counted(0)

Crash(w) == [w EXCEPT !.conf.state = "crashed"]

----------------------------------------------------------------------------
(* References *)

Retain(w) == [w EXCEPT !.conf.refs = @ + 1]
\* __sccp_conference_destroy takes the bridge down with the last reference
Release(w, n) ==
    LET left == w.conf.refs - n
    IN  IF left > 0 THEN [w EXCEPT !.conf.refs = left]
        ELSE [w EXCEPT !.conf.refs = 0, !.conf.state = "freed", !.conf.bridge = FALSE]

\* d->conference is set to a reference the caller holds; one that was there is lost
PointDevice(w, p) ==
    [w EXCEPT !.part[p].dev = TRUE, !.conf.lost = @ + (IF w.part[p].dev THEN 1 ELSE 0)]

Running(w, p) == w.part[p].thread \notin {"none", "done"}
InUse(w, p) ==
    \/ w.part[p].adding # "no" \/ Contains(w.roster, p) \/ Running(w, p)
    \/ w.part[p].kick # "no" \/ w.cmd.p = p

One(b) == IF b THEN 1 ELSE 0

\* The phone's hangup, and the participant's end, give back its pointers
MReleasePhone(w, p) ==
    Release([w EXCEPT !.part[p].chan = FALSE, !.part[p].dev = FALSE], One(w.part[p].chan))
ReleasePhone(w, p) ==
    Release([w EXCEPT !.part[p].chan = FALSE, !.part[p].dev = FALSE],
            One(w.part[p].chan) + One(w.part[p].dev))

\* __sccp_participant_destroy, when nobody holds p any more
Dropped(w, p) ==
    IF w.part[p].life # "alive" \/ InUse(w, p) THEN w
    ELSE LET gone == [w EXCEPT !.part[p].life = "gone", !.conf.mods = @ - One(w.part[p].mod)]
         IN  Release(IF w.part[p].phone THEN ReleasePhone(gone, p) ELSE gone, 1)

----------------------------------------------------------------------------
(* The end of the conference *)

\* finishing is fetched and added to in one: only the first caller goes on
EndBegin(w, a) ==
    [w EXCEPT !.conf.finishing = @ + 1,
              !.end[a] = IF w.conf.finishing = 0 THEN "others" ELSE "over"]

Tell(w, S) == [w EXCEPT !.part = [p \in Parties |->
    [w.part[p] EXCEPT !.told = @ \/ (p \in S /\ w.part[p].thread = "in")]]]

\* The roster is held for reading during both passes.  A party that is not in
\* the bridge cannot be removed from it; naming one whose channel is gone fails.
EndOthers(w, a) ==
    LET S == {p \in Range(w.roster) : ~w.part[p].mod /\ ~w.part[p].pending}
    IN  IF \E p \in S : w.part[p].thread \in {"out", "decide", "ending", "done"} THEN Crash(w)
        ELSE [Tell(w, S) EXCEPT !.end[a] = "moderators"]
EndModerators(w, a) ==
    [Tell(w, {p \in Range(w.roster) : w.part[p].mod /\ ~w.part[p].pending})
        EXCEPT !.end[a] = "unlist"]
MEndUnlist(w, a) ==
    IF w.roster = <<>> THEN [w EXCEPT !.end[a] = "over"]
    ELSE Release([w EXCEPT !.conf.listed = FALSE, !.end[a] = "over"], One(w.conf.listed))
EndUnlist(w, a) ==
    Release([w EXCEPT !.conf.listed = FALSE, !.end[a] = "over"], One(w.conf.listed))

RosterLocked(w) == \E a \in Actors : w.end[a] \in {"others", "moderators"}
Ending(w) == \E a \in Actors : w.end[a] \in {"begin", "others", "moderators", "unlist"}

----------------------------------------------------------------------------
(* The list of participants, mute and music *)

\* sccp_conference_update_conflist: it is sent again to the phones that show it
\* and, but for a hold, to those that moderate
ShowsList(w, p) ==
    /\ Contains(w.roster, p) /\ w.part[p].phone
    /\ w.part[p].list \/ (w.part[p].mod /\ ~w.conf.held)
UpdateList(w) ==
    IF w.conf.finishing > 0 THEN w
    ELSE [w EXCEPT !.part = [p \in Parties |-> [w.part[p] EXCEPT !.list = @ \/ ShowsList(w, p)]]]

ToggleMute(w, p) == UpdateList([w EXCEPT !.part[p].mute = ~@])

\* sccp_conference_play_music_on_hold_to_participant: without a music class the
\* party is muted instead; a party that is not in the bridge keeps its music
PlayMusic(q, p, start) ==
    CASE ~q.phone \/ (start /\ q.moh) -> q
      [] q.phone /\ ~(start /\ q.moh) /\ p \notin MusicPhones -> [q EXCEPT !.mute = ~@]
      [] OTHER -> IF q.thread = "in" THEN [q EXCEPT !.moh = start] ELSE q

\* For the whole roster, moderators apart.  The conference is marked as held all
\* the while, so that what is sent meanwhile changes no list.
MusicForAll(w, start) ==
    [w EXCEPT !.part = [p \in Parties |->
        CASE p \notin Range(w.roster) -> w.part[p]
          [] p \in Range(w.roster) /\ ~w.part[p].mod -> PlayMusic(w.part[p], p, start)
          [] OTHER -> [w.part[p] EXCEPT !.list = @ /\ ~start]]]
ConferenceHold(w) ==
    IF w.conf.held \/ w.conf.mods < 1 THEN w
    ELSE MusicForAll([w EXCEPT !.conf.held = TRUE], TRUE)
ConferenceResume(w) ==
    IF w.conf.held THEN UpdateList([MusicForAll(w, FALSE) EXCEPT !.conf.held = FALSE]) ELSE w

----------------------------------------------------------------------------
(* A party is added *)

\* sccp_conference_createParticipant: the number is the roster's length, plus one
CreateParticipant(w, p) ==
    Retain([w EXCEPT !.part[p].life = "alive", !.part[p].id = Len(w.roster) + 1,
                     !.part[p].adding = "made", !.part[p].mute = MuteOnEntry,
                     !.part[p].wish = MuteOnEntry])

\* sccp_conference_create: a reference for the caller, one for the list of
\* conferences; the owner's channel and device are there from the start
Create ==
    /\ conf.setup = "no"
    /\ LET made == [World EXCEPT !.conf.setup = "creating", !.conf.listed = TRUE,
                                 !.conf.refs = 2, !.conf.bridge = TRUE]
       IN  Become([CreateParticipant(made, Owner)
                    EXCEPT !.conf.mods = 1, !.part[Owner].phone = TRUE])

\* The thread (and for an added party the masquerade) may fail.  The creator
\* then loses its reference, and the conference stays in the list.
StartThread(p) ==
    /\ part[p].adding = "made"
    /\ \/ Become([World EXCEPT !.part[p].adding = "started", !.part[p].thread = "join"])
       \/ LET failed == [World EXCEPT !.part[p].adding = "no"]
          IN  Become(Dropped(IF p = Owner THEN [failed EXCEPT !.conf.lost = @ + 1,
                                                              !.conf.setup = "failed"]
                             ELSE failed, p))

AddToList(p) ==
    /\ part[p].adding = "started" /\ ~RosterLocked(World)
    /\ Become([World EXCEPT !.part[p].adding = "listed", !.roster = Append(@, p)])

\* The rest of the two functions that add a party: the phone's channel gets its
\* pointer to the conference
AttachPhone(p) ==
    /\ part[p].adding = "listed"
    /\ LET added == [World EXCEPT !.part[p].adding = "no"]
           held == Retain([added EXCEPT !.part[p].chan = TRUE, !.part[p].phone = TRUE])
       IN  Become(Dropped(CASE p = Owner -> [held EXCEPT !.part[p].mod = TRUE,
                                         !.part[p].list = ShowList, !.conf.setup = "created"]
                            [] p \in Phones \ {Owner} -> held
                            [] OTHER -> added, p))

\* sccp_pbx_softswitch: the device keeps the reference it was handed
ConferenceCreated ==
    /\ conf.setup = "created"
    /\ Become(PointDevice([World EXCEPT !.conf.setup = "adding"], Owner))

\* sccp_feat_conference_start adds the other ends of the calls on hold one after
\* the other, each time through d->conference as it is then
AddHeldCall(p) ==
    /\ conf.setup = "adding" /\ part[p].life = "none"
    /\ \A q \in Parties : part[q].adding = "no"
    /\ Become(IF part[Owner].dev THEN CreateParticipant(World, p) ELSE Crash(World))
ConferenceStarted ==
    /\ conf.setup = "adding" /\ \A q \in Parties : part[q].adding = "no"
    /\ Become(IF part[Owner].dev THEN UpdateList([World EXCEPT !.conf.setup = "done"])
              ELSE Crash(World))

\* sccp_feat_join: the phone's conference call is on hold, it adds the other
\* end of the call it is in and goes back to the conference
Join(d, p) ==
    /\ part[d].dev /\ part[d].away /\ part[d].joining = NoParty /\ conf.setup = "done"
    /\ part[p].life = "none"
    /\ LET held == ConferenceHold(Retain(World))
       IN  Become([CreateParticipant(held, p) EXCEPT !.part[d].joining = p])
Joined(d) ==
    /\ part[d].joining # NoParty /\ part[part[d].joining].adding = "no"
    /\ LET back == IF part[d].chan THEN [ConferenceResume(World) EXCEPT !.part[d].away = FALSE]
                   ELSE World
       IN  Become(Release([back EXCEPT !.part[d].joining = NoParty], 1))

\* sccp_channel_hold and sccp_channel_resume of a call in the conference
HoldCall(d) ==
    /\ part[d].chan /\ part[d].thread = "in" /\ ~part[d].away
    /\ Become([ConferenceHold(World) EXCEPT !.part[d].away = TRUE])
ResumeCall(d) ==
    /\ part[d].chan /\ part[d].thread = "in" /\ part[d].away /\ part[d].joining = NoParty
    /\ Become([ConferenceResume(World) EXCEPT !.part[d].away = FALSE])

----------------------------------------------------------------------------
(* sccp_conference_thread: one for each participant *)

\* pbx_bridge_join
JoinBridge(p) ==
    /\ part[p].thread = "join"
    /\ Become([World EXCEPT !.part[p].thread = IF conf.bridge /\ ~part[p].hung
                                               THEN "in" ELSE "left",
                            !.part[p].pending = @ \/ part[p].hung \/ ~conf.bridge])
LeaveBridge(p) ==
    /\ part[p].thread = "in" /\ (part[p].hung \/ part[p].told)
    /\ LET others == {q \in Parties \ {p} : part[q].thread = "in"}
       IN  Become([World EXCEPT !.part[p].thread = "left", !.part[p].pending = TRUE,
                                !.conf.bridge = others # {}])

\* The channel is hung up: for a phone, sccp_pbx_hangup drops its pointers
HangupPeer(p) ==
    /\ part[p].thread = "left"
    /\ LET out == [World EXCEPT !.part[p].thread = "out", !.part[p].hung = TRUE,
                                !.part[p].list = FALSE]
       IN  Become(IF p \in Phones THEN ReleasePhone(out, p) ELSE out)

\* SCCP_RWLIST_REMOVE: the entry is unlinked where it is
Unlink(s, p) ==
    IF Contains(s, p) THEN RemoveAt(s, CHOOSE n \in DOMAIN s : s[n] = p) ELSE s

\* sccp_conference_removeParticipant.  It looks into the entry it removed, and
\* there is none when the party leaves before it was listed.
RemoveParticipant(p) ==
    /\ part[p].thread = "out"
    /\ LET left == Unlink(roster, p)
       IN  Become(IF ~Contains(roster, p) /\ conf.finishing = 0 THEN Crash(World)
                  ELSE [World EXCEPT !.roster = left, !.part[p].num = Len(left),
                                     !.part[p].thread = "decide"])

LastOne(w, p) == (w.part[p].mod /\ w.conf.mods <= 1) \/ w.part[p].num <= 1
ThreadExit(w, p) == Dropped(UpdateList([w EXCEPT !.part[p].thread = "done"]), p)
DecideEnd(p) ==
    /\ part[p].thread = "decide"
    /\ Become(IF conf.finishing = 0 /\ LastOne(World, p)
              THEN [World EXCEPT !.part[p].thread = "ending", !.end[p] = "begin"]
              ELSE ThreadExit(World, p))

----------------------------------------------------------------------------
(* Commands *)

\* The participant list of a phone, and the console, name a participant by its
\* number; the first in the roster with that number is retained.
Issue(op, from, i) ==
    /\ cmd = Idle /\ end[NoParty] = "no" /\ conf.listed /\ CommandsLeft
    /\ op = "exit" => from = "phone"
    /\ from = "phone" => \E q \in Range(roster) : part[q].phone
    /\ \E n \in DOMAIN roster :
        /\ part[roster[n]].id = i /\ \A m \in 1..(n - 1) : part[roster[m]].id # i
        /\ CanStep
        /\ conf' = [conf EXCEPT !.refs = @ + 1]
        /\ cmd' = [op |-> op, from |-> from, p |-> roster[n]]
    /\ count' = Counted(1)
    /\ UNCHANGED <<roster, part, end>>

\* sccp_conference_promote_demote_participant; only phones can moderate
MPromote(w, p) == PointDevice(Retain([w EXCEPT !.part[p].mod = TRUE, !.part[p].list = TRUE]), p)
Promote(w, p) ==
    PointDevice(Retain([w EXCEPT !.part[p].mod = TRUE, !.part[p].list = TRUE,
                                 !.conf.mods = @ + 1]), p)
\* the code adds one to the moderators for the one it takes away
Demote(w, p) ==
    Release([w EXCEPT !.part[p].mod = FALSE, !.part[p].dev = FALSE, !.conf.mods = @ + 1],
            One(w.part[p].dev))
Moderate(w, p) ==
    UpdateList(CASE ~w.part[p].phone -> w
                 [] w.part[p].phone /\ ~w.part[p].mod -> Promote(w, p)
                 [] OTHER -> IF w.conf.mods > 1 THEN Demote(w, p) ELSE w)

CommandDone(w) == Release(Dropped([w EXCEPT !.cmd = Idle], w.cmd.p), 1)

Mute ==
    /\ cmd.op = "mute"
    /\ Become(CommandDone([ToggleMute(World, cmd.p) EXCEPT !.part[cmd.p].wish = ~@]))
\* A phone cannot kick a moderator, the console can; a worker does it later
QueueKick ==
    /\ cmd.op = "kick"
    /\ LET queued == (cmd.from = "console" \/ ~part[cmd.p].mod) /\ part[cmd.p].kick = "no"
       IN  Become(CommandDone(IF queued THEN [World EXCEPT !.part[cmd.p].kick = "queued"]
                              ELSE World))
PromoteOrDemote ==
    /\ cmd.op = "moderate"
    /\ Become(CommandDone(Moderate(World, cmd.p)))
\* the Exit key of the list, and the ConfList key of a phone in the conference
ExitList ==
    /\ cmd.op = "exit" /\ cmd.from = "phone"
    /\ \E q \in Range(roster) :
        /\ part[q].phone
        /\ Become(CommandDone([World EXCEPT !.part[q].list = FALSE]))
ListKey(d) ==
    /\ part[d].chan /\ part[d].thread = "in" /\ ~part[d].list /\ CommandsLeft
    /\ CanStep /\ part' = [part EXCEPT ![d].list = TRUE]
    /\ count' = Counted(1)
    /\ UNCHANGED <<conf, roster, cmd, end>>
EndConference ==
    /\ cmd.op = "end" /\ end[NoParty] = "no"
    /\ Become([World EXCEPT !.end[NoParty] = "begin"])

\* sccp_conference_kick_participant, in a worker: when the bridge does not have
\* the party, pendingRemoval is taken back
KickMark(p) ==
    /\ part[p].kick = "queued"
    /\ Become([World EXCEPT !.part[p].kick = "marked", !.part[p].pending = TRUE])
KickRemove(p) ==
    /\ part[p].kick = "marked"
    /\ LET tried == [World EXCEPT !.part[p].kick = "no", !.part[p].told = part[p].thread = "in",
                                  !.part[p].pending = part[p].thread = "in"]
       IN  Become(Dropped(tried, p))

----------------------------------------------------------------------------
(* sccp_conference_end, step by step, and what the others do *)

EndStep(a) ==
    \/ end[a] = "begin" /\ Become(EndBegin(World, a))
    \/ end[a] = "others" /\ Become(EndOthers(World, a))
    \/ end[a] = "moderators" /\ Become(EndModerators(World, a))
    \/ end[a] = "unlist" /\ Become(EndUnlist(World, a))
EndReturns(a) ==
    /\ end[a] = "over"
    /\ LET back == [World EXCEPT !.end[a] = "no"]
       IN  Become(IF a = NoParty THEN CommandDone(back) ELSE ThreadExit(back, a))

\* The party, or Asterisk, hangs up
Hangup(p) ==
    /\ part[p].life = "alive" /\ ~part[p].hung
    /\ Become([World EXCEPT !.part[p].hung = TRUE])

\* sccp_pbx_hangup of any other call of the phone takes d->conference with it
OtherCallEnds(d) ==
    /\ part[d].dev
    /\ Become(Release([World EXCEPT !.part[d].dev = FALSE], 1))

PartyStep(p) ==
    \/ StartThread(p) \/ AddToList(p) \/ AttachPhone(p) \/ AddHeldCall(p)
    \/ JoinBridge(p) \/ LeaveBridge(p) \/ HangupPeer(p) \/ RemoveParticipant(p)
    \/ DecideEnd(p) \/ KickMark(p) \/ KickRemove(p) \/ Hangup(p)
PhoneStep(d) ==
    \/ \E p \in Parties : Join(d, p)
    \/ Joined(d) \/ HoldCall(d) \/ ResumeCall(d) \/ ListKey(d) \/ OtherCallEnds(d)
CommandStep ==
    \/ \E op \in {"mute", "kick", "moderate", "exit", "end"}, from \in {"phone", "console"},
          i \in 1..Cardinality(Parties) : Issue(op, from, i)
    \/ Mute \/ ExitList \/ QueueKick \/ PromoteOrDemote \/ EndConference

Next ==
    \/ Create \/ ConferenceCreated \/ ConferenceStarted \/ CommandStep
    \/ \E p \in Parties : PartyStep(p)
    \/ \E d \in Phones : PhoneStep(d)
    \/ \E a \in Actors : EndStep(a) \/ EndReturns(a)

Spec == Init /\ [][Next]_vars

----------------------------------------------------------------------------
(* Properties *)

\* The type of the state; the roster has no party twice, however parties come
\* and go.
TypeOK ==
    /\ conf \in [setup : {"no", "creating", "created", "adding", "done", "failed"},
                 state : {"up", "freed", "crashed"}, listed : BOOLEAN, refs : Nat,
                 mods : Int, finishing : Nat, held : BOOLEAN, bridge : BOOLEAN, lost : Nat]
    /\ Range(roster) \subseteq Parties /\ IsInjective(roster)
    /\ \A p \in Parties :
        /\ part[p].life \in {"none", "alive", "gone"}
        /\ part[p].adding \in {"no", "made", "started", "listed"}
        /\ part[p].thread \in {"none", "join", "in", "left", "out", "decide", "ending", "done"}
        /\ part[p].kick \in {"no", "queued", "marked"}
        /\ part[p].joining \in Actors
    /\ cmd.p \in Actors
    /\ end \in [Actors -> {"no", "begin", "others", "moderators", "unlist", "over"}]

\* The conference has as many references as owners: the list of conferences,
\* each participant that is not destroyed, the pointers of channels and devices,
\* a phone that joins, a command, a creation under way, and those that a failed
\* creation or an overwritten pointer loses.  So it is never used after it was
\* freed, whoever leaves first.
OwnersCounted ==
    conf.state # "crashed" =>
        conf.refs = One(conf.listed) + conf.lost + One(conf.setup \in {"creating", "created"})
                    + One(cmd # Idle) + Cardinality({p \in Parties : part[p].life = "alive"})
                    + Cardinality({p \in Parties : part[p].chan})
                    + Cardinality({p \in Parties : part[p].dev})
                    + Cardinality({p \in Parties : part[p].joining # NoParty})

\* No participant that moderates is left out of the count of moderators, on
\* which the end of the conference depends, even while one is being destroyed.
ModeratorsCounted ==
    conf.state = "up" =>
        conf.mods >= Cardinality({p \in Parties : part[p].life = "alive" /\ part[p].mod})

\* Of all who end the conference (the last to leave, a phone, the console) one
\* takes it off the list of conferences: after it nobody finds it there.
EndedIsUnlisted == conf.finishing > 0 /\ ~Ending(World) => ~conf.listed \/ conf.state = "crashed"

=============================================================================
