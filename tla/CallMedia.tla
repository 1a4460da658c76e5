------------------------------ MODULE CallMedia ------------------------------
(***************************************************************************)
(* The media of one call (sccp_channel.c, sccp_rtp.c): the audio and video *)
(* directions between the phone and Asterisk, and the functions that open, *)
(* start, stop and close them.  Every operator takes the record of a call  *)
(* and returns it changed; what is sent to the phone is what the status of *)
(* a direction says.                                                       *)
(*   dev        phone the call is on, or NoDevice                          *)
(*   owner      it has its Asterisk channel; soft: that one is asked to go *)
(*   rtp, vrtp  the audio and video RTP instance exist                     *)
(*   rx, tx, vrx, vtx  status bits of reception and transmission           *)
(*   cb         callback of the audio reception                            *)
(*   ports      Asterisk still has an RTP port for the call                *)
(***************************************************************************)
EXTENDS Naturals

CONSTANTS
    Phones,          \* phones on the shared line
    NoDevice,        \* the NULL device
    NatPhones,       \* phones behind NAT (d->nat >= SCCP_NAT_ON)
    VideoPhones,     \* phones with video (sccp_device_isVideoSupported)
    LineVideoMode    \* l->videomode

ASSUME MediaAssumption ==
    /\ NatPhones \subseteq Phones /\ VideoPhones \subseteq Phones
    /\ NoDevice \notin Phones
    /\ LineVideoMode \in {"off", "auto", "user"}

Idling == {"down", "onhook"}
Dialing == {"offhook", "digitsfoll", "dialing"}
SettingUp == {"ringout", "alerting", "ringing", "proceed", "progress"}
Connected == {"connected", "hold", "callwaiting", "calltransfer"}
Terminating == {"busy", "congestion", "invalid"}
ChannelStates == Idling \cup Dialing \cup SettingUp \cup Connected \cup Terminating

\* The call is ending: nothing may be opened or started for it.
Blocked(c) == c.hup \/ ~c.owner \/ c.soft

(* sccp_rtp_createServer: a port is taken from Asterisk once per call. *)
CreateServer(c) == IF c.ports THEN [c EXCEPT !.rtp = TRUE] ELSE c
CreateVideoServer(c) == IF c.ports THEN [c EXCEPT !.vrtp = TRUE] ELSE c

OpenReceive(c) ==
    IF Blocked(c) \/ c.rx # {} \/ c.dev = NoDevice \/ ~(c.rtp \/ c.ports) THEN c
    ELSE [(IF c.rtp THEN c ELSE CreateServer(c)) EXCEPT !.rx = {"progress"}]

CloseReceive(c) == IF c.dev = NoDevice THEN c ELSE [c EXCEPT !.rx = {}]

StopTransmission(c) == IF c.dev = NoDevice THEN c ELSE [c EXCEPT !.tx = {}]

(* sccp_channel_startMediaTransmission: the phone must be receiving, unless *)
(* the transmission is the one that opens the NAT.                          *)
StartTransmission(c) ==
    IF Blocked(c) \/ c.tx # {} \/ c.dev = NoDevice THEN c
    ELSE IF (~c.rtp \/ c.rx = {}) /\ ~c.punch THEN CloseReceive(c)
    ELSE [c EXCEPT !.tx = {"progress"}]

StopsTransmission(c) == IF c.tx # {} THEN StopTransmission(c) ELSE c
StartsTransmission(c) == IF c.tx = {} THEN StartTransmission(c) ELSE c
UpdateMediaTransmission(c) == StartsTransmission(StopsTransmission(c))

(* sccp_rtp_runCallback for the callback a connected call sets: it runs once *)
(* and only on an active reception.                                          *)
RunStartCallback(c) ==
    IF c.cb = "start" /\ "active" \in c.rx
    THEN StartTransmission([c EXCEPT !.cb = "none"])
    ELSE c

(* The Asterisk side moved its end (sccp_rtp_set_peer): a transmission that *)
(* was started is started again to the new address.                         *)
SetPeer(c) == IF c.tx # {} THEN UpdateMediaTransmission(c) ELSE c

----------------------------------------------------------------------------
(* Video.  The mode is turned off when no port or payload is available.      *)

CloseVideoReceive(c) ==
    IF c.dev = NoDevice THEN c
    ELSE [StopTransmission(c) EXCEPT !.vrx = {}, !.vmode = LineVideoMode]

StopVideo(c) == IF c.dev = NoDevice THEN c ELSE [c EXCEPT !.vtx = {}]

ClosesVideoReceive(c) == IF c.vrx # {} THEN CloseVideoReceive(c) ELSE c
StopsVideo(c) == IF c.vtx # {} THEN StopVideo(c) ELSE c

\* sccp_channel_setVideoMode(off)
VideoOff(c) ==
    IF c.vrtp THEN [StopVideo(ClosesVideoReceive(c)) EXCEPT !.vmode = "off"]
    ELSE [c EXCEPT !.vmode = "off"]

NoVideo(c) == c.vmode = "off" \/ c.dev \notin VideoPhones

OpenVideoReceive(c) ==
    IF Blocked(c) \/ c.vrx # {} \/ NoVideo(c) THEN c
    ELSE IF ~c.vrtp /\ ~c.ports THEN VideoOff(c)
    ELSE [(IF c.vrtp THEN c ELSE CreateVideoServer(c)) EXCEPT !.vrx = {"progress"}]

StartVideo(c) ==
    IF Blocked(c) \/ c.vtx # {} \/ NoVideo(c) THEN c
    ELSE IF ~c.vrtp THEN VideoOff(c)
    ELSE [c EXCEPT !.vtx = {"progress"}]

\* A call that is held, resumed or switched to automatic video gets both directions.
OpensVideo(c) == IF c.vrx = {} THEN OpenVideoReceive(c) ELSE c
SendsVideo(c) == IF "active" \in c.vrx /\ c.vtx = {} THEN StartVideo(c) ELSE c
VideoBothWays(c) == SendsVideo(OpensVideo(c))

SetVideoMode(c, mode) ==
    LET set == [c EXCEPT !.vmode = mode]
        \* state >= SCCP_GROUPED_CHANNELSTATE_SETUP
        past == c.st \in Connected \cup Terminating \cup {"progress"}
    IN  IF mode = "off" THEN VideoOff(set)
        ELSE IF mode = "auto" /\ past /\ ~c.hup THEN [VideoBothWays(set) EXCEPT !.vmode = mode]
        ELSE set

----------------------------------------------------------------------------
(* All directions, only those that are open. *)
ClosesReceive(c) == IF c.rx # {} THEN CloseReceive(c) ELSE c
MCloseAllMedia(c) == StopsVideo(StopsTransmission(ClosesVideoReceive(c)))
CloseAllMedia(c) == StopsVideo(StopsTransmission(ClosesVideoReceive(ClosesReceive(c))))

(* Hole punching: a phone behind NAT that calls out transmits before it is   *)
(* told to receive, so that its NAT lets the early media in.                 *)
StartHolePunch(c) == StartTransmission([c EXCEPT !.punch = TRUE])

FinishHolePunch(c, keepOpen) ==
    IF ~c.punch THEN c
    ELSE IF keepOpen THEN [c EXCEPT !.punch = FALSE]
    ELSE [OpenReceive(StopTransmission(c)) EXCEPT !.punch = FALSE]

(* Early media, once per call: reception, or the hole punch that precedes it. *)
ProgressReceive(c) ==
    IF c.rx # {} THEN c
    ELSE IF c.calltype # "in" /\ c.dev \in NatPhones THEN StartHolePunch(c)
    ELSE OpenReceive(c)
ProgressVideo(c) == IF c.vrx = {} /\ c.vmode # "off" THEN OpenVideoReceive(c) ELSE c
MakeProgress(c) ==
    IF ~c.early \/ c.sent \/ (c.rx = {} /\ c.dev = NoDevice) THEN c
    ELSE [ProgressVideo(ProgressReceive(c)) EXCEPT !.sent = TRUE]

(* The media part of indicating CONNECTED. *)
EndPunch(c, d) == IF c.calltype # "in" /\ d \in NatPhones THEN FinishHolePunch(c, TRUE) ELSE c
OpensMedia(c) ==
    IF c.rx = {} THEN OpenReceive(c)
    ELSE IF c.tx = {} THEN RunStartCallback(c)
    ELSE [c EXCEPT !.cb = "none"]
ConnectMedia(c, d) == OpensMedia(EndPunch(IF c.punch THEN c ELSE [c EXCEPT !.cb = "start"], d))
=============================================================================
