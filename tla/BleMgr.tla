-------------------------------- MODULE BleMgr --------------------------------
(***************************************************************************)
(* The Bluetooth manager: src/src/tuya_cloud_service/ble/ble_mgr.c, with   *)
(* the receiving half of ble_trsmitr.c.                                    *)
(*                                                                         *)
(* The stack's events are copied and queued on the work queue; one that    *)
(* cannot be copied or queued is lost.  The copy of a write still points   *)
(* to the stack's own buffer, which is released when the stack's callback  *)
(* returns: the worker finds there what was written, or anything else.     *)
(* From what it finds it reassembles frames, checks them and hands them to *)
(* the sessions.  Two timers run beside it: the pairing timeout, and the   *)
(* monitor that stops advertising while the cloud is connected.            *)
(*                                                                         *)
(* A piece stands for the data of one write, and CRC, length and version   *)
(* checks for the comparison of the pieces with those of one frame.  Any   *)
(* piece of any frame may be found at any time.                            *)
(*                                                                         *)
(* A read or write through NULL stops the device: wk = "fault".            *)
(***************************************************************************)
EXTENDS Integers, Sequences

CONSTANTS
    Frames, FrameLen, FrameSn, \* frames of peers: number of pieces, packet number
    FrameKind,                 \* "pair", "alien" (pairs another device), "unbind", "info",
                               \* "empty" (a pairing or info request without data), "other"
    Plain, Sealed,             \* key from the device's own secrets; key of one pairing round
    AirFrameMax,               \* TUYA_BLE_AIR_FRAME_MAX, in pieces
    QueueLen,                  \* capacity of the work queue
    MaxConns, MaxRaw           \* bounds: connections; pieces collected without a first one

ASSUME BleAssumption ==
    /\ "zero" \notin Frames
    /\ FrameLen \in [Frames -> Nat \ {0}] /\ FrameSn \in [Frames -> Nat \ {0}]
    /\ Plain \subseteq Frames /\ Sealed \subseteq Frames
    /\ FrameKind \in [Frames -> {"pair", "alien", "unbind", "info", "empty", "other"}]
    /\ AirFrameMax \in Nat \ {0} /\ QueueLen \in Nat /\ MaxConns \in Nat /\ MaxRaw \in Nat

Pieces == UNION {[frame : {f}, no : 0..(FrameLen[f] - 1)] : f \in Frames}
ZERO == [frame |-> "zero", no |-> 0]   \* the fresh receive buffer

VARIABLES
    link, conns, drop,        \* stack: the connection (0: none), their count, it is being ended
    adv,                      \* the device advertises
    q,                        \* work queue: events, oldest first
    peer, is_paired,          \* connection in ble->peer_info (0: cleared); ble->is_paired
    timer, firing,            \* pair_timer is running; its callback is about to run
    total, cnt, subpkg_num,   \* trsmitr: total, pkg_trsmitr_cnt, subpkg_num
    subpkg,                   \* trsmitr: the first subpkg_len bytes of subpkg (no or one piece)
    raw,                      \* packet_recv: raw_buf and raw_len
    recv_sn,                  \* ble->recv_sn
    wk,                       \* worker: "idle", "advert" within the disconnection handler, "fault"
    piece,                    \* what the worker finds at p_data of the write at hand (ZERO: none)
    nosub,                    \* trsmitr->subpkg is NULL
    iot, s_iot_conn_stat, mon,\* cloud connected; as the monitor saw it; monitor step
    passed,                   \* history: frames handed to the sessions in this connection
    lost, unseen              \* history: an event was lost or reported a failure, or advertising
                              \* could not be started; the monitor has not seen the cloud
                              \* connection that kept the device from advertising

stackVars == <<link, conns, drop>>
trsVars == <<total, cnt, subpkg_num, subpkg, raw>>
rcvVars == <<recv_sn, passed>>
wkVars == <<wk, piece, nosub>>
monVars == <<iot, s_iot_conn_stat, mon>>
vars == <<stackVars, adv, q, peer, is_paired, timer, firing, trsVars, rcvVars, wkVars, monVars,
          lost, unseen>>

Event(kind, c) == [ev |-> kind, conn |-> c]

Init ==
    /\ link = 0 /\ conns = 0 /\ drop = FALSE /\ adv = FALSE
    /\ q \in {<<Event("init", 0)>>, <<>>}
    /\ peer = 0 /\ is_paired = FALSE /\ timer = FALSE /\ firing = FALSE
    /\ total = 0 /\ cnt = 0 /\ subpkg_num = 0 /\ subpkg = <<>> /\ raw = <<>>
    /\ recv_sn = 0 /\ passed = {}
    /\ wk = "idle" /\ piece = ZERO /\ nosub = FALSE
    /\ iot = FALSE /\ s_iot_conn_stat = FALSE /\ mon = "idle"
    /\ lost = (q = <<>>) /\ unseen = FALSE

------------------------------------------------------------------------------
(* The stack; its events go through tal_ble_event_on_worq.                    *)
Post(e) ==
    \/ /\ Len(q) < QueueLen
       /\ q' = Append(q, e)
       /\ UNCHANGED lost
    \/ /\ lost' = (lost \/ e.ev # "write")
       /\ UNCHANGED q

Connects ==
    /\ link = 0 /\ adv /\ conns < MaxConns
    /\ link' = conns + 1 /\ conns' = conns + 1 /\ drop' = FALSE /\ adv' = FALSE
    /\ Post(Event("connect", conns + 1))
    /\ UNCHANGED <<peer, is_paired, timer, firing, trsVars, rcvVars, wkVars, monVars, unseen>>

\* A connection that fails ends the advertising too, and nothing starts it again.
ConnectFails ==
    /\ link = 0 /\ adv /\ Len(q) < QueueLen
    /\ q' = Append(q, Event("failed", 0))
    /\ adv' = FALSE /\ lost' = TRUE
    /\ UNCHANGED <<stackVars, peer, is_paired, timer, firing, trsVars, rcvVars, wkVars, monVars,
                   unseen>>

Drops ==
    /\ link # 0
    /\ link' = 0 /\ drop' = FALSE
    /\ Post(Event("disconnect", 0))
    /\ UNCHANGED <<conns, adv, peer, is_paired, timer, firing, trsVars, rcvVars, wkVars, monVars,
                   unseen>>

Writes ==
    /\ link # 0
    /\ Post(Event("write", 0))
    /\ UNCHANGED <<stackVars, adv, peer, is_paired, timer, firing, trsVars, rcvVars, wkVars,
                   monVars, unseen>>

\* tal_ble_disconnect(ble->peer_info): the handle in peer_info is surely the right one
\* only if it came with the present connection.
Disconnect ==
    IF peer = link THEN drop' = (link # 0) ELSE drop' \in {drop, link # 0}

------------------------------------------------------------------------------
(* The worker: tal_ble_event_callback.                                        *)
Takes(kind) ==
    /\ wk = "idle" /\ piece = ZERO
    /\ q # <<>> /\ Head(q).ev = kind /\ q' = Tail(q)

\* ble_adv_update: unless paired it stops and starts the advertising, and that it
\* could not is only logged.
AdvUpdate ==
    IF is_paired THEN UNCHANGED <<adv, lost>>
    ELSE \/ adv' = TRUE /\ UNCHANGED lost
         \/ adv' \in {FALSE, adv} /\ lost' = TRUE

\* The result that came with the event is a success, or not.
StackInit ==
    /\ Takes("init")
    /\ AdvUpdate \/ (lost' = TRUE /\ UNCHANGED adv)
    /\ UNCHANGED <<stackVars, peer, is_paired, timer, firing, trsVars, rcvVars, wkVars, monVars,
                   unseen>>

ConnectionBeginsUntimed ==
    /\ Takes("connect")
    /\ peer' = Head(q).conn /\ recv_sn' = 0 /\ passed' = {}
    /\ UNCHANGED <<stackVars, adv, is_paired, timer, firing, trsVars, wkVars, monVars, lost,
                   unseen>>
ConnectionBegins ==
    /\ Takes("connect")
    /\ peer' = Head(q).conn
    /\ recv_sn' = 0 /\ passed' = {}
    /\ timer' = TRUE
    /\ UNCHANGED <<stackVars, adv, is_paired, firing, trsVars, wkVars, monVars, lost, unseen>>

ConnectionFailed ==
    /\ Takes("failed")
    /\ peer' = 0
    /\ UNCHANGED <<stackVars, adv, is_paired, timer, firing, trsVars, rcvVars, wkVars, monVars,
                   lost, unseen>>

ConnectionEnds ==
    /\ Takes("disconnect")
    /\ peer' = 0 /\ timer' = FALSE /\ is_paired' = FALSE
    /\ wk' = "advert"
    /\ UNCHANGED <<stackVars, adv, firing, piece, nosub, trsVars, rcvVars, monVars, lost, unseen>>

\* Its second half, where the cloud connection is looked at.
AdvertisesAgain ==
    /\ wk = "advert" /\ wk' = "idle"
    /\ IF iot THEN unseen' = (unseen \/ ~s_iot_conn_stat) /\ UNCHANGED <<adv, lost>>
              ELSE AdvUpdate /\ UNCHANGED unseen
    /\ UNCHANGED <<stackVars, q, peer, is_paired, timer, firing, piece, nosub, trsVars, rcvVars,
                   monVars>>

------------------------------------------------------------------------------
(* A write: ble_packet_recv, then the sessions.                               *)
(* ble_frame_trsmitr_recv_pkg_decode of a piece p.  pkg_desc is left out: where *)
(* it is used it tells whether p is a first piece.                            *)
\* A first piece starts anew, and brings the length of the frame.
StartKept(p) == cnt
Start(p) == IF p.no = 0 THEN 0 ELSE cnt
Total(p) == IF p.no = 0 THEN FrameLen[p.frame] ELSE total
\* What exceeds the length is cut off.
Data(p) == IF Start(p) < Total(p) THEN <<p>> ELSE <<>>

DecodeOffByOne(p) ==
    /\ subpkg_num' = p.no - 1
    /\ total' = Total(p) /\ cnt' = Start(p) + Len(Data(p))
Decode(p) ==
    /\ subpkg_num' = p.no
    /\ total' = Total(p) /\ cnt' = Start(p) + Len(Data(p))

\* The number is that of a first piece, or follows the one before.
InOrder(p) == p.no \in {0, subpkg_num + 1}
Repeated(p) == p.no # 0 /\ p.no = subpkg_num

\* ble_packet_trsmitr collects the pieces; past AirFrameMax only raw_len grows.
Collected(p) == IF p.no = 0 THEN Data(p) ELSE raw \o Data(p)

\* The bytes of one whole frame: decryption, length and CRC succeed.
Whole(r, f) ==
    /\ Len(r) = FrameLen[f] /\ Len(r) <= AirFrameMax
    /\ \A i \in 1..Len(r) : r[i] = [frame |-> f, no |-> i - 1]

\* ble_dev_info_req renews the receive buffer, and is left without one when there is
\* no memory.
Renews(p) ==
    \/ subpkg' = (IF Data(p) = <<>> THEN <<>> ELSE <<ZERO>>) /\ UNCHANGED nosub
    \/ subpkg' = Data(p) /\ nosub' = TRUE

\* The session handlers: ble_dev_info_req, ble_pair_req, ble_unbind_req.  A pairing
\* request for another device and an unbinding end the connection.  The data of a
\* request is read whether there is any or not.
Handles(f, p) ==
    /\ is_paired' = (is_paired \/ FrameKind[f] = "pair")
    /\ timer' = (timer /\ FrameKind[f] # "pair")
    /\ IF FrameKind[f] = "info" THEN Renews(p) ELSE subpkg' = Data(p) /\ UNCHANGED nosub
    /\ wk' = IF FrameKind[f] = "empty" THEN "fault" ELSE "idle"
    /\ IF FrameKind[f] \in {"alien", "unbind"} THEN Disconnect ELSE UNCHANGED drop

Ignores == wk' = "idle" /\ UNCHANGED <<drop, recv_sn, passed, is_paired, timer, nosub>>

\* A frame that can be read and is newer goes to the sessions, if there is memory.
Accepts(f, p) ==
    /\ Whole(raw', f) /\ f \in Plain \union Sealed /\ FrameSn[f] > recv_sn
    /\ recv_sn' = FrameSn[f]
    /\ \/ passed' = passed \union {f} /\ Handles(f, p)
       \/ subpkg' = Data(p) /\ wk' = "idle" /\ UNCHANGED <<passed, is_paired, timer, drop, nosub>>

\* An old number ends the connection.
RejectsOld(p) ==
    /\ \E f \in Plain \union Sealed : Whole(raw', f) /\ FrameSn[f] <= recv_sn
    /\ subpkg' = Data(p)
    /\ Disconnect /\ wk' = "idle" /\ UNCHANGED <<recv_sn, passed, is_paired, timer, nosub>>

\* What cannot be read is dropped.
RejectsUnread(p) ==
    /\ \A f \in Plain : ~Whole(raw', f)
    /\ subpkg' = Data(p)
    /\ Ignores

\* The worker takes a write, and finds some piece at its p_data ...
TakesWrite ==
    /\ Takes("write")
    /\ piece' \in Pieces
    /\ piece'.no = 0 \/ Len(raw) < MaxRaw
    /\ UNCHANGED <<stackVars, adv, peer, is_paired, timer, firing, trsVars, rcvVars, wk, nosub,
                   monVars, lost, unseen>>

\* ... and is done with it.
Reads(p) ==
    /\ wk = "idle" /\ p = piece /\ piece' = ZERO
    /\ UNCHANGED <<link, conns, adv, q, peer, firing, monVars, lost, unseen>>

\* Without a connection in peer_info the write is not looked at.
WriteUnknown(p) == Reads(p) /\ peer = 0 /\ Ignores /\ UNCHANGED trsVars

\* A number out of order: what was collected is dropped, the transmitter is not reset.
WriteOutOfOrder(p) ==
    /\ Reads(p) /\ peer # 0 /\ ~InOrder(p) /\ ~Repeated(p)
    /\ raw' = <<>>
    /\ Ignores /\ UNCHANGED <<total, cnt, subpkg_num, subpkg>>

\* Without a receive buffer the bytes are copied to, or from, NULL.
Faults(p) == nosub /\ ((InOrder(p) /\ Data(p) # <<>>) \/ (Repeated(p) /\ subpkg # <<>>))

\* A repeated piece is collected a second time.
WriteRepeated(p) ==
    /\ Reads(p) /\ peer # 0 /\ Repeated(p) /\ ~Faults(p)
    /\ raw' = raw \o subpkg
    /\ Ignores /\ UNCHANGED <<total, cnt, subpkg_num, subpkg>>

WriteFaults(p) ==
    /\ wk = "idle" /\ p = piece /\ peer # 0 /\ Faults(p)
    /\ wk' = "fault"
    /\ UNCHANGED <<stackVars, adv, q, peer, is_paired, timer, firing, piece, nosub, trsVars,
                   rcvVars, monVars, lost, unseen>>

WritePiece(p) ==
    /\ Reads(p) /\ peer # 0 /\ InOrder(p) /\ ~Faults(p)
    /\ Decode(p) /\ cnt' < total'
    /\ raw' = Collected(p) /\ subpkg' = Data(p)
    /\ Ignores

WriteLast(p) ==
    /\ Reads(p) /\ peer # 0 /\ InOrder(p) /\ ~Faults(p)
    /\ Decode(p) /\ cnt' >= total'
    /\ raw' = Collected(p)
    /\ RejectsOld(p) \/ RejectsUnread(p) \/ \E f \in Frames : Accepts(f, p)

------------------------------------------------------------------------------
(* The timer thread.                                                          *)
PairTimerFires ==
    /\ timer /\ ~firing
    /\ timer' = FALSE /\ firing' = TRUE
    /\ UNCHANGED <<stackVars, adv, q, peer, is_paired, trsVars, rcvVars, wkVars, monVars, lost,
                   unseen>>

ble_pair_timeout_cb ==
    /\ firing /\ firing' = FALSE
    /\ Disconnect
    /\ UNCHANGED <<link, conns, adv, q, peer, is_paired, timer, trsVars, rcvVars, wkVars, monVars,
                   lost, unseen>>

\* ble_mointor_timer_cb looks at the cloud connection, and then acts on a change.
MonitorLooks ==
    /\ mon = "idle" /\ iot # s_iot_conn_stat
    /\ mon' = IF iot THEN "up" ELSE "down"
    /\ UNCHANGED <<stackVars, adv, q, peer, is_paired, timer, firing, trsVars, rcvVars, wkVars, iot,
                   s_iot_conn_stat, lost, unseen>>

MonitorSeesUp ==
    /\ mon = "up" /\ mon' = "idle"
    /\ IF is_paired THEN Disconnect /\ UNCHANGED adv
                    ELSE adv' \in {FALSE, adv} /\ UNCHANGED drop
    /\ s_iot_conn_stat' = TRUE /\ unseen' = FALSE
    /\ UNCHANGED <<link, conns, q, peer, is_paired, timer, firing, trsVars, rcvVars, wkVars,
                   iot, lost>>

MonitorSeesDownSilently ==
    /\ mon = "down" /\ mon' = "idle" /\ s_iot_conn_stat' = FALSE
    /\ UNCHANGED <<stackVars, adv, q, peer, is_paired, timer, firing, trsVars, rcvVars, wkVars, iot,
                   lost, unseen>>
MonitorSeesDown ==
    /\ mon = "down" /\ mon' = "idle"
    /\ s_iot_conn_stat' = FALSE
    /\ AdvUpdate
    /\ UNCHANGED <<stackVars, q, peer, is_paired, timer, firing, trsVars, rcvVars, wkVars, iot,
                   unseen>>

\* tuya_mqtt_connected changes.
CloudChanges ==
    /\ iot' = ~iot
    /\ UNCHANGED <<stackVars, adv, q, peer, is_paired, timer, firing, trsVars, rcvVars, wkVars,
                   s_iot_conn_stat, mon, lost, unseen>>

------------------------------------------------------------------------------
Write(p) ==
    \/ WriteUnknown(p) \/ WriteOutOfOrder(p) \/ WriteRepeated(p) \/ WritePiece(p)
    \/ WriteLast(p) \/ WriteFaults(p)

Worker ==
    \/ StackInit \/ ConnectionBegins \/ ConnectionFailed \/ ConnectionEnds \/ AdvertisesAgain
    \/ TakesWrite \/ \E p \in Pieces : Write(p)

Monitor == MonitorLooks \/ MonitorSeesUp \/ MonitorSeesDown

Up == wk # "fault"

Next ==
    /\ Up
    /\ \/ Connects \/ ConnectFails \/ Drops \/ CloudChanges \/ Writes
       \/ Worker \/ PairTimerFires \/ ble_pair_timeout_cb \/ Monitor

Spec == Init /\ [][Next]_vars

------------------------------------------------------------------------------
Buffer == Pieces \union {ZERO}
Events == [ev : {"init", "connect", "failed", "disconnect", "write"}, conn : 0..MaxConns]

\* Types of all variables.
TypeOK ==
    /\ link \in 0..MaxConns /\ conns \in 0..MaxConns /\ drop \in BOOLEAN /\ adv \in BOOLEAN
    /\ q \in Seq(Events)
    /\ peer \in 0..MaxConns /\ is_paired \in BOOLEAN
    /\ timer \in BOOLEAN /\ firing \in BOOLEAN
    /\ total \in Nat /\ cnt \in Nat /\ subpkg_num \in Nat
    /\ subpkg \in Seq(Buffer) /\ raw \in Seq(Buffer)
    /\ recv_sn \in Nat /\ passed \in SUBSET Frames
    /\ wk \in {"idle", "advert", "fault"} /\ piece \in Buffer /\ nosub \in BOOLEAN
    /\ mon \in {"idle", "up", "down"}
    /\ iot \in BOOLEAN /\ s_iot_conn_stat \in BOOLEAN
    /\ lost \in BOOLEAN /\ unseen \in BOOLEAN

\* The pieces collected are the beginning of one frame.
Heard(r) ==
    /\ r # <<>> /\ r[1].frame \in Frames
    /\ Len(r) <= FrameLen[r[1].frame]
    /\ \A i \in 1..Len(r) : r[i] = [frame |-> r[1].frame, no |-> i - 1]

\* The piece that the worker found, if peer_info lets it be looked at.
Input == IF piece # ZERO /\ peer # 0 THEN <<piece.frame, piece.no>> ELSE <<>>

Run == IF Heard(raw) THEN <<raw[1].frame, Len(raw)>> ELSE <<>>

Link == INSTANCE FrameLink WITH input <- Input, run <- Run, last <- recv_sn

\* Of the pieces as the worker finds them, which need not be the ones that were
\* written: whatever is lost, repeated, mixed up or left over from another connection,
\* the sessions are handed whole frames in the order of their numbers, and a readable
\* frame whose pieces are found one after the other is missed only for lack of memory.
ImplementsFrameLink == Link!Spec

\* A peer that does not pair does not stay: while a connection that the manager knows
\* of is not paired, its time runs, its timeout is under way, or the stack has been
\* asked to end it, however pairings, timeouts, the monitor and the events of earlier
\* connections race.
UnpairedIsTimed ==
    Up /\ link # 0 /\ peer = link /\ ~is_paired => timer \/ firing \/ drop

\* Nothing is left to happen by itself: no connection, no cloud, no event in the queue,
\* and neither the worker nor the monitor has anything to do.
AtRest ==
    /\ Up /\ link = 0 /\ q = <<>> /\ wk = "idle"
    /\ ~iot /\ ~s_iot_conn_stat /\ mon = "idle"

\* The device can be found again: it does not come to rest without advertising, unless
\* an event was lost or reported a failure, advertising could not be started, or the
\* cloud connection that kept it from advertising came and went between two looks of
\* the monitor.
Discoverable == AtRest /\ ~lost /\ ~unseen => adv
==============================================================================
