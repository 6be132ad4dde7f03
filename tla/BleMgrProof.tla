----------------------------- MODULE BleMgrProof -----------------------------
(***************************************************************************)
(* The Bluetooth manager implements FrameLink, times unpaired connections  *)
(* and does not rest without advertising, for all frames, queue lengths    *)
(* and numbers of connections.                                             *)
(***************************************************************************)
EXTENDS BleMgr, SequenceTheorems, TLAPS

\* What every piece is, and that it differs from the fresh buffer.
LEMMA PiecesLemma ==
    ASSUME NEW p \in Pieces
    PROVE  /\ p.frame \in Frames /\ p.no \in Nat /\ p.no < FrameLen[p.frame]
           /\ p = [frame |-> p.frame, no |-> p.no]
           /\ p \in Buffer /\ p # ZERO
           /\ <<p.frame, p.no>> \in Link!Pieces
BY BleAssumption DEF Pieces, Buffer, ZERO, BleAssumption, Link!Pieces

\* One piece is the beginning of a frame exactly if it is a first piece.
LEMMA HeardOne ==
    ASSUME NEW p \in Buffer
    PROVE  /\ p \in Pieces /\ p.no = 0 => Heard(<<p>>)
           /\ Heard(<<p>>) => p \in Pieces /\ p.no = 0
<1>1. Len(<<p>>) = 1 /\ <<p>>[1] = p /\ <<p>> # <<>>
    OBVIOUS
<1>2. ASSUME p \in Pieces, p.no = 0 PROVE Heard(<<p>>)
  <2>1. p.frame \in Frames /\ p = [frame |-> p.frame, no |-> p.no]
      BY <1>2, PiecesLemma
  <2>3. 1 <= FrameLen[p.frame]
      BY <2>1, BleAssumption DEF BleAssumption
  <2>2. \A i \in 1..1 : <<p>>[i] = [frame |-> p.frame, no |-> i - 1]
      BY <1>1, <1>2, <2>1
  <2> QED BY <1>1, <2>1, <2>2, <2>3 DEF Heard
<1>3. ASSUME Heard(<<p>>) PROVE p \in Pieces /\ p.no = 0
  <2>1. p.frame \in Frames /\ p = [frame |-> p.frame, no |-> 0]
    <3>1. /\ <<p>>[1].frame \in Frames
          /\ \A i \in 1..1 : <<p>>[i] = [frame |-> p.frame, no |-> i - 1]
        BY <1>1, <1>3 DEF Heard
    <3>2. <<p>>[1] = [frame |-> p.frame, no |-> 1 - 1]
        BY <3>1
    <3> QED BY <1>1, <3>1, <3>2
  <2>2. p # ZERO
      BY <2>1, BleAssumption DEF ZERO, BleAssumption
  <2> QED BY <2>1, <2>2 DEF Buffer
<1> QED BY <1>2, <1>3

\* A piece appended to collected ones is heard exactly if it is the next of their frame.
LEMMA HeardAppend ==
    ASSUME NEW r \in Seq(Buffer), NEW p \in Buffer, r # <<>>
    PROVE  LET f == r[1].frame IN
           Heard(Append(r, p)) <=> /\ Heard(r) /\ Len(r) < FrameLen[f]
                                   /\ p = [frame |-> f, no |-> Len(r)]
<1> DEFINE f == r[1].frame
           s == Append(r, p)
<1>1. /\ Len(s) = Len(r) + 1 /\ Len(r) \in Nat \ {0} /\ s # <<>>
      /\ \A i \in 1..Len(r) : s[i] = r[i]
      /\ s[Len(r) + 1] = p
    OBVIOUS
<1>2. s[1] = r[1]
    BY <1>1
<1>3. ASSUME Heard(s) PROVE Heard(r) /\ Len(r) < FrameLen[f] /\ p = [frame |-> f, no |-> Len(r)]
  <2>1. f \in Frames /\ FrameLen[f] \in Nat
      BY <1>3, <1>2, BleAssumption DEF Heard, BleAssumption
  <2>2. \A i \in 1..(Len(r) + 1) : s[i] = [frame |-> f, no |-> i - 1]
      BY <1>3, <1>2, <1>1 DEF Heard
  <2>3. Len(r) < FrameLen[f]
      BY <1>3, <1>2, <1>1, <2>1 DEF Heard
  <2>4. p = [frame |-> f, no |-> Len(r)]
    <3>1. Len(r) + 1 \in 1..(Len(r) + 1) /\ (Len(r) + 1) - 1 = Len(r)
        BY <1>1
    <3>2. s[Len(r) + 1] = [frame |-> f, no |-> (Len(r) + 1) - 1]
        BY <2>2, <3>1
    <3> QED BY <3>1, <3>2, <1>1
  <2>5. \A i \in 1..Len(r) : r[i] = [frame |-> f, no |-> i - 1]
      BY <2>2, <1>1
  <2> QED BY <2>1, <2>3, <2>4, <2>5, <1>1 DEF Heard
<1>4. ASSUME Heard(r), Len(r) < FrameLen[f], p = [frame |-> f, no |-> Len(r)] PROVE Heard(s)
  <2>1. f \in Frames /\ FrameLen[f] \in Nat
      BY <1>4, BleAssumption DEF Heard, BleAssumption
  <2>2. \A i \in 1..Len(s) : s[i] = [frame |-> f, no |-> i - 1]
      BY <1>4, <1>1 DEF Heard
  <2> QED BY <1>4, <1>1, <1>2, <2>1, <2>2 DEF Heard
<1> QED BY <1>3, <1>4

------------------------------------------------------------------------------
(* The state of the transmitter goes with what was collected: as long as that *)
(* is the beginning of a frame, the numbers are those of its last piece.      *)
Partial(f) ==
    /\ subpkg_num = Len(raw) - 1 /\ cnt = Len(raw) /\ total = FrameLen[f]
    /\ subpkg = <<raw[Len(raw)]>>

SubpkgOK ==
    subpkg = <<>> \/ \E x \in Buffer : subpkg = <<x>> /\ (x = ZERO \/ x.no = subpkg_num)

Assembled ==
    Heard(raw) => IF Len(raw) < FrameLen[raw[1].frame] THEN Partial(raw[1].frame)
                                                       ELSE cnt >= total

BleInv == TypeOK /\ SubpkgOK /\ Assembled

\* A piece in order continues the run, or spoils it, or comes after a complete frame.
Continued(p) ==
    /\ p.no = 0 \/ (Heard(raw) /\ raw[1].frame = p.frame /\ Len(raw) = p.no)
    /\ Heard(raw') /\ raw'[1].frame = p.frame
    /\ Len(raw') = p.no + 1 /\ raw'[Len(raw')] = p
    /\ Data(p) = <<p>> /\ cnt' = p.no + 1 /\ total' = FrameLen[p.frame]

Spoiled(p) ==
    /\ p.no # 0 /\ ~(Heard(raw) /\ raw[1].frame = p.frame /\ Len(raw) = p.no)
    /\ ~Heard(raw')

Stray(p) ==
    /\ p.no # 0 /\ Heard(raw) /\ Len(raw) = FrameLen[raw[1].frame]
    /\ ~(raw[1].frame = p.frame /\ Len(raw) = p.no)
    /\ raw' = raw /\ cnt' >= total'

\* What collecting a piece does: the run goes on, is spoiled, or was complete and stays.
LEMMA CollectLemma ==
    ASSUME TypeOK, Assembled, NEW p \in Pieces, InOrder(p), Decode(p), raw' = Collected(p)
    PROVE  Continued(p) \/ Spoiled(p) \/ Stray(p)
<1> USE BleAssumption DEF BleAssumption
<1>1. /\ p.frame \in Frames /\ p.no \in Nat /\ p.no < FrameLen[p.frame]
      /\ p = [frame |-> p.frame, no |-> p.no] /\ p \in Buffer
    BY PiecesLemma
<1>2. /\ raw \in Seq(Buffer) /\ Len(raw) \in Nat /\ cnt \in Nat /\ total \in Nat
      /\ subpkg_num \in Nat /\ FrameLen[p.frame] \in Nat \ {0}
    BY <1>1 DEF TypeOK
<1>3. CASE p.no = 0
  <2>1. Data(p) = <<p>> /\ raw' = <<p>> /\ cnt' = 0 + Len(<<p>>) /\ total' = FrameLen[p.frame]
      BY <1>2, <1>3 DEF Data, Start, Total, Collected, Decode
  <2>2. Len(<<p>>) = 1 /\ <<p>>[1] = p
      OBVIOUS
  <2>3. Heard(<<p>>)
      BY <1>1, <1>3, HeardOne
  <2> QED BY <2>1, <2>2, <2>3, <1>3 DEF Continued
<1>4. CASE p.no # 0
  <2>1. p.no = subpkg_num + 1
      BY <1>4 DEF InOrder
  <2>2. CASE cnt < total
    <3>1. /\ Data(p) = <<p>> /\ total' = total
          /\ cnt' = cnt + Len(<<p>>) /\ Len(<<p>>) = 1
        BY <2>2, <1>4 DEF Data, Start, Total, Decode
    <3>2. raw' = Append(raw, p)
        BY <1>1, <1>2, <1>4, <3>1, AppendIsConcat DEF Collected
    <3>3. CASE raw = <<>>
      <4>1. raw' = <<p>> /\ ~Heard(raw)
          BY <3>2, <3>3 DEF Heard
      <4>2. ~Heard(<<p>>)
          BY <1>1, <1>4, HeardOne
      <4> QED BY <4>1, <4>2, <1>4 DEF Spoiled
    <3>4. CASE raw # <<>> /\ ~Heard(raw)
      <4>1. ~Heard(Append(raw, p))
          BY <1>1, <1>2, <3>4, HeardAppend
      <4> QED BY <4>1, <3>2, <3>4, <1>4 DEF Spoiled
    <3>5. CASE raw # <<>> /\ Heard(raw)
      <4> DEFINE f == raw[1].frame
      <4>1. /\ Len(raw) < FrameLen[f] /\ f \in Frames
            /\ subpkg_num = Len(raw) - 1 /\ cnt = Len(raw) /\ total = FrameLen[f]
          BY <3>5, <2>2, <1>2 DEF Assembled, Partial, Heard
      <4>2. p.no = Len(raw)
          BY <4>1, <2>1, <1>2
      <4>3. /\ Len(Append(raw, p)) = Len(raw) + 1 /\ Append(raw, p)[1] = raw[1]
            /\ Append(raw, p)[Len(raw) + 1] = p
          BY <1>1, <1>2, <3>5
      <4>4. CASE p.frame = f
        <5>1. Heard(Append(raw, p))
            BY <4>1, <4>2, <4>4, <1>1, <1>2, <3>5, HeardAppend
        <5> QED BY <5>1, <4>1, <4>2, <4>3, <4>4, <3>1, <3>2, <3>5, <1>2 DEF Continued
      <4>5. CASE p.frame # f
        <5>1. ~Heard(Append(raw, p))
            BY <4>5, <1>1, <1>2, <3>5, HeardAppend
        <5> QED BY <5>1, <4>5, <3>2, <1>4 DEF Spoiled
      <4> QED BY <4>4, <4>5
    <3> QED BY <3>3, <3>4, <3>5
  <2>3. CASE ~(cnt < total)
    <3>1. Data(p) = <<>> /\ total' = total /\ cnt' = cnt + Len(<<>>) /\ Len(<<>>) = 0
        BY <2>3, <1>4 DEF Data, Start, Total, Decode
    <3>2. raw' = raw
        BY <1>2, <1>4, <3>1, ConcatEmptySeq DEF Collected
    <3>3. CASE ~Heard(raw)
        BY <3>2, <3>3, <1>4 DEF Spoiled
    <3>4. CASE Heard(raw)
      <4> DEFINE f == raw[1].frame
      <4>1. f \in Frames /\ FrameLen[f] \in Nat /\ Len(raw) <= FrameLen[f]
          BY <3>4 DEF Heard
      <4>2. Len(raw) = FrameLen[f]
          BY <4>1, <3>4, <2>3, <1>2 DEF Assembled, Partial
      <4> QED BY <4>1, <4>2, <3>1, <3>2, <3>4, <2>3, <1>1, <1>2, <1>4 DEF Stray
    <3> QED BY <3>3, <3>4
  <2> QED BY <2>2, <2>3
<1> QED BY <1>3, <1>4

------------------------------------------------------------------------------
(* Types.                                                                     *)
\* The events that are posted are events.
LEMMA EventLemma ==
    /\ Event("init", 0) \in Events
    /\ Event("failed", 0) \in Events /\ Event("disconnect", 0) \in Events
    /\ \A c \in 0..MaxConns : Event("connect", c) \in Events
    /\ Event("write", 0) \in Events
BY BleAssumption DEF Event, Events, BleAssumption

\* Posting keeps the queue typed.
LEMMA PostTypes ==
    ASSUME TypeOK, NEW e \in Events, Post(e)
    PROVE  q' \in Seq(Events) /\ lost' \in BOOLEAN
<1>1. q' \in Seq(Events)
  <2>1. q' = Append(q, e) \/ q' = q
      BY Zenon DEF Post
  <2>2. q \in Seq(Events)
      BY DEF TypeOK
  <2> QED BY <2>1, <2>2, AppendProperties
<1>2. lost' \in BOOLEAN
    BY DEF Post, TypeOK
<1> QED BY <1>1, <1>2

\* So does taking.
LEMMA TakeTypes ==
    ASSUME TypeOK, NEW kind, Takes(kind)
    PROVE  q' \in Seq(Events) /\ Head(q) \in Events
BY HeadTailProperties DEF Takes, TypeOK

\* Asking the stack for a disconnection keeps drop typed.
LEMMA DisconnectTypes ==
    ASSUME TypeOK, Disconnect
    PROVE  drop' \in BOOLEAN
BY DEF Disconnect, TypeOK

\* What the decoder extracts is typed.
LEMMA DataTypes ==
    ASSUME TypeOK, NEW p \in Pieces
    PROVE  /\ Data(p) \in Seq(Buffer) /\ Len(Data(p)) \in Nat
           /\ Start(p) \in Nat /\ Total(p) \in Nat /\ Collected(p) \in Seq(Buffer)
           /\ <<ZERO>> \in Seq(Buffer)
<1>1. p \in Buffer /\ p.frame \in Frames /\ ZERO \in Buffer
    BY PiecesLemma DEF Buffer
<1>2. Start(p) \in Nat /\ Total(p) \in Nat
    BY <1>1, BleAssumption DEF Start, Total, TypeOK, BleAssumption
<1>3. Data(p) \in Seq(Buffer) /\ Len(Data(p)) \in Nat
    BY <1>1 DEF Data
<1>4. <<ZERO>> \in Seq(Buffer)
    BY <1>1
<1>5. Collected(p) \in Seq(Buffer)
    BY <1>3 DEF Collected, TypeOK
<1> QED BY <1>2, <1>3, <1>4, <1>5

\* The initial state is typed.
LEMMA TypesInit == Init => TypeOK
<1> SUFFICES ASSUME Init PROVE TypeOK
    OBVIOUS
<1>1. q \in Seq(Events) /\ lost \in BOOLEAN
  <2>1. Event("init", 0) \in Events
      BY BleAssumption DEF BleAssumption, Event, Events
  <2>2. <<Event("init", 0)>> \in Seq(Events) /\ <<>> \in Seq(Events)
      BY <2>1
  <2>3. q = <<Event("init", 0)>> \/ q = <<>>
      BY DEF Init
  <2>4. lost \in BOOLEAN
      BY Zenon DEF Init
  <2> QED BY <2>2, <2>3, <2>4
<1>2. /\ link \in 0..MaxConns /\ conns \in 0..MaxConns /\ peer \in 0..MaxConns
      /\ total \in Nat /\ cnt \in Nat /\ subpkg_num \in Nat /\ recv_sn \in Nat
    BY BleAssumption DEF Init, BleAssumption
<1>3. /\ subpkg \in Seq(Buffer) /\ raw \in Seq(Buffer) /\ passed \in SUBSET Frames
      /\ piece \in Buffer
    BY DEF Init, Buffer
<1> QED BY <1>1, <1>2, <1>3 DEF Init, TypeOK

\* What a write that is read does to the types.
LEMMA WriteTypes ==
    ASSUME TypeOK, NEW p \in Pieces,
           WriteUnknown(p) \/ WriteOutOfOrder(p) \/ WriteRepeated(p) \/ WritePiece(p) \/ WriteLast(p)
    PROVE  TypeOK'
<1> USE BleAssumption DEF BleAssumption, stackVars, trsVars, rcvVars, wkVars, monVars
<1>1. Reads(p)
    BY DEF WriteUnknown, WriteOutOfOrder, WriteRepeated, WritePiece, WriteLast
<1>2. piece' \in Buffer
    BY <1>1 DEF Reads, Buffer
<1>3. total' \in Nat /\ cnt' \in Nat /\ subpkg_num' \in Nat /\ raw' \in Seq(Buffer)
  <2>1. p.no \in Nat
      BY PiecesLemma
  <2>2. CASE WriteUnknown(p) \/ WriteOutOfOrder(p)
    <3>1. UNCHANGED <<total, cnt, subpkg_num>> /\ (raw' = raw \/ raw' = <<>>)
        BY <2>2 DEF WriteUnknown, WriteOutOfOrder
    <3>2. raw \in Seq(Buffer) /\ <<>> \in Seq(Buffer)
        BY DEF TypeOK
    <3> QED BY <3>1, <3>2 DEF TypeOK
  <2>3. CASE WriteRepeated(p)
    <3>1. raw' = raw \o subpkg /\ UNCHANGED <<total, cnt, subpkg_num>>
        BY <2>3 DEF WriteRepeated
    <3>2. raw \in Seq(Buffer) /\ subpkg \in Seq(Buffer)
        BY DEF TypeOK
    <3>3. raw' \in Seq(Buffer)
        BY <3>1, <3>2, ConcatProperties
    <3> QED BY <3>1, <3>3 DEF TypeOK
  <2>4. CASE WritePiece(p) \/ WriteLast(p)
    <3>1. Decode(p) /\ raw' = Collected(p)
        BY <2>4 DEF WritePiece, WriteLast
    <3> QED BY <2>1, <3>1, DataTypes DEF Decode
  <2> QED BY <2>2, <2>3, <2>4
<1>4. subpkg' \in Seq(Buffer)
  <2>1. subpkg' \in {subpkg, Data(p), <<ZERO>>, <<>>}
    <3>1. CASE WriteUnknown(p) \/ WriteOutOfOrder(p) \/ WriteRepeated(p)
        BY <3>1 DEF WriteUnknown, WriteOutOfOrder, WriteRepeated
    <3>2. CASE WritePiece(p)
        BY <3>2 DEF WritePiece
    <3>3. CASE WriteLast(p)
      <4>1. CASE RejectsOld(p) \/ RejectsUnread(p)
          BY <4>1 DEF RejectsOld, RejectsUnread
      <4>2. ASSUME NEW f \in Frames, Accepts(f, p)
            PROVE  subpkg' \in {subpkg, Data(p), <<ZERO>>, <<>>}
        <5>1. Handles(f, p) \/ subpkg' = Data(p)
            BY <4>2 DEF Accepts
        <5> QED BY <5>1 DEF Handles, Renews
      <4> QED BY <3>3, <4>1, <4>2 DEF WriteLast
    <3> QED BY <3>1, <3>2, <3>3
  <2>2. subpkg \in Seq(Buffer) /\ <<>> \in Seq(Buffer)
      BY DEF TypeOK
  <2> QED BY <2>1, <2>2, DataTypes
<1>5. recv_sn' \in Nat /\ passed' \in SUBSET Frames
    BY DEF WriteUnknown, WriteOutOfOrder, WriteRepeated, WritePiece,
       WriteLast, Accepts, RejectsOld, RejectsUnread, Ignores, TypeOK
<1>6. drop' \in BOOLEAN
    BY DisconnectTypes DEF WriteUnknown, WriteOutOfOrder, WriteRepeated,
       WritePiece, WriteLast, Accepts, RejectsOld, RejectsUnread, Handles, Ignores, TypeOK
<1>7. is_paired' \in BOOLEAN /\ timer' \in BOOLEAN
    BY DEF WriteUnknown, WriteOutOfOrder, WriteRepeated, WritePiece,
       WriteLast, Accepts, RejectsOld, RejectsUnread, Handles, Ignores, TypeOK
<1>8. wk' \in {"idle", "advert", "fault"}
    BY DEF WriteUnknown, WriteOutOfOrder, WriteRepeated, WritePiece,
       WriteLast, Accepts, RejectsOld, RejectsUnread, Handles, Ignores
<1>9. nosub' \in BOOLEAN
    BY DEF WriteUnknown, WriteOutOfOrder, WriteRepeated, WritePiece,
       WriteLast, Accepts, RejectsOld, RejectsUnread, Handles, Renews, Ignores, TypeOK
<1> QED BY <1>1, <1>2, <1>3, <1>4, <1>5, <1>6, <1>7, <1>8, <1>9 DEF Reads, TypeOK

\* Every step keeps the types.
LEMMA TypesNext == TypeOK /\ [Next]_vars => TypeOK'
<1> SUFFICES ASSUME TypeOK, [Next]_vars PROVE TypeOK'
    OBVIOUS
<1> USE BleAssumption DEF BleAssumption, stackVars, trsVars, rcvVars, wkVars, monVars
<1>1. CASE Connects
  <2>1. Event("connect", conns + 1) \in Events /\ conns + 1 \in 0..MaxConns
      BY <1>1, EventLemma DEF Connects, TypeOK
  <2>2. q' \in Seq(Events) /\ lost' \in BOOLEAN
      BY <1>1, <2>1, PostTypes DEF Connects
  <2> QED BY <1>1, <2>1, <2>2 DEF Connects, TypeOK
<1>2. CASE ConnectFails
  <2>1. q' \in Seq(Events)
      BY <1>2, EventLemma DEF ConnectFails, TypeOK
  <2> QED BY <1>2, <2>1 DEF ConnectFails, TypeOK
<1>3. CASE Drops
  <2>1. q' \in Seq(Events) /\ lost' \in BOOLEAN
      BY <1>3, EventLemma, PostTypes DEF Drops
  <2>2. link' \in 0..MaxConns
      BY <1>3 DEF Drops
  <2> QED BY <1>3, <2>1, <2>2, Zenon DEF Drops, TypeOK
<1>4. CASE Writes
  <2>1. q' \in Seq(Events) /\ lost' \in BOOLEAN
      BY <1>4, EventLemma, PostTypes DEF Writes
  <2> QED BY <1>4, <2>1 DEF Writes, TypeOK
<1>5. CASE CloudChanges
    BY <1>5 DEF CloudChanges, TypeOK
<1>6. CASE StackInit
  <2>1. q' \in Seq(Events)
      BY <1>6, TakeTypes DEF StackInit
  <2>2. adv' \in BOOLEAN /\ lost' \in BOOLEAN
      BY <1>6 DEF StackInit, AdvUpdate, TypeOK
  <2> QED BY <1>6, <2>1, <2>2 DEF StackInit, TypeOK
<1>7. CASE ConnectionBegins
  <2>1. q' \in Seq(Events) /\ Head(q) \in Events
      BY <1>7, TakeTypes DEF ConnectionBegins
  <2>2. Head(q).conn \in 0..MaxConns
      BY <2>1 DEF Events
  <2> QED BY <1>7, <2>1, <2>2 DEF ConnectionBegins, TypeOK
<1>8. CASE ConnectionFailed
  <2>1. q' \in Seq(Events)
      BY <1>8, TakeTypes DEF ConnectionFailed
  <2> QED BY <1>8, <2>1 DEF ConnectionFailed, TypeOK
<1>9. CASE ConnectionEnds
  <2>1. q' \in Seq(Events)
      BY <1>9, TakeTypes DEF ConnectionEnds
  <2>2. peer' \in 0..MaxConns
      BY <1>9 DEF ConnectionEnds
  <2> QED BY <1>9, <2>1, <2>2, Zenon DEF ConnectionEnds, TypeOK
<1>10. CASE AdvertisesAgain
  <2>1. adv' \in BOOLEAN /\ unseen' \in BOOLEAN /\ lost' \in BOOLEAN
      BY <1>10 DEF AdvertisesAgain, AdvUpdate, TypeOK
  <2> QED BY <1>10, <2>1 DEF AdvertisesAgain, TypeOK
<1>11. ASSUME NEW p \in Pieces, Write(p) PROVE TypeOK'
  <2>1. CASE WriteFaults(p)
      BY <2>1 DEF WriteFaults, TypeOK
  <2>2. CASE ~WriteFaults(p)
    <3> SUFFICES ASSUME WriteUnknown(p) \/ WriteOutOfOrder(p) \/ WriteRepeated(p)
                        \/ WritePiece(p) \/ WriteLast(p)
                 PROVE  TypeOK'
        BY <1>11, <2>2 DEF Write
    <3> QED BY WriteTypes
  <2> QED BY <2>1, <2>2
<1>18. CASE TakesWrite
  <2>1. q' \in Seq(Events)
      BY <1>18, TakeTypes DEF TakesWrite
  <2>2. piece' \in Buffer
      BY <1>18 DEF TakesWrite, Buffer
  <2> QED BY <1>18, <2>1, <2>2 DEF TakesWrite, TypeOK
<1>12. CASE PairTimerFires
    BY <1>12 DEF PairTimerFires, TypeOK
<1>13. CASE ble_pair_timeout_cb
  <2>1. drop' \in BOOLEAN
      BY <1>13, DisconnectTypes DEF ble_pair_timeout_cb
  <2> QED BY <1>13, <2>1 DEF ble_pair_timeout_cb, TypeOK
<1>14. CASE MonitorLooks
    BY <1>14 DEF MonitorLooks, TypeOK
<1>15. CASE MonitorSeesUp
  <2>1. drop' \in BOOLEAN /\ adv' \in BOOLEAN
      BY <1>15, DisconnectTypes DEF MonitorSeesUp, TypeOK
  <2> QED BY <1>15, <2>1 DEF MonitorSeesUp, TypeOK
<1>16. CASE MonitorSeesDown
  <2>1. adv' \in BOOLEAN /\ lost' \in BOOLEAN
      BY <1>16 DEF MonitorSeesDown, AdvUpdate, TypeOK
  <2> QED BY <1>16, <2>1 DEF MonitorSeesDown, TypeOK
<1>17. CASE UNCHANGED vars
    BY <1>17 DEF vars, TypeOK
<1> QED BY <1>1, <1>2, <1>3, <1>4, <1>5, <1>6, <1>7, <1>8, <1>9, <1>10, <1>11, <1>12, <1>13,
           <1>14, <1>15, <1>16, <1>17, <1>18 DEF Next, Worker, Monitor

------------------------------------------------------------------------------
(* The invariant.                                                             *)
\* A piece out of order, or repeated, is not the next one of the run.
LEMMA NotNext ==
    ASSUME TypeOK, Assembled, NEW p \in Pieces, p.no # 0, p.no # subpkg_num + 1
    PROVE  ~(Heard(raw) /\ raw[1].frame = p.frame /\ Len(raw) = p.no)
<1>1. p.no \in Nat /\ p.no < FrameLen[p.frame]
    BY PiecesLemma
<1>2. subpkg_num \in Nat
    BY DEF TypeOK
<1> QED BY <1>1, <1>2 DEF Assembled, Partial

\* A repeated piece is collected twice and spoils the run, or adds nothing.
LEMMA RepeatedLemma ==
    ASSUME BleInv, NEW p \in Pieces, Repeated(p), raw' = raw \o subpkg
    PROVE  \/ ~Heard(raw')
           \/ raw' = raw /\ (Heard(raw) => Len(raw) = FrameLen[raw[1].frame])
<1> USE BleAssumption DEF BleAssumption
<1>1. raw \in Seq(Buffer) /\ subpkg \in Seq(Buffer) /\ Len(raw) \in Nat /\ subpkg_num \in Nat
    BY DEF BleInv, TypeOK
<1>2. CASE subpkg = <<>>
  <2>1. raw' = raw
      BY <1>1, <1>2, ConcatEmptySeq
  <2>2. ASSUME Heard(raw) PROVE Len(raw) = FrameLen[raw[1].frame]
    <3>1. subpkg # <<raw[Len(raw)]>>
        BY <1>2
    <3>2. FrameLen[raw[1].frame] \in Nat /\ Len(raw) <= FrameLen[raw[1].frame]
        BY <2>2 DEF Heard
    <3> QED BY <1>1, <2>2, <3>1, <3>2 DEF BleInv, Assembled, Partial
  <2> QED BY <2>1, <2>2
<1>3. CASE subpkg # <<>>
  <2>1. PICK x \in Buffer : subpkg = <<x>> /\ (x = ZERO \/ x.no = subpkg_num)
      BY <1>3 DEF BleInv, SubpkgOK
  <2>2. raw' = Append(raw, x)
      BY <1>1, <2>1, AppendIsConcat
  <2>3. CASE raw = <<>>
    <3>1. raw' = <<x>>
        BY <2>2, <2>3
    <3>2. ~(x \in Pieces /\ x.no = 0)
        BY <2>1, PiecesLemma DEF Repeated
    <3> QED BY <3>1, <3>2, HeardOne
  <2>4. CASE raw # <<>>
    <3>1. ASSUME Heard(Append(raw, x)) PROVE FALSE
      <4>1. /\ Heard(raw) /\ Len(raw) < FrameLen[raw[1].frame]
            /\ x = [frame |-> raw[1].frame, no |-> Len(raw)]
          BY <1>1, <2>4, <3>1, HeardAppend
      <4>2. subpkg_num = Len(raw) - 1 /\ raw[1].frame \in Frames
          BY <4>1 DEF BleInv, Assembled, Partial, Heard
      <4>3. x # ZERO /\ x.no = Len(raw)
          BY <4>1, <4>2 DEF ZERO
      <4> QED BY <1>1, <2>1, <4>2, <4>3
    <3> QED BY <2>2, <3>1
  <2> QED BY <2>3, <2>4
<1> QED BY <1>2, <1>3

\* Only a write changes what is collected.
LEMMA CollectedKept ==
    ASSUME [Next]_vars
    PROVE  UNCHANGED trsVars \/ \E p \in Pieces : Write(p)
BY DEF Next, Worker, Monitor, Connects, ConnectFails, Drops, Writes, CloudChanges, StackInit,
       ConnectionBegins, ConnectionFailed, ConnectionEnds, AdvertisesAgain, TakesWrite, PairTimerFires,
       ble_pair_timeout_cb, MonitorLooks, MonitorSeesUp, MonitorSeesDown, vars

\* A write leaves in the transmitter the piece it brought, or a fresh buffer.
LEMMA SubpkgKept ==
    ASSUME BleInv, NEW p \in Pieces, Write(p)
    PROVE  SubpkgOK'
<1>1. CASE WriteUnknown(p) \/ WriteOutOfOrder(p) \/ WriteRepeated(p) \/ WriteFaults(p)
  <2>1. UNCHANGED <<subpkg, subpkg_num>>
      BY <1>1 DEF WriteUnknown, WriteOutOfOrder, WriteRepeated, WriteFaults, trsVars
  <2> QED BY <2>1 DEF BleInv, SubpkgOK
<1>2. CASE WritePiece(p) \/ WriteLast(p)
  <2>1. subpkg_num' = p.no /\ (subpkg' = Data(p) \/ subpkg' = <<ZERO>> \/ subpkg' = <<>>)
      BY <1>2 DEF WritePiece, WriteLast, Decode, Accepts, RejectsOld, RejectsUnread, Handles, Renews
  <2>2. Data(p) = <<>> \/ Data(p) = <<p>>
      BY DEF Data
  <2>3. p \in Buffer /\ ZERO \in Buffer
      BY DEF Buffer
  <2> QED BY <2>1, <2>2, <2>3 DEF SubpkgOK
<1> QED BY <1>1, <1>2 DEF Write

\* A write keeps the transmitter and the collected pieces in agreement.
LEMMA AssembledKept ==
    ASSUME BleInv, NEW p \in Pieces, Write(p)
    PROVE  Assembled'
<1> USE BleAssumption DEF BleAssumption
<1>0. TypeOK /\ Assembled
    BY DEF BleInv
<1>1. CASE WriteUnknown(p) \/ WriteFaults(p)
    BY <1>0, <1>1 DEF WriteUnknown, WriteFaults, trsVars, Assembled, Partial
<1>2. CASE WriteOutOfOrder(p)
    BY <1>2 DEF WriteOutOfOrder, Assembled, Heard
<1>3. CASE WriteRepeated(p)
  <2>1. ~Heard(raw') \/ raw' = raw
      BY <1>3, RepeatedLemma DEF WriteRepeated
  <2>2. UNCHANGED <<total, cnt, subpkg_num, subpkg>>
      BY <1>3 DEF WriteRepeated
  <2> QED BY <1>0, <2>1, <2>2 DEF Assembled, Partial
<1>4. CASE WritePiece(p) \/ WriteLast(p)
  <2>1. InOrder(p) /\ Decode(p) /\ raw' = Collected(p)
      BY <1>4 DEF WritePiece, WriteLast
  <2>2. cnt' < total' => subpkg' = Data(p)
    <3>1. CASE WritePiece(p)
        BY <3>1 DEF WritePiece
    <3>2. CASE WriteLast(p)
      <4>1. cnt' \in Nat /\ total' \in Nat /\ cnt' >= total'
          BY <1>0, <2>1, <3>2, DataTypes DEF WriteLast, Decode
      <4> QED BY <4>1
    <3> QED BY <1>4, <3>1, <3>2
  <2>3. CASE Continued(p)
    <3>1. p.no \in Nat /\ FrameLen[p.frame] \in Nat
        BY PiecesLemma
    <3>2. subpkg_num' = p.no
        BY <2>1 DEF Decode
    <3> QED BY <2>2, <2>3, <3>1, <3>2 DEF Continued, Assembled, Partial
  <2>4. CASE Spoiled(p)
      BY <2>4 DEF Spoiled, Assembled
  <2>5. CASE Stray(p)
      BY <2>5 DEF Stray, Heard, Assembled
  <2> QED BY <1>0, <2>1, <2>3, <2>4, <2>5, CollectLemma
<1> QED BY <1>1, <1>2, <1>3, <1>4, Zenon DEF Write

\* The invariant holds initially.
LEMMA BleInvInit == Init => BleInv
<1> SUFFICES ASSUME Init PROVE BleInv
    OBVIOUS
<1>1. SubpkgOK /\ Assembled
    BY DEF Init, SubpkgOK, Assembled, Heard
<1> QED BY <1>1, TypesInit DEF BleInv

\* Every step keeps the invariant.
LEMMA BleInvNext == BleInv /\ [Next]_vars => BleInv'
<1> SUFFICES ASSUME BleInv, [Next]_vars PROVE BleInv'
    OBVIOUS
<1>1. TypeOK'
    BY TypesNext DEF BleInv
<1>2. SubpkgOK' /\ Assembled'
  <2>1. CASE UNCHANGED trsVars
      BY <2>1 DEF BleInv, SubpkgOK, Assembled, Partial, trsVars
  <2>2. CASE \E p \in Pieces : Write(p)
      BY <2>2, SubpkgKept, AssembledKept
  <2> QED BY <2>1, <2>2, CollectedKept
<1> QED BY <1>1, <1>2 DEF BleInv

\* The variables keep their types, and the transmitter's numbers go with what was
\* collected, for all frames and any order of writes.
THEOREM BleInvariant == Spec => []BleInv
BY BleInvInit, BleInvNext, PTL DEF Spec

\* The type invariant of the manager.
THEOREM BleTypes == Spec => []TypeOK
<1>1. BleInv => TypeOK
    BY DEF BleInv
<1> QED BY <1>1, BleInvariant, PTL

------------------------------------------------------------------------------
(* The refinement.                                                            *)
\* While the worker takes an event there is no piece at hand.
LEMMA TakeInput ==
    ASSUME NEW kind, Takes(kind)
    PROVE  Input = <<>>
BY DEF Takes, Input

\* A step that is no write offers an input, or begins a connection.
OfferStep == UNCHANGED rcvVars /\ (Input' = Input \/ Input = <<>>)
ConnectStep == recv_sn' = 0 /\ passed' = {} /\ Input = <<>>

\* Steps that are no writes offer an input, begin a connection, or do not show.
LEMMA OtherSteps ==
    ASSUME TypeOK, [Next]_vars
    PROVE  \/ UNCHANGED trsVars /\ (OfferStep \/ ConnectStep)
           \/ \E p \in Pieces : Write(p)
<1> USE DEF stackVars, rcvVars, wkVars, monVars, OfferStep
<1>1. CASE Connects \/ ConnectFails \/ Drops \/ Writes
    BY <1>1 DEF Connects, ConnectFails, Drops, Writes, Input
<1>5. CASE StackInit \/ ConnectionFailed \/ ConnectionEnds \/ TakesWrite
    BY <1>5, TakeInput DEF StackInit, ConnectionFailed, ConnectionEnds, TakesWrite
<1>6. CASE ConnectionBegins
    BY <1>6, TakeInput DEF ConnectionBegins, ConnectStep
<1>7. CASE CloudChanges \/ AdvertisesAgain \/ PairTimerFires \/ ble_pair_timeout_cb
           \/ Monitor \/ UNCHANGED vars
    BY <1>7 DEF CloudChanges, AdvertisesAgain, PairTimerFires, ble_pair_timeout_cb,
       Monitor, MonitorLooks, MonitorSeesUp, MonitorSeesDown, vars, Input
<1> QED BY <1>1, <1>5, <1>6, <1>7 DEF Next, Worker

\* Only the bytes of a complete run are those of a frame.
LEMMA WholeLemma ==
    ASSUME NEW r \in Seq(Buffer), NEW f \in Frames
    PROVE  Whole(r, f) <=> /\ Heard(r) /\ r[1].frame = f
                           /\ Len(r) = FrameLen[f] /\ FrameLen[f] <= AirFrameMax
<1> USE BleAssumption DEF BleAssumption
<1>1. ASSUME Whole(r, f) PROVE Heard(r) /\ r[1].frame = f
  <2>1. Len(r) \in Nat \ {0} /\ r # <<>>
      BY <1>1 DEF Whole
  <2>2. r[1] = [frame |-> f, no |-> 1 - 1]
      BY <1>1, <2>1 DEF Whole
  <2>3. r[1].frame = f
      BY <2>2
  <2> QED BY <1>1, <2>1, <2>3 DEF Whole, Heard
<1> QED BY <1>1 DEF Whole, Heard

Judged(p) == RejectsOld(p) \/ RejectsUnread(p) \/ \E f \in Frames : Accepts(f, p)

\* A frame that is complete is passed on or refused as FrameLink has it.
LEMMA JudgeLemma ==
    ASSUME TypeOK', NEW p, Judged(p), Heard(raw'), Len(raw') = FrameLen[raw'[1].frame]
    PROVE  Link!Judge(raw'[1].frame)
<1> USE BleAssumption DEF BleAssumption
<1> DEFINE g == raw'[1].frame
<1>1. g \in Frames /\ raw' \in Seq(Buffer)
    BY DEF Heard, TypeOK
<1>2. \A f \in Frames : Whole(raw', f) <=> f = g /\ FrameLen[g] <= AirFrameMax
    BY <1>1, WholeLemma
<1>3. CASE \E f \in Frames : Accepts(f, p)
  <2>1. PICK f \in Frames : Accepts(f, p)
      BY <1>3
  <2>2. f = g /\ FrameLen[g] <= AirFrameMax
      BY <1>2, <2>1 DEF Accepts
  <2>3. /\ g \in Plain \union Sealed /\ FrameSn[g] > recv_sn /\ recv_sn' = FrameSn[g]
        /\ passed' = passed \/ passed' = passed \union {g}
      BY <2>1, <2>2 DEF Accepts
  <2> QED BY <2>2, <2>3 DEF Link!Judge, Link!Pass, Link!Fits
<1>4. CASE RejectsOld(p)
  <2>1. FrameSn[g] <= recv_sn /\ UNCHANGED <<recv_sn, passed>>
      BY <1>2, <1>4 DEF RejectsOld
  <2>2. FrameSn[g] \in Nat /\ recv_sn' \in Nat
      BY <1>1 DEF TypeOK
  <2>3. ~(FrameSn[g] > recv_sn)
      BY <2>1, <2>2
  <2> QED BY <2>1, <2>3 DEF Link!Judge, Link!Refuse
<1>5. CASE RejectsUnread(p)
  <2>1. ~(g \in Plain /\ FrameLen[g] <= AirFrameMax) /\ UNCHANGED <<recv_sn, passed>>
      BY <1>1, <1>2, <1>5 DEF RejectsUnread, Ignores
  <2> QED BY <2>1 DEF Link!Judge, Link!Refuse, Link!Fits
<1> QED BY <1>3, <1>4, <1>5 DEF Judged

\* Without a complete frame nothing is passed on.
LEMMA NoJudgeLemma ==
    ASSUME TypeOK', NEW p, Judged(p), ~Heard(raw')
    PROVE  UNCHANGED <<recv_sn, passed>>
<1>1. raw' \in Seq(Buffer)
    BY DEF TypeOK
<1>2. \A f \in Frames : ~Whole(raw', f)
    BY <1>1, WholeLemma
<1> QED BY <1>2, BleAssumption DEF Judged, Accepts, RejectsOld, RejectsUnread, Ignores, BleAssumption

\* The run that FrameLink sees, before and after a step.
LEMMA RunLemma ==
    ASSUME NEW p \in Pieces
    PROVE  /\ Run = <<p.frame, p.no>> <=> Heard(raw) /\ raw[1].frame = p.frame /\ Len(raw) = p.no
           /\ Heard(raw') => Run' = <<raw'[1].frame, Len(raw')>>
           /\ ~Heard(raw') => Run' = <<>>
           /\ raw' = raw => Run' = Run
BY DEF Run

\* What a write does, as FrameLink has it.
WriteStep(p) ==
    \/ Link!Hear(p.frame, p.no) \/ Link!Spoil(p.frame, p.no)
    \/ \E g \in Frames : Link!Again(p.frame, p.no, g)

\* A write that is looked at is heard, spoils the run, or has the frame judged again.
LEMMA WriteRefines ==
    ASSUME BleInv, TypeOK', NEW p \in Pieces,
           WriteOutOfOrder(p) \/ WriteRepeated(p) \/ WritePiece(p) \/ WriteLast(p)
    PROVE  WriteStep(p)
<1> USE BleAssumption DEF BleAssumption
<1>0. TypeOK /\ Assembled
    BY DEF BleInv
<1>1. p.frame \in Frames /\ p.no \in Nat /\ p.no < FrameLen[p.frame] /\ FrameLen[p.frame] \in Nat
    BY PiecesLemma
<1>2. CASE WriteOutOfOrder(p)
  <2>1. /\ p.no # 0 /\ p.no # subpkg_num + 1
        /\ raw' = <<>> /\ UNCHANGED <<recv_sn, passed>>
      BY <1>2 DEF WriteOutOfOrder, InOrder, Ignores
  <2>2. Run # <<p.frame, p.no>>
      BY <1>0, <2>1, NotNext, RunLemma
  <2>3. Run' = <<>>
      BY <2>1, RunLemma DEF Heard
  <2> QED BY <2>1, <2>2, <2>3 DEF WriteStep, Link!Spoil, Link!Continues, Link!Nothing
<1>3. CASE WriteRepeated(p)
  <2>1. /\ Repeated(p) /\ p.no # 0 /\ p.no = subpkg_num
        /\ raw' = raw \o subpkg /\ UNCHANGED <<recv_sn, passed>>
      BY <1>3 DEF WriteRepeated, Repeated, Ignores
  <2>2. p.no # subpkg_num + 1
      BY <1>0, <2>1 DEF TypeOK
  <2>3. Run # <<p.frame, p.no>>
      BY <1>0, <2>1, <2>2, NotNext, RunLemma
  <2>4. CASE ~Heard(raw')
      BY <2>1, <2>3, <2>4, RunLemma DEF WriteStep, Link!Spoil, Link!Continues, Link!Nothing
  <2>5. CASE Heard(raw') /\ raw' = raw /\ (Heard(raw) => Len(raw) = FrameLen[raw[1].frame])
    <3> DEFINE g == raw[1].frame
    <3>1. g \in Frames /\ Run = <<g, FrameLen[g]>> /\ Run' = Run
        BY <2>5, RunLemma DEF Heard, Run
    <3>2. Link!Again(p.frame, p.no, g)
        BY <2>1, <2>3, <3>1 DEF Link!Again, Link!Continues
    <3> QED BY <3>1, <3>2 DEF WriteStep
  <2> QED BY <2>1, <2>4, <2>5, RepeatedLemma
<1>4. CASE WritePiece(p) \/ WriteLast(p)
  <2>1. InOrder(p) /\ Decode(p) /\ raw' = Collected(p)
      BY <1>4 DEF WritePiece, WriteLast
  <2>2. \/ cnt' < total' /\ UNCHANGED <<recv_sn, passed>>
        \/ cnt' >= total' /\ Judged(p)
      BY <1>4 DEF WritePiece, WriteLast, Ignores, Judged
  <2>3. cnt' \in Nat /\ total' \in Nat
      BY DEF TypeOK
  <2>4. CASE Continued(p)
    <3>1. p.no = 0 \/ Run = <<p.frame, p.no>>
        BY <2>4, RunLemma DEF Continued
    <3>2. Run' = <<p.frame, p.no + 1>>
        BY <2>4, RunLemma DEF Continued
    <3>3. CASE p.no + 1 = FrameLen[p.frame]
      <4>1. Judged(p)
          BY <2>2, <2>3, <2>4, <3>3 DEF Continued
      <4>2. Link!Judge(p.frame)
          BY <2>4, <3>3, <4>1, JudgeLemma DEF Continued
      <4> QED BY <3>1, <3>2, <3>3, <4>2 DEF WriteStep, Link!Hear, Link!Continues
    <3>4. CASE p.no + 1 # FrameLen[p.frame]
      <4>1. UNCHANGED <<recv_sn, passed>>
          BY <1>1, <2>2, <2>3, <2>4, <3>4 DEF Continued
      <4> QED BY <3>1, <3>2, <3>4, <4>1 DEF WriteStep, Link!Hear, Link!Continues
    <3> QED BY <3>3, <3>4
  <2>5. CASE Spoiled(p)
    <3>1. UNCHANGED <<recv_sn, passed>>
        BY <2>2, <2>5, NoJudgeLemma DEF Spoiled
    <3>2. Run # <<p.frame, p.no>> /\ Run' = <<>> /\ p.no # 0
        BY <2>5, RunLemma DEF Spoiled
    <3> QED BY <3>1, <3>2 DEF WriteStep, Link!Spoil, Link!Continues, Link!Nothing
  <2>6. CASE Stray(p)
    <3> DEFINE g == raw[1].frame
    <3>1. /\ g \in Frames /\ Heard(raw') /\ raw' = raw
          /\ Run = <<g, FrameLen[g]>> /\ Run' = Run
          /\ Run # <<p.frame, p.no>> /\ p.no # 0
        BY <2>6, RunLemma DEF Stray, Heard, Run
    <3>2. Judged(p)
        BY <2>2, <2>3, <2>6 DEF Stray
    <3>3. Link!Judge(g)
        BY <2>6, <3>1, <3>2, JudgeLemma DEF Stray
    <3>4. Link!Again(p.frame, p.no, g)
        BY <3>1, <3>3 DEF Link!Again, Link!Continues
    <3> QED BY <3>1, <3>4 DEF WriteStep
  <2> QED BY <1>0, <2>1, <2>4, <2>5, <2>6, CollectLemma
<1> QED BY <1>2, <1>3, <1>4

\* Initial states map to initial states.
LEMMA InitRefines == Init => Link!Init
BY DEF Init, Link!Init, Link!Nothing, Input, Run, Heard

\* Every step maps to a step of FrameLink or to a stutter.
LEMMA StepRefines ==
    BleInv /\ TypeOK' /\ [Next]_vars => [Link!Next]_<<Input, Run, recv_sn, passed>>
<1> SUFFICES ASSUME BleInv, TypeOK', [Next]_vars
             PROVE  Link!Next \/ UNCHANGED <<Input, Run, recv_sn, passed>>
    OBVIOUS
<1>1. Input' \in Link!Inputs
  <2>1. CASE piece' # ZERO /\ peer' # 0
    <3>1. piece' \in Pieces
        BY <2>1 DEF TypeOK, Buffer
    <3> QED BY <2>1, <3>1, PiecesLemma DEF Input, Link!Inputs
  <2>2. CASE ~(piece' # ZERO /\ peer' # 0)
      BY <2>2 DEF Input, Link!Inputs, Link!Nothing
  <2> QED BY <2>1, <2>2
<1>2. CASE UNCHANGED trsVars /\ (OfferStep \/ ConnectStep)
  <2>1. Run' = Run
      BY <1>2 DEF trsVars, Run
  <2> QED BY <1>1, <1>2, <2>1 DEF OfferStep, ConnectStep, rcvVars, Link!Next, Link!Offer,
             Link!Connect, Link!Nothing
<1>3. ASSUME NEW p \in Pieces, Write(p)
      PROVE  Link!Next \/ UNCHANGED <<Input, Run, recv_sn, passed>>
  <2>1. CASE WriteUnknown(p) \/ WriteFaults(p)
      BY <2>1 DEF WriteUnknown, WriteFaults, Reads, Ignores, trsVars, rcvVars, Input, Run
  <2>2. CASE WriteOutOfOrder(p) \/ WriteRepeated(p) \/ WritePiece(p) \/ WriteLast(p)
    <3>1. WriteStep(p)
        BY <2>2, WriteRefines
    <3>2. Reads(p) /\ peer # 0
        BY <2>2 DEF WriteOutOfOrder, WriteRepeated, WritePiece, WriteLast
    <3>3. Input = <<p.frame, p.no>>
        BY <3>2, PiecesLemma DEF Reads, Input
    <3>4. p.frame \in Frames /\ p.no \in 0..(FrameLen[p.frame] - 1)
      <4>1. p.frame \in Frames /\ p.no \in Nat /\ p.no < FrameLen[p.frame]
          BY PiecesLemma
      <4>2. FrameLen[p.frame] \in Nat
          BY <4>1, BleAssumption DEF BleAssumption
      <4> QED BY <4>1, <4>2
    <3>5. Link!Take(p.frame, p.no)
        BY <1>1, <3>1, <3>3 DEF Link!Take, WriteStep
    <3> QED BY <3>4, <3>5 DEF Link!Next
  <2> QED BY <1>3, <2>1, <2>2 DEF Write
<1> QED BY <1>2, <1>3, OtherSteps DEF BleInv

\* The manager implements FrameLink: for all frames and whatever pieces the worker
\* finds at the pointers it was given, only frames whose pieces it found one after the
\* other reach the sessions, in the order of their numbers, and none of those is missed
\* but for lack of memory.
THEOREM BleRefinement == Spec => ImplementsFrameLink
<1>1. BleInv => TypeOK
    BY DEF BleInv
<1>2. Spec => Init /\ [][Next]_vars
    BY DEF Spec
<1> QED BY <1>1, <1>2, BleInvariant, InitRefines, StepRefines, PTL
        DEF ImplementsFrameLink, Link!Spec

------------------------------------------------------------------------------
(* Connections and their ends.                                                *)
\* What posting does to the queue.
LEMMA QueueGrows ==
    ASSUME TypeOK, NEW e \in Events, q' = Append(q, e)
    PROVE  /\ Len(q) \in Nat /\ Len(q') = Len(q) + 1 /\ q'[Len(q) + 1] = e
           /\ \A i \in 1..Len(q) : q'[i] = q[i]
BY AppendProperties DEF TypeOK

\* What taking does to it.
LEMMA QueueShrinks ==
    ASSUME TypeOK, NEW kind, Takes(kind)
    PROVE  /\ Len(q) \in Nat \ {0} /\ Head(q) = q[1] /\ q[1].ev = kind
           /\ Len(q') = Len(q) - 1
           /\ \A i \in 1..Len(q') : q'[i] = q[i + 1]
<1>1. q \in Seq(Events) /\ q # <<>> /\ q' = Tail(q) /\ Head(q).ev = kind
    BY DEF TypeOK, Takes
<1> QED BY <1>1

\* The known connection is asked to end.
LEMMA DisconnectDrops ==
    ASSUME Disconnect, link # 0, peer = link
    PROVE  drop'
<1>1. drop' = (link # 0)
    BY Zenon DEF Disconnect
<1> QED BY <1>1, Zenon

\* What a write leaves alone, and what it may do to a pairing.
LEMMA WriteFrame ==
    ASSUME TypeOK, NEW p \in Pieces, Write(p)
    PROVE  /\ UNCHANGED <<link, conns, adv, q, peer, firing, s_iot_conn_stat, lost, unseen>>
           /\ wk = "idle" /\ wk' # "advert"
           /\ is_paired => is_paired'
           /\ is_paired' => is_paired \/ peer # 0
           /\ timer => timer' \/ is_paired'
           /\ drop /\ link # 0 /\ peer = link => drop'
<1> USE DEF stackVars, trsVars, rcvVars, wkVars, monVars
<1>1. CASE WriteUnknown(p) \/ WriteOutOfOrder(p) \/ WriteRepeated(p) \/ WritePiece(p)
    BY <1>1 DEF WriteUnknown, WriteOutOfOrder, WriteRepeated, WritePiece, Reads, Ignores
<1>2. CASE WriteFaults(p)
    BY <1>2 DEF WriteFaults
<1>3. CASE WriteLast(p)
  <2>1. Reads(p) /\ peer # 0
      BY <1>3 DEF WriteLast
  <2>2. CASE RejectsOld(p) \/ RejectsUnread(p)
    <3>1. wk' # "advert" /\ UNCHANGED <<is_paired, timer>> /\ (Disconnect \/ drop' = drop)
        BY <2>2, Zenon DEF RejectsOld, RejectsUnread, Ignores
    <3>2. drop /\ link # 0 /\ peer = link => drop'
        BY <3>1, DisconnectDrops, Zenon
    <3> QED BY <2>1, <3>1, <3>2 DEF Reads
  <2>3. ASSUME NEW f \in Frames, Accepts(f, p)
        PROVE  /\ wk' # "advert" /\ (is_paired => is_paired')
               /\ (timer => timer' \/ is_paired')
               /\ (drop /\ link # 0 /\ peer = link => drop')
    <3>1. CASE Handles(f, p)
      <4>1. is_paired' = (is_paired \/ FrameKind[f] = "pair")
          BY <3>1, Zenon DEF Handles
      <4>2. timer' = (timer /\ FrameKind[f] # "pair")
          BY <3>1, Zenon DEF Handles
      <4>3. Disconnect \/ drop' = drop
          BY <3>1, Zenon DEF Handles
      <4>4. wk' # "advert"
          BY <3>1 DEF Handles
      <4>5. drop /\ link # 0 /\ peer = link => drop'
          BY <4>3, DisconnectDrops, Zenon
      <4> QED BY <4>1, <4>2, <4>4, <4>5, Zenon
    <3>2. CASE ~Handles(f, p)
        BY <2>3, <3>2 DEF Accepts
    <3> QED BY <3>1, <3>2
  <2> QED BY <1>3, <2>1, <2>2, <2>3 DEF WriteLast, Reads
<1> QED BY <1>1, <1>2, <1>3, Zenon DEF Write

\* The connections known, and those in the queue, have been made.
ConnsMade ==
    /\ link <= conns /\ peer <= conns
    /\ \A i \in 1..Len(q) : q[i].conn <= conns

TimedInv == TypeOK /\ ConnsMade /\ UnpairedIsTimed

\* A new connection has a number of its own.
LEMMA ConnsMadeKept == TypeOK /\ ConnsMade /\ [Next]_vars => ConnsMade'
<1> SUFFICES ASSUME TypeOK, ConnsMade, [Next]_vars PROVE ConnsMade'
    OBVIOUS
<1> USE BleAssumption DEF BleAssumption, stackVars, trsVars, rcvVars, wkVars, monVars
<1>0. /\ link \in Nat /\ conns \in Nat /\ peer \in Nat
      /\ q \in Seq(Events) /\ \A i \in 1..Len(q) : q[i].conn \in Nat
  <2>1. \A i \in 1..Len(q) : q[i] \in Events
      BY DEF TypeOK
  <2> QED BY <2>1 DEF TypeOK, Events
<1>1. ASSUME NEW e \in Events, q' = Append(q, e), e.conn <= conns', conns <= conns', conns' \in Nat
      PROVE  \A i \in 1..Len(q') : q'[i].conn <= conns'
    BY <1>0, <1>1, QueueGrows DEF ConnsMade
<1>2. ASSUME NEW kind, Takes(kind), conns' = conns
      PROVE  Head(q).conn <= conns /\ \A i \in 1..Len(q') : q'[i].conn <= conns'
    BY <1>0, <1>2, QueueShrinks DEF ConnsMade
<1>3. ASSUME q' = q, conns <= conns', conns' \in Nat
      PROVE  \A i \in 1..Len(q') : q'[i].conn <= conns'
    BY <1>0, <1>3 DEF ConnsMade
<1>4. CASE Connects
  <2>1. conns' = conns + 1 /\ link' = conns + 1 /\ peer' = peer
      BY <1>4 DEF Connects
  <2>2. Event("connect", conns + 1) \in Events /\ Event("connect", conns + 1).conn = conns + 1
      BY <1>4, EventLemma DEF Connects, TypeOK, Event
  <2>3. q' = Append(q, Event("connect", conns + 1)) \/ q' = q
      BY <1>4, Zenon DEF Connects, Post
  <2>4. \A i \in 1..Len(q') : q'[i].conn <= conns'
      BY <2>1, <2>2, <2>3, <1>0, <1>1, <1>3
  <2> QED BY <2>1, <2>4, <1>0 DEF ConnsMade
<1>5. CASE ConnectFails \/ Drops \/ Writes
  <2>1. UNCHANGED <<conns, peer>> /\ link' \in {0, link}
      BY <1>5 DEF ConnectFails, Drops, Writes
  <2>2. \E e \in {Event("failed", 0), Event("disconnect", 0), Event("write", 0)} :
           q' = Append(q, e) \/ q' = q
      BY <1>5, Zenon DEF ConnectFails, Drops, Writes, Post
  <2>3. \A e \in {Event("failed", 0), Event("disconnect", 0), Event("write", 0)} :
           e \in Events /\ e.conn = 0
      BY EventLemma DEF Event
  <2>4. \A i \in 1..Len(q') : q'[i].conn <= conns'
    <3>1. PICK e \in {Event("failed", 0), Event("disconnect", 0), Event("write", 0)} :
             q' = Append(q, e) \/ q' = q
        BY <2>2
    <3>2. e \in Events /\ e.conn <= conns' /\ conns <= conns' /\ conns' \in Nat
        BY <2>1, <2>3, <1>0
    <3> QED BY <3>1, <3>2, <1>1, <1>3
  <2>5. link' <= conns' /\ peer' <= conns'
      BY <2>1, <1>0 DEF ConnsMade
  <2> QED BY <2>4, <2>5 DEF ConnsMade
<1>6. CASE StackInit \/ ConnectionBegins \/ ConnectionFailed \/ ConnectionEnds \/ TakesWrite
  <2>1. UNCHANGED <<conns, link>> /\ peer' \in {0, peer, Head(q).conn}
      BY <1>6 DEF StackInit, ConnectionBegins, ConnectionFailed, ConnectionEnds, TakesWrite
  <2>2. \E kind \in {"init", "connect", "failed", "disconnect", "write"} : Takes(kind)
      BY <1>6 DEF StackInit, ConnectionBegins, ConnectionFailed, ConnectionEnds, TakesWrite
  <2>3. Head(q).conn <= conns /\ \A i \in 1..Len(q') : q'[i].conn <= conns'
      BY <2>1, <2>2, <1>2
  <2> QED BY <2>1, <2>3, <1>0 DEF ConnsMade
<1>7. CASE \E p \in Pieces : Write(p)
    BY <1>7, WriteFrame DEF ConnsMade
<1>8. CASE CloudChanges \/ AdvertisesAgain \/ PairTimerFires \/ ble_pair_timeout_cb
           \/ MonitorLooks \/ MonitorSeesUp \/ MonitorSeesDown \/ UNCHANGED vars
  <2>1. UNCHANGED <<link, conns, peer, q>>
      BY <1>8 DEF CloudChanges, AdvertisesAgain, PairTimerFires, ble_pair_timeout_cb,
         MonitorLooks, MonitorSeesUp, MonitorSeesDown, vars
  <2> QED BY <2>1 DEF ConnsMade
<1> QED BY <1>4, <1>5, <1>6, <1>7, <1>8 DEF Next, Worker, Monitor

\* Every step keeps the time of an unpaired connection running.
LEMMA UnpairedKept == TypeOK /\ ConnsMade /\ UnpairedIsTimed /\ [Next]_vars => UnpairedIsTimed'
<1> SUFFICES ASSUME TypeOK, ConnsMade, UnpairedIsTimed, [Next]_vars PROVE UnpairedIsTimed'
    OBVIOUS
<1> USE DEF stackVars, trsVars, rcvVars, wkVars, monVars, UnpairedIsTimed, Up
<1>1. CASE Connects
  <2>1. link' = conns + 1 /\ peer' = peer
      BY <1>1 DEF Connects
  <2>2. peer' # link'
      BY <2>1 DEF ConnsMade, TypeOK
  <2> QED BY <2>2
<1>2. CASE Drops
    BY <1>2 DEF Drops
<1>3. CASE ConnectFails \/ Writes \/ CloudChanges \/ StackInit \/ AdvertisesAgain \/ TakesWrite
           \/ MonitorLooks \/ MonitorSeesDown \/ UNCHANGED vars
  <2>1. UNCHANGED <<link, peer, is_paired, timer, firing, drop>> /\ (wk' # "fault" => wk # "fault")
      BY <1>3 DEF ConnectFails, Writes, CloudChanges, StackInit, AdvertisesAgain, TakesWrite,
         MonitorLooks, MonitorSeesDown, vars
  <2> QED BY <2>1
<1>4. CASE ConnectionBegins
    BY <1>4 DEF ConnectionBegins
<1>5. CASE ConnectionFailed \/ ConnectionEnds
    BY <1>5 DEF ConnectionFailed, ConnectionEnds
<1>6. ASSUME NEW p \in Pieces, Write(p) PROVE UnpairedIsTimed'
    BY <1>6, WriteFrame
<1>7. CASE PairTimerFires
    BY <1>7 DEF PairTimerFires
<1>8. CASE ble_pair_timeout_cb
    BY <1>8 DEF ble_pair_timeout_cb, Disconnect
<1>9. CASE MonitorSeesUp
    BY <1>9 DEF MonitorSeesUp, Disconnect
<1> QED BY <1>1, <1>2, <1>3, <1>4, <1>5, <1>6, <1>7, <1>8, <1>9 DEF Next, Worker, Monitor

\* A connection that is known and not paired has its time running, its timeout under
\* way or its end asked for, for any number of connections and any queue.
THEOREM UnpairedTheorem == Spec => []UnpairedIsTimed
<1>1. Init => TimedInv
  <2> SUFFICES ASSUME Init PROVE TimedInv
      OBVIOUS
  <2>1. \A i \in 1..Len(q) : q[i].conn <= conns
    <3>1. CASE q = <<>>
        BY <3>1
    <3>2. CASE q = <<Event("init", 0)>>
        BY <3>2 DEF Init, Event
    <3> QED BY <3>1, <3>2 DEF Init
  <2>2. link <= conns /\ peer <= conns /\ UnpairedIsTimed
      BY DEF Init, UnpairedIsTimed
  <2> QED BY <2>1, <2>2, TypesInit DEF TimedInv, ConnsMade
<1>2. TimedInv /\ [Next]_vars => TimedInv'
    BY TypesNext, ConnsMadeKept, UnpairedKept DEF TimedInv
<1>3. TimedInv => UnpairedIsTimed
    BY DEF TimedInv
<1> QED BY <1>1, <1>2, <1>3, PTL DEF Spec

------------------------------------------------------------------------------
(* Advertising.  As long as no event is lost, whoever has to start it is on   *)
(* the way: the end of a connection is queued behind its beginning.           *)
Queued(kinds) == \E i \in 1..Len(q) : q[i].ev \in kinds

\* The stack's first event comes before any connection is known.
InitFirst == \A i \in 1..Len(q) : q[i].ev = "init" => i = 1 /\ peer = 0 /\ ~is_paired

\* Without a connection, the end of every one that is queued or known is queued.
BeginsEnd ==
    link = 0 => \A i \in 1..Len(q) :
        q[i].ev = "connect" => \E j \in (i + 1)..Len(q) : q[j].ev = "disconnect"
PeerEnds == link = 0 /\ (peer # 0 \/ is_paired) => Queued({"disconnect"})

AdvertUnpaired == wk = "advert" => ~is_paired

\* Without a connection, the device advertises, somebody will look, or the monitor knows
\* of the cloud connection that it waits for.
Watched ==
    link = 0 => adv \/ Queued({"init", "disconnect"}) \/ wk = "advert" \/ s_iot_conn_stat \/ unseen

AdvertParts == InitFirst /\ BeginsEnd /\ PeerEnds /\ AdvertUnpaired /\ Watched
AdvertInv == Up /\ ~lost => AdvertParts

\* Posting an event that is not the stack's first keeps the order of the queue; the end
\* of a connection may end it.
LEMMA PostedOrder ==
    ASSUME TypeOK, InitFirst, NEW e \in Events, q' = Append(q, e), e.ev # "init",
           UNCHANGED <<peer, is_paired>>
    PROVE  /\ InitFirst'
           /\ \A kinds : Queued(kinds) \/ e.ev \in kinds => Queued(kinds)'
           /\ BeginsEnd /\ e.ev # "connect" /\ link' = link => BeginsEnd'
           /\ e.ev = "disconnect" => BeginsEnd'
<1>1. /\ Len(q) \in Nat /\ Len(q') = Len(q) + 1 /\ q'[Len(q) + 1] = e
      /\ \A i \in 1..Len(q) : q'[i] = q[i]
    BY QueueGrows
<1>2. InitFirst'
    BY <1>1 DEF InitFirst
<1>3. ASSUME NEW kinds, Queued(kinds) \/ e.ev \in kinds PROVE Queued(kinds)'
  <2>1. CASE Queued(kinds)
    <3>1. PICK i \in 1..Len(q) : q[i].ev \in kinds
        BY <2>1 DEF Queued
    <3>2. i \in 1..Len(q') /\ q'[i].ev \in kinds
        BY <1>1, <3>1
    <3> QED BY <3>2 DEF Queued
  <2>2. CASE e.ev \in kinds
    <3>1. Len(q) + 1 \in 1..Len(q') /\ q'[Len(q) + 1].ev \in kinds
        BY <1>1, <2>2
    <3> QED BY <3>1 DEF Queued
  <2> QED BY <1>3, <2>1, <2>2
<1>4. ASSUME BeginsEnd, e.ev # "connect", link' = link PROVE BeginsEnd'
  <2> SUFFICES ASSUME link = 0, NEW i \in 1..Len(q'), q'[i].ev = "connect"
               PROVE  \E j \in (i + 1)..Len(q') : q'[j].ev = "disconnect"
      BY <1>4 DEF BeginsEnd
  <2>1. i \in 1..Len(q) /\ q[i].ev = "connect"
      BY <1>1, <1>4
  <2>2. PICK j \in (i + 1)..Len(q) : q[j].ev = "disconnect"
      BY <1>4, <2>1 DEF BeginsEnd
  <2>3. j \in (i + 1)..Len(q') /\ q'[j] = q[j]
      BY <1>1, <2>1, <2>2
  <2> QED BY <2>2, <2>3
<1>5. ASSUME e.ev = "disconnect" PROVE BeginsEnd'
  <2> SUFFICES ASSUME NEW i \in 1..Len(q'), q'[i].ev = "connect"
               PROVE  \E j \in (i + 1)..Len(q') : q'[j].ev = "disconnect"
      BY DEF BeginsEnd
  <2>1. Len(q) + 1 \in (i + 1)..Len(q')
      BY <1>1, <1>5
  <2> QED BY <1>1, <1>5, <2>1
<1> QED BY <1>2, <1>3, <1>4, <1>5

\* Taking an event leaves the others in order.
LEMMA TakenOrder ==
    ASSUME TypeOK, InitFirst, BeginsEnd, NEW kind, Takes(kind), UNCHANGED link
    PROVE  /\ InitFirst' /\ BeginsEnd'
           /\ \A kinds : Queued(kinds) /\ kind \notin kinds => Queued(kinds)'
           /\ kind = "connect" /\ link = 0 => Queued({"disconnect"})'
           /\ kind = "init" => peer = 0 /\ ~is_paired
<1>1. /\ Len(q) \in Nat \ {0} /\ q[1].ev = kind
      /\ Len(q') = Len(q) - 1
      /\ \A i \in 1..Len(q') : q'[i] = q[i + 1]
    BY QueueShrinks
<1>2. InitFirst'
  <2>1. \A i \in 1..Len(q') : i + 1 \in 1..Len(q) /\ i + 1 # 1
      BY <1>1
  <2>2. \A i \in 1..Len(q') : q'[i].ev # "init"
      BY <1>1, <2>1 DEF InitFirst
  <2> QED BY <2>2 DEF InitFirst
<1>3. BeginsEnd'
  <2> SUFFICES ASSUME link = 0, NEW i \in 1..Len(q'), q'[i].ev = "connect"
               PROVE  \E j \in (i + 1)..Len(q') : q'[j].ev = "disconnect"
      BY DEF BeginsEnd
  <2>1. i + 1 \in 1..Len(q) /\ q[i + 1].ev = "connect"
      BY <1>1
  <2>2. PICK j \in ((i + 1) + 1)..Len(q) : q[j].ev = "disconnect"
      BY <2>1 DEF BeginsEnd
  <2>3. j - 1 \in (i + 1)..Len(q') /\ j - 1 \in 1..Len(q') /\ (j - 1) + 1 = j
      BY <1>1, <2>2
  <2>4. q'[j - 1] = q[j]
      BY <1>1, <2>3
  <2> QED BY <2>2, <2>3, <2>4
<1>4. ASSUME NEW kinds, Queued(kinds), kind \notin kinds PROVE Queued(kinds)'
  <2>1. PICK i \in 1..Len(q) : q[i].ev \in kinds
      BY <1>4 DEF Queued
  <2>2. i # 1
      BY <1>1, <1>4, <2>1
  <2>3. i - 1 \in 1..Len(q') /\ (i - 1) + 1 = i
      BY <1>1, <2>2
  <2>4. q'[i - 1] = q[i]
      BY <1>1, <2>3
  <2> QED BY <2>1, <2>3, <2>4 DEF Queued
<1>5. ASSUME kind = "connect", link = 0 PROVE Queued({"disconnect"})'
  <2>1. 1 \in 1..Len(q)
      BY <1>1
  <2>2. PICK j \in (1 + 1)..Len(q) : q[j].ev = "disconnect"
      BY <1>1, <1>5, <2>1 DEF BeginsEnd
  <2>3. j - 1 \in 1..Len(q') /\ (j - 1) + 1 = j
      BY <1>1, <2>2
  <2>4. q'[j - 1] = q[j]
      BY <1>1, <2>3
  <2> QED BY <2>2, <2>3, <2>4 DEF Queued
<1>6. kind = "init" => peer = 0 /\ ~is_paired
    BY <1>1 DEF InitFirst
<1> QED BY <1>2, <1>3, <1>4, <1>5, <1>6

\* A device that is not paired then advertises, or it could not.
LEMMA UpdateAdvertises ==
    ASSUME TypeOK, AdvUpdate, ~lost'
    PROVE  (is_paired /\ adv' = adv) \/ (~is_paired /\ adv')
<1>1. CASE is_paired
  <2>1. UNCHANGED <<adv, lost>>
      BY <1>1, Zenon DEF AdvUpdate
  <2>2. adv' = adv
      BY <2>1
  <2> QED BY <1>1, <2>2, Zenon
<1>2. CASE ~is_paired
  <2>1. adv' = TRUE \/ lost' = TRUE
      BY <1>2, Zenon DEF AdvUpdate
  <2> QED BY <1>2, <2>1, Zenon
<1> QED BY <1>1, <1>2, Zenon

\* Every step keeps somebody on the way.
LEMMA AdvertKept == TypeOK /\ AdvertInv /\ [Next]_vars => AdvertInv'
<1> SUFFICES ASSUME TypeOK, AdvertInv, [Next]_vars, Up', ~lost' PROVE AdvertParts'
    BY DEF AdvertInv
<1> USE DEF stackVars, trsVars, rcvVars, wkVars, monVars
<1>1. CASE Connects
  <2>1. PICK e \in Events : e.ev = "connect" /\ q' = Append(q, e) /\ lost' = lost
    <3>1. Event("connect", conns + 1) \in Events /\ Event("connect", conns + 1).ev = "connect"
        BY <1>1, EventLemma, BleAssumption DEF Connects, TypeOK, Event, BleAssumption
    <3>2. q' = Append(q, Event("connect", conns + 1)) /\ lost' = lost
        BY <1>1, <3>1 DEF Connects, Post
    <3> QED BY <3>1, <3>2
  <2>2. AdvertParts
      BY <1>1, <2>1 DEF AdvertInv, Up, Connects
  <2>3. link' # 0 /\ UNCHANGED <<peer, is_paired, wk>>
      BY <1>1 DEF Connects, TypeOK
  <2>4. InitFirst'
      BY <2>1, <2>2, <2>3, PostedOrder DEF AdvertParts
  <2> QED BY <2>2, <2>3, <2>4 DEF AdvertParts, BeginsEnd, PeerEnds, AdvertUnpaired, Watched
<1>2. CASE Drops
  <2>1. PICK e \in Events : e.ev = "disconnect" /\ q' = Append(q, e) /\ lost' = lost
    <3>1. Event("disconnect", 0) \in Events /\ Event("disconnect", 0).ev = "disconnect"
        BY EventLemma DEF Event
    <3>2. q' = Append(q, Event("disconnect", 0)) /\ lost' = lost
        BY <1>2, <3>1 DEF Drops, Post
    <3> QED BY <3>1, <3>2
  <2>2. UNCHANGED <<peer, is_paired, wk>>
      BY <1>2 DEF Drops
  <2>3. AdvertParts
      BY <2>1, <2>2 DEF AdvertInv, Up
  <2>4. InitFirst' /\ BeginsEnd' /\ Queued({"disconnect"})' /\ Queued({"init", "disconnect"})'
      BY <2>1, <2>2, <2>3, PostedOrder DEF AdvertParts
  <2> QED BY <2>2, <2>3, <2>4 DEF AdvertParts, PeerEnds, AdvertUnpaired, Watched
<1>3. CASE Writes
  <2>1. UNCHANGED <<link, peer, is_paired, wk, adv, s_iot_conn_stat, unseen>>
      BY <1>3 DEF Writes
  <2>2. PICK e \in Events : e.ev = "write" /\ (q' = Append(q, e) \/ q' = q) /\ ~lost
    <3>1. Event("write", 0) \in Events /\ Event("write", 0).ev = "write"
        BY EventLemma DEF Event
    <3>2. (q' = Append(q, Event("write", 0)) \/ q' = q) /\ ~lost
      <4>1. lost' = lost \/ lost' = (lost \/ Event("write", 0).ev # "write")
          BY <1>3, Zenon DEF Writes, Post
      <4>2. q' = Append(q, Event("write", 0)) \/ q' = q
          BY <1>3, Zenon DEF Writes, Post
      <4>3. lost \in BOOLEAN
          BY DEF TypeOK
      <4>4. ~lost
          BY <3>1, <4>1, <4>3
      <4> QED BY <4>2, <4>4
    <3> QED BY <3>1, <3>2
  <2>3. AdvertParts
      BY <2>1, <2>2 DEF AdvertInv, Up
  <2>4. CASE q' = q
      BY <2>1, <2>3, <2>4 DEF AdvertParts, InitFirst, BeginsEnd, PeerEnds, AdvertUnpaired, Watched,
         Queued
  <2>5. CASE q' = Append(q, e)
    <3>1. /\ InitFirst' /\ BeginsEnd'
          /\ Queued({"disconnect"}) => Queued({"disconnect"})'
          /\ Queued({"init", "disconnect"}) => Queued({"init", "disconnect"})'
        BY <2>1, <2>2, <2>3, <2>5, PostedOrder DEF AdvertParts
    <3> QED BY <2>1, <2>3, <3>1 DEF AdvertParts, PeerEnds, AdvertUnpaired, Watched
  <2> QED BY <2>2, <2>4, <2>5
<1>4. CASE ConnectFails
    BY <1>4 DEF ConnectFails
<1>5. CASE StackInit
  <2>1. Takes("init") /\ wk = "idle" /\ UNCHANGED <<link, peer, is_paired, wk, s_iot_conn_stat, unseen>>
      BY <1>5 DEF StackInit, Takes
  <2>2. AdvUpdate /\ ~lost
      BY <1>5 DEF StackInit, AdvUpdate
  <2>3. AdvertParts
      BY <2>1, <2>2 DEF AdvertInv, Up
  <2>4. /\ InitFirst' /\ BeginsEnd' /\ ~is_paired /\ peer = 0
      BY <2>1, <2>3, TakenOrder DEF AdvertParts
  <2>5. adv'
      BY <2>2, <2>4, UpdateAdvertises
  <2> QED BY <2>1, <2>4, <2>5 DEF AdvertParts, PeerEnds, AdvertUnpaired, Watched
<1>6. CASE ConnectionBegins
  <2>1. /\ Takes("connect") /\ wk = "idle"
        /\ UNCHANGED <<link, is_paired, adv, wk, s_iot_conn_stat, unseen, lost>>
      BY <1>6 DEF ConnectionBegins, Takes
  <2>2. AdvertParts
      BY <2>1 DEF AdvertInv, Up
  <2>3. Queued({"init", "disconnect"}) => Queued({"init", "disconnect"})'
      BY <2>1, <2>2, TakenOrder DEF AdvertParts
  <2>4. InitFirst' /\ BeginsEnd' /\ (link = 0 => Queued({"disconnect"})')
      BY <2>1, <2>2, TakenOrder DEF AdvertParts
  <2> QED BY <2>1, <2>2, <2>3, <2>4 DEF AdvertParts, PeerEnds, AdvertUnpaired, Watched
<1>7. CASE ConnectionFailed \/ TakesWrite
  <2>1. /\ Takes("failed") \/ Takes("write")
        /\ wk = "idle" /\ peer' \in {0, peer}
        /\ UNCHANGED <<link, is_paired, adv, wk, s_iot_conn_stat, unseen, lost>>
      BY <1>7 DEF ConnectionFailed, TakesWrite, Takes
  <2>2. AdvertParts
      BY <2>1 DEF AdvertInv, Up
  <2>3. /\ Queued({"init", "disconnect"}) => Queued({"init", "disconnect"})'
        /\ Queued({"disconnect"}) => Queued({"disconnect"})'
        /\ InitFirst' /\ BeginsEnd'
      BY <2>1, <2>2, TakenOrder DEF AdvertParts
  <2> QED BY <2>1, <2>2, <2>3 DEF AdvertParts, PeerEnds, AdvertUnpaired, Watched
<1>8. CASE ConnectionEnds
  <2>1. /\ Takes("disconnect") /\ wk = "idle" /\ wk' = "advert"
        /\ peer' = 0 /\ ~is_paired' /\ UNCHANGED <<link, lost>>
      BY <1>8 DEF ConnectionEnds, Takes
  <2>2. AdvertParts
      BY <2>1 DEF AdvertInv, Up
  <2>3. InitFirst' /\ BeginsEnd'
      BY <2>1, <2>2, TakenOrder DEF AdvertParts
  <2> QED BY <2>1, <2>3 DEF AdvertParts, PeerEnds, AdvertUnpaired, Watched
<1>9. CASE AdvertisesAgain
  <2>1. wk = "advert" /\ wk' = "idle" /\ UNCHANGED <<link, q, peer, is_paired, s_iot_conn_stat>>
      BY <1>9 DEF AdvertisesAgain
  <2>2. ~lost /\ (AdvUpdate \/ unseen' = (unseen \/ ~s_iot_conn_stat))
      BY <1>9 DEF AdvertisesAgain, AdvUpdate
  <2>3. AdvertParts
      BY <2>1, <2>2 DEF AdvertInv, Up
  <2>4. adv' \/ unseen' \/ s_iot_conn_stat'
      BY <2>1, <2>2, <2>3, UpdateAdvertises DEF AdvertParts, AdvertUnpaired
  <2> QED BY <2>1, <2>3, <2>4
          DEF AdvertParts, InitFirst, BeginsEnd, PeerEnds, AdvertUnpaired, Watched, Queued
<1>10. ASSUME NEW p \in Pieces, Write(p) PROVE AdvertParts'
  <2>1. /\ UNCHANGED <<link, adv, q, peer, s_iot_conn_stat, lost, unseen>>
        /\ wk = "idle" /\ wk' # "advert"
        /\ is_paired' => is_paired \/ peer # 0
      BY <1>10, WriteFrame
  <2>2. AdvertParts
      BY <2>1 DEF AdvertInv, Up
  <2> QED BY <2>1, <2>2
          DEF AdvertParts, InitFirst, BeginsEnd, PeerEnds, AdvertUnpaired, Watched, Queued
<1>11. CASE CloudChanges \/ PairTimerFires \/ ble_pair_timeout_cb \/ MonitorLooks \/ UNCHANGED vars
  <2>1. UNCHANGED <<link, adv, q, peer, is_paired, wk, s_iot_conn_stat, lost, unseen>>
      BY <1>11 DEF CloudChanges, PairTimerFires, ble_pair_timeout_cb, MonitorLooks, vars
  <2> QED BY <2>1 DEF AdvertInv, Up, AdvertParts, InitFirst, BeginsEnd, PeerEnds, AdvertUnpaired,
                      Watched, Queued
<1>12. CASE MonitorSeesUp
  <2>1. UNCHANGED <<link, q, peer, is_paired, wk, lost>> /\ s_iot_conn_stat'
      BY <1>12 DEF MonitorSeesUp
  <2> QED BY <2>1 DEF AdvertInv, Up, AdvertParts, InitFirst, BeginsEnd, PeerEnds, AdvertUnpaired,
                      Watched, Queued
<1>13. CASE MonitorSeesDown
  <2>1. UNCHANGED <<link, q, peer, is_paired, wk, unseen>> /\ AdvUpdate /\ ~lost
      BY <1>13 DEF MonitorSeesDown, AdvUpdate
  <2>2. AdvertParts
      BY <2>1 DEF AdvertInv, Up
  <2>3. InitFirst' /\ BeginsEnd' /\ PeerEnds' /\ AdvertUnpaired'
      BY <2>1, <2>2 DEF AdvertParts, InitFirst, BeginsEnd, PeerEnds, AdvertUnpaired, Queued
  <2>4. Watched'
    <3>1. CASE is_paired
      <4>1. link = 0 => Queued({"disconnect"})
          BY <2>2, <3>1 DEF AdvertParts, PeerEnds
      <4>2. Queued({"disconnect"}) => Queued({"init", "disconnect"})'
          BY <2>1 DEF Queued
      <4> QED BY <2>1, <4>1, <4>2 DEF Watched
    <3>2. CASE ~is_paired
        BY <2>1, <3>2, UpdateAdvertises DEF Watched
    <3> QED BY <3>1, <3>2
  <2> QED BY <2>3, <2>4 DEF AdvertParts
<1> QED BY <1>1, <1>2, <1>3, <1>4, <1>5, <1>6, <1>7, <1>8, <1>9, <1>10, <1>11, <1>12, <1>13
        DEF Next, Worker, Monitor

\* The device does not come to rest without advertising, for any number of connections
\* and any queue, as long as no event is lost and advertising can be started.
THEOREM DiscoverableTheorem == Spec => []Discoverable
<1>1. Init => TypeOK /\ AdvertInv
  <2> SUFFICES ASSUME Init, ~lost PROVE AdvertParts
      BY TypesInit DEF AdvertInv
  <2>1. q = <<Event("init", 0)>>
      BY Zenon DEF Init
  <2>2. Len(q) = 1 /\ q[1].ev = "init" /\ 1 \in 1..Len(q)
      BY <2>1 DEF Event
  <2>3. \A i \in 1..Len(q) : i = 1
      BY <2>2
  <2>4. Queued({"init", "disconnect"})
      BY <2>2 DEF Queued
  <2> QED BY <2>2, <2>3, <2>4
          DEF Init, AdvertParts, InitFirst, BeginsEnd, PeerEnds, AdvertUnpaired, Watched
<1>2. TypeOK /\ AdvertInv /\ [Next]_vars => (TypeOK /\ AdvertInv)'
    BY TypesNext, AdvertKept
<1>3. AdvertInv => Discoverable
  <2> SUFFICES ASSUME AdvertInv, AtRest, ~lost, ~unseen PROVE adv
      BY DEF Discoverable
  <2>1. ~Queued({"init", "disconnect"})
      BY DEF AtRest, Queued
  <2> QED BY <2>1 DEF AtRest, AdvertInv, AdvertParts, Watched
<1> QED BY <1>1, <1>2, <1>3, PTL DEF Spec
==============================================================================
