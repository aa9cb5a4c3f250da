------------------------------ MODULE CBusToAXI ------------------------------
(***************************************************************************)
(* CBusToAXI.sv: the bridge from the cache bus to AXI, and behind it an    *)
(* AXI memory, which is external: it accepts and answers on each channel   *)
(* in any cycle the protocol allows.  Channels are sets of names.          *)
(***************************************************************************)
EXTENDS BusOps, FiniteSets

VARIABLES
    in_issue,   \* channels of the transaction that are not done
    saved_req,  \* the request of the transaction
    count,      \* beats that follow the current one
    axi         \* the slave: has the read and the write address, beats read, data received

bridgeVars == <<in_issue, saved_req, count, axi>>

Channels == {"AR", "R", "AW", "W", "B"}

\* Beat k (from 0) of a wrapping burst of n beats of size bytes that starts at addr.
BeatAddress(addr, size, n, k) ==
    LET low == addr - (addr % (size * n))
    IN  IF k = 0 THEN addr
        ELSE low + ((addr - (addr % size) - low + k * size) % (size * n))

SlaveIdle == [ar |-> FALSE, aw |-> FALSE, read |-> 0, wbuf |-> << >>]

BridgeTypeOK ==
    /\ in_issue \in SUBSET Channels /\ saved_req \in CBusReq /\ count \in 0..15
    /\ axi \in [ar: BOOLEAN, aw: BOOLEAN, read: 0..16,
                wbuf: Seq([data: Word, strobe: SUBSET Lanes])]

BridgeInit == in_issue = {} /\ saved_req = NoReq /\ count = 0 /\ axi = SlaveIdle

----------------------------------------------------------------------------
is_last == count = 0

\* The address of the beat the slave reads next.
ReadAddress == BeatAddress(saved_req.addr, saved_req.size, saved_req.len + 1, axi.read)

\* The channels the slave may handshake on in this cycle: read data after the
\* read address, the response after the write address and all the write data.
Offered == {"AR", "AW", "W"}
           \cup (IF axi.ar THEN {"R"} ELSE {})
           \cup (IF axi.aw /\ Len(axi.wbuf) = saved_req.len + 1 THEN {"B"} ELSE {})

\* The channels that handshake when the slave is ready on those in ready.
handshake(ready) == in_issue \cap ready

rlast == axi.read = saved_req.len
wlast == is_last

\* Mutant: the write response is masked with the wrong last.
EndedNeedsRlast(shake) ==
    {ch \in shake : (ch \in {"R", "B"} => rlast) /\ (ch = "W" => wlast)}

\* The channels whose last handshake this is.
ended(shake) ==
    {ch \in shake : (ch = "R" => rlast) /\ (ch = "W" => wlast)}

bridge_resp(shake, word) ==
    LET ready == shake \cap {"W", "R"} # {}
    IN  CBusResp(ready, ready /\ ("R" \in in_issue => rlast) /\ is_last, word)

\* Mutant: the write response is not awaited.
NextIssueNoResponse(req) == IF req.is_write THEN {"AW", "W"} ELSE {"AR", "R"}

next_issue(req) == IF req.is_write THEN {"AW", "W", "B"} ELSE {"AR", "R"}

\* The clock edge of the bridge.
BridgeTick(req, shake) ==
    IF in_issue # {}
    THEN LET resp == bridge_resp(shake, ZeroWord) IN
         /\ count' = IF resp.ready /\ ~resp.last THEN (count - 1) % 16 ELSE count
         /\ in_issue' = in_issue \ ended(shake)
         /\ UNCHANGED saved_req
    ELSE /\ in_issue' = IF req.valid THEN next_issue(req) ELSE {}
         /\ saved_req' = req
         /\ count' = req.len

\* The clock edge of the slave: it returns to idle when a transaction is over.
SlaveTick(req, shake) ==
    axi' = IF "B" \in shake \/ ("R" \in shake /\ rlast) THEN SlaveIdle
           ELSE [ar   |-> axi.ar \/ "AR" \in shake,
                 aw   |-> axi.aw \/ "AW" \in shake,
                 read |-> IF "R" \in shake THEN axi.read + 1 ELSE axi.read,
                 wbuf |-> IF "W" \in shake
                          THEN Append(axi.wbuf, [data |-> req.data, strobe |-> req.strobe])
                          ELSE axi.wbuf]

\* The slave carries out the write when it responds.
commits(shake) == "B" \in shake
=============================================================================
