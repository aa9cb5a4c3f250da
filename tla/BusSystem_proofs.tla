------------------------- MODULE BusSystem_proofs -------------------------
(***************************************************************************)
(* Proofs about BusSystem.tla, for every size of the memory and of a byte, *)
(* every set of accesses and bursts within the address map, and any number *)
(* of them: the master and the two systems it talks to agree on the beat   *)
(* in progress (IInv), characters neither get lost nor change places, and  *)
(* what the master sees is the memory of bytes of ByteMemory.tla.          *)
(***************************************************************************)
EXTENDS BusSystem, Induction, SequenceTheorems, TLAPS

\* What the request lines of the data bus show of the queue q.
Front(q) == IF q = << >> THEN Quiet ELSE issue(Head(q))

\* An access that stays within the address map and within a word.
Proper(a) == a \in Access /\ a.addr % a.width = 0 /\ a.addr \in Addresses /\ Reachable(a.addr)

\* Every task in the queue is the task of a proper access.
TasksRight ==
    \A k \in DOMAIN ongoing : Proper(ongoing[k].op) /\ ongoing[k] = TaskOf(ongoing[k].op)

\* The line a burst moves lies in the memory.
LineInMemory(addr, size, n) ==
    addr % size = 0 /\ addr - (addr % (size * n)) + size * n <= PageSize

\* Beats of the cache's burst that are over.
Done == burst.len + 1 - Len(ongoing)

\* The data bus shows the front of the queue.
DbusRight ==
    master # "cache" =>
        /\ dbus = Front(ongoing) /\ burst = NoReq
        /\ master = "await" => Len(ongoing) <= 1

\* The cache's request is the burst whose beats are in the queue.
CacheRight ==
    master = "cache" =>
        /\ dbus = Quiet /\ ~aborted
        /\ ongoing = << >> => burst = NoReq
        /\ ongoing # << >> =>
               /\ burst.valid /\ Done >= 0 /\ LineInMemory(burst.addr, burst.size, burst.len + 1)
               /\ burst.strobe = Head(ongoing).strobe /\ burst.data = Head(ongoing).data
               /\ \A k \in DOMAIN ongoing :
                      /\ ongoing[k].op.kind = (IF burst.is_write THEN "store" ELSE "get")
                      /\ ongoing[k].op.width = burst.size
                      /\ ongoing[k].op.addr
                             = BeatAddress(burst.addr, burst.size, burst.len + 1, Done + k - 1)

\* The transaction of the device is the request that stands on the bus.
DeviceRight ==
    slave = "device" =>
        /\ in_issue = {} /\ axi = SlaveIdle /\ saved_req = NoReq /\ count = 0
        /\ ~tx.busy => /\ tx = Idle
                       /\ master = "cache" /\ ongoing # << >> => Done = 0
        /\ tx.busy =>
               /\ ongoing # << >> /\ req.valid
               /\ tx.is_write = req.is_write /\ tx.Number_Bytes = req.size
               /\ tx.Start_Address = req.addr /\ tx.Burst_Length = req.len + 1
               /\ tx.N \in 1..tx.Burst_Length /\ tx.aligned = (tx.N > 1)
               /\ master = "cache" => Done = tx.N - 1
               /\ tx.addr = Head(ongoing).op.addr

\* The beats of the transaction of the bridge are the beats of the request on the bus.
Moving == in_issue \cap {"R", "W"} # {}

BridgeRight ==
    slave = "axi" =>
        /\ tx = Idle /\ ctx = NoFlags
        /\ Moving => /\ ongoing # << >> /\ req.valid
                     /\ req.is_write = saved_req.is_write /\ req.size = saved_req.size
                     /\ req.addr = saved_req.addr /\ req.len = saved_req.len
                     /\ count <= saved_req.len
                     /\ master = "cache" => Done = saved_req.len - count
        /\ ~Moving /\ master = "cache" /\ ongoing # << >> => Done = 0
        /\ in_issue = {} => axi = SlaveIdle
        /\ in_issue # {} /\ ~saved_req.is_write =>
               /\ in_issue \in {{"AR", "R"}, {"R"}}
               /\ axi = [ar |-> "AR" \notin in_issue, aw |-> FALSE,
                         read |-> saved_req.len - count, wbuf |-> << >>]
        /\ in_issue # {} /\ saved_req.is_write =>
               /\ in_issue \subseteq {"AW", "W", "B"} /\ "B" \in in_issue
               /\ ~axi.ar /\ axi.aw = ("AW" \notin in_issue) /\ axi.read = 0
               /\ Len(axi.wbuf) = IF Moving THEN saved_req.len - count ELSE saved_req.len + 1

\* The thread that reads the terminal, and the flags between two cycles.
ConfregRight ==
    /\ ctx.uart_written = None /\ ctx.vuart_written = None
    /\ ctx.uart_avail => ififo # << >>
    /\ reader.c # None <=> reader.at \in {"lock", "push"}
    /\ reader.c # None => reader.c = typed

----------------------------------------------------------------------------
\* Words, tasks and requests.

\* Dropping bit 31 of an address gives the address back.
LEMMA ModSum ==
    ASSUME NEW a \in Nat, NEW h \in Nat, a < h
    PROVE  a + h \in Nat /\ (a + h) % h = a
  OBVIOUS

\* ZeroWord is a word.
LEMMA ZeroTyped == ZeroWord \in Word
  BY ByteAssumption DEF ZeroWord, Word

\* An aligned access stays within its word.
LEMMA ParseTyped ==
    ASSUME NEW w \in Widths, NEW addr \in Nat, addr % w = 0
    PROVE  /\ parse(w, addr) \in LoadOp /\ parse(w, addr).size = w
           /\ parse(w, addr).lane = addr % 8 /\ (addr % 8) + w <= 8 /\ (addr % 8) % w = 0
           /\ strobe(parse(w, addr)) = (addr % 8)..((addr % 8) + w - 1)
           /\ strobe(parse(w, addr)) \in SUBSET Lanes /\ strobe(parse(w, addr)) # {}
  <1>1. addr % 8 \in 0..7 /\ (addr % 8) - (addr % w) = addr % 8
    OBVIOUS
  <1>2. (addr % 8) + w <= 8 /\ (addr % 8) % w = 0
    <2>1. CASE w = 1
      BY <2>1
    <2>2. CASE w = 2
      BY <2>2
    <2>3. CASE w = 4
      BY <2>3
    <2>4. CASE w = 8
      BY <2>4
    <2>5. QED
      BY <2>1, <2>2, <2>3, <2>4 DEF Widths
  <1>3. w \in 1..8
    BY DEF Widths
  <1>4. parse(w, addr) = [size |-> w, lane |-> addr % 8]
    BY <1>1 DEF parse
  <1>5. strobe(parse(w, addr)) = (addr % 8)..((addr % 8) + w - 1)
    BY <1>4 DEF strobe
  <1>6. addr % 8 \in strobe(parse(w, addr)) /\ strobe(parse(w, addr)) \in SUBSET Lanes
    BY <1>1, <1>2, <1>3, <1>5 DEF Lanes
  <1>7. parse(w, addr) \in LoadOp
    BY <1>1, <1>4 DEF LoadOp, Lanes
  <1>8. parse(w, addr).size = w /\ parse(w, addr).lane = addr % 8
    BY <1>4
  <1>9. strobe(parse(w, addr)) # {}
    BY <1>6
  <1>10. QED
    BY <1>2, <1>5, <1>6, <1>7, <1>8, <1>9

\* A value moved up to its lanes is a word.
LEMMA PlaceTyped ==
    ASSUME NEW op \in LoadOp, NEW data \in Word
    PROVE  place(op, data) \in Word
  <1>1. \A l \in Lanes : l >= op.lane => l - op.lane \in Lanes
    BY DEF LoadOp, Lanes
  <1>2. QED
    BY <1>1, ByteAssumption DEF place, Word

\* What a load leaves in its destination is a word.
LEMMA ApplyTyped ==
    ASSUME NEW op \in LoadOp, NEW data \in Word, NEW old \in Word
    PROVE  applyTo(op, data, old) \in Word
  <1>1. apply(op, data) \in Word
    BY ByteAssumption DEF apply, Word
  <1>2. QED
    BY <1>1 DEF applyTo, Word

\* A word with lanes replaced is a word.
LEMMA MergeTyped ==
    ASSUME NEW old \in Word, NEW data \in Word, NEW mask
    PROVE  Merge(old, data, mask) \in Word
  BY DEF Merge, Word

\* The task of an access, as the helpers of bus.h make it.
LEMMA TaskTyped ==
    ASSUME NEW a, Proper(a)
    PROVE  /\ TaskOf(a) \in Task /\ TaskOf(a).op = a
           /\ is_load(TaskOf(a)) <=> a.kind # "store"
           /\ TaskOf(a).addr = a.addr /\ TaskOf(a).size = a.width
           /\ a.kind = "store" => /\ TaskOf(a).data = place(parse(a.width, a.addr), a.val)
                                  /\ TaskOf(a).strobe = strobe(parse(a.width, a.addr))
  <1> DEFINE op == parse(a.width, a.addr)
  <1>1. a \in Access /\ a.width \in Widths /\ a.addr \in Nat /\ a.addr % a.width = 0
        /\ a.val \in Word /\ a.kind \in {"load", "get", "store", "expect"}
    BY DEF Proper, Access
  <1>2. op \in LoadOp /\ strobe(op) \in SUBSET Lanes /\ strobe(op) # {}
    BY <1>1, ParseTyped
  <1>3. place(op, a.val) \in Word /\ ZeroWord \in Word
    BY <1>1, <1>2, PlaceTyped, ZeroTyped
  <1>4. [size |-> 8, lane |-> 0] \in LoadOp
    BY DEF LoadOp, Widths, Lanes
  <1> HIDE DEF op
  <1>5. TaskOf(a) =
          [addr |-> a.addr, size |-> a.width,
           data |-> IF a.kind \in {"load", "get"} THEN ZeroWord ELSE place(op, a.val),
           strobe |-> IF a.kind = "store" THEN strobe(op) ELSE {},
           dest |-> a.kind \in {"load", "get"},
           load_op |-> IF a.kind = "store" THEN [size |-> 8, lane |-> 0] ELSE op,
           op |-> a]
    BY DEF TaskOf, op
  <1>6. TaskOf(a) \in Task
    <2>1. (a.kind \in {"load", "get"}) \in BOOLEAN
      OBVIOUS
    <2>2. QED
      BY <1>1, <1>2, <1>3, <1>4, <1>5, <2>1 DEF Task
  <1>7. QED
    BY <1>1, <1>2, <1>5, <1>6 DEF is_load, op

\* The request lines for a task are those of its access.
LEMMA IssueTyped ==
    ASSUME NEW a, Proper(a)
    PROVE  /\ issue(TaskOf(a)) \in DBusReq
           /\ CBusWrapper(issue(TaskOf(a)))
                = [valid |-> TRUE, is_write |-> a.kind = "store", size |-> a.width,
                   addr |-> a.addr, strobe |-> TaskOf(a).strobe,
                   data |-> IF a.kind = "store" THEN TaskOf(a).data ELSE ZeroWord, len |-> 0]
           /\ CBusWrapper(issue(TaskOf(a))) \in CBusReq
  <1> DEFINE t == TaskOf(a)
  <1>1. /\ t \in Task /\ (is_load(t) <=> a.kind # "store") /\ t.addr = a.addr /\ t.size = a.width
    BY TaskTyped
  <1>2. a.addr \in Nat /\ a.addr < HighBit /\ HighBit \in Nat /\ a.addr + HighBit \in Nat
        /\ (a.addr + HighBit) % HighBit = a.addr
    <2>1. /\ HighBit \in Nat /\ RamSize \in Nat /\ HighBit >= 3 * RamSize
          /\ a.addr \in 0..(3 * RamSize - 1)
      BY HighBitAssumption, RamSizeAssumption DEF Proper, Addresses, PageSize
    <2>2. a.addr \in Nat /\ a.addr < HighBit
      BY <2>1
    <2>3. QED
      BY <2>1, <2>2, ModSum
  <1>3. t.strobe \in SUBSET Lanes /\ t.data \in Word /\ t.size \in Widths /\ ZeroWord \in Word
    BY <1>1, ZeroTyped DEF Task
  <1> HIDE DEF t
  <1>4. issue(t) = [valid |-> TRUE, addr |-> a.addr + HighBit, size |-> a.width,
                    strobe |-> t.strobe, data |-> IF a.kind = "store" THEN t.data ELSE ZeroWord]
    BY <1>1 DEF issue, is_load
  <1>5. (t.strobe # {}) = (a.kind = "store")
    BY <1>1 DEF is_load
  <1>6. issue(t) \in DBusReq
    BY <1>1, <1>2, <1>3, <1>4 DEF DBusReq
  <1>7. CBusWrapper(issue(t)) =
           [valid |-> TRUE, is_write |-> a.kind = "store", size |-> a.width,
            addr |-> a.addr, strobe |-> t.strobe,
            data |-> IF a.kind = "store" THEN t.data ELSE ZeroWord, len |-> 0]
    <2>1. /\ issue(t).valid = TRUE /\ issue(t).size = a.width
          /\ issue(t).addr % HighBit = a.addr /\ issue(t).strobe = t.strobe
          /\ issue(t).data = IF a.kind = "store" THEN t.data ELSE ZeroWord
      BY <1>2, <1>4
    <2>2. (issue(t).strobe # {}) = (a.kind = "store")
      BY <1>5, <2>1
    <2>3. QED
      BY <2>1, <2>2, Zenon DEF CBusWrapper
  <1>8. CBusWrapper(issue(t)) \in CBusReq
    BY <1>1, <1>2, <1>3, <1>7 DEF CBusReq, Lengths
  <1>9. QED
    BY <1>6, <1>7, <1>8 DEF t

\* Idle request lines are request lines.
LEMMA QuietTyped ==
    /\ Quiet \in DBusReq /\ NoReq \in CBusReq /\ CBusWrapper(Quiet) = NoReq
  <1>1. HighBit \in Nat /\ HighBit > 0 /\ 0 % HighBit = 0
    BY HighBitAssumption, RamSizeAssumption DEF PageSize
  <1>2. QED
    BY <1>1, ZeroTyped DEF Quiet, NoReq, DBusReq, CBusReq, Lengths, Widths, CBusWrapper

----------------------------------------------------------------------------
\* Wrapping bursts.

\* The remainder of a number between d and 2 * d.
LEMMA ModTwice ==
    ASSUME NEW d \in Nat, d > 0, NEW t \in Nat
    PROVE  /\ t % d \in 0..(d - 1)
           /\ t < d => t % d = t
           /\ d <= t /\ t < 2 * d => t % d = t - d
  OBVIOUS

\* A number is its quotient times the divisor, and its remainder.
LEMMA Quotient ==
    ASSUME NEW d \in Nat, d > 0, NEW a \in Nat
    PROVE  a = d * (a \div d) + (a % d) /\ a \div d \in Nat /\ a % d \in Nat
  OBVIOUS

\* An aligned address is at an aligned offset of its line.
LEMMA OffsetAligned ==
    ASSUME NEW w \in Widths, NEW n \in Nat, n > 0, NEW addr \in Nat, addr % w = 0
    PROVE  (addr % (w * n)) % w = 0
  <1> DEFINE d == w * n
  <1>1. d \in Nat /\ d > 0
    BY DEF Widths
  <1> HIDE DEF d
  <1>2. addr = d * (addr \div d) + (addr % d) /\ addr \div d \in Nat /\ addr % d \in Nat
    BY <1>1, Quotient
  <1> DEFINE x == n * (addr \div d)
  <1>3. x \in Nat /\ d * (addr \div d) = w * x
    BY <1>1, <1>2 DEF Widths, d
  <1> DEFINE p == d * (addr \div d)
             r == addr % d
  <1>4. addr = p + r /\ r \in Nat /\ p = w * x
    BY <1>2, <1>3
  <1> HIDE DEF x, p, r
  <1>5. r = addr - w * x
    BY <1>3, <1>4 DEF Widths
  <1>6. (addr - w * x) % w = 0
    BY <1>3 DEF Widths
  <1>7. QED
    BY <1>5, <1>6 DEF d, r

\* The beats of a line in the memory are aligned addresses of the memory; the first one
\* is the start address; each is the one before it plus the size, or the start of the line.
LEMMA BeatInLine ==
    ASSUME NEW addr \in Nat, NEW size \in Widths, NEW m \in Lengths,
           LineInMemory(addr, size, m + 1), NEW k \in 0..m
    PROVE  LET line == size * (m + 1)
               base == addr - (addr % line)
               b    == BeatAddress(addr, size, m + 1, k)
               up   == b + size
           IN  /\ b \in base..(base + line - size) /\ b \in Nat /\ b < PageSize /\ b % size = 0
               /\ k = 0 => b = addr
               /\ k < m => BeatAddress(addr, size, m + 1, k + 1)
                             = IF up >= base + line THEN base ELSE up
  <1> DEFINE line == size * (m + 1)
             s    == addr % line
             base == addr - s
             at(j) == (s + j * size) % line
  <1>1. PageSize \in Nat /\ addr % size = 0 /\ base + line <= PageSize
    BY RamSizeAssumption DEF LineInMemory, PageSize
  <1>2. m \in 0..15 /\ size \in 1..8 /\ line \in Nat /\ line > 0
    BY DEF Lengths, Widths
  <1>3. s \in 0..(line - 1) /\ s % size = 0 /\ addr >= s /\ base \in Nat
    <2>1. s \in 0..(line - 1) /\ addr >= s
      BY <1>2
    <2>2. s % size = 0
      <3>1. m + 1 \in Nat /\ m + 1 > 0
        BY <1>2
      <3>2. QED
        BY <1>1, <3>1, OffsetAligned
    <2>3. QED
      BY <2>1, <2>2
  <1>4. ASSUME NEW j \in 0..m
        PROVE  BeatAddress(addr, size, m + 1, j) = base + at(j)
    <2>1. addr - (addr % size) - base + j * size = s + j * size
      BY <1>1, <1>2, <1>3
    <2>2. at(0) = s
      BY <1>2, <1>3, ModTwice
    <2>3. QED
      BY <1>1, <1>2, <1>3, <2>1, <2>2 DEF BeatAddress
  <1> HIDE DEF base, s, line
  <1>5. ASSUME NEW j \in 0..m
        PROVE  /\ at(j) = IF s + j * size < line THEN s + j * size ELSE s + j * size - line
               /\ s + j * size < 2 * line
    <2>1. line = size * m + size
      BY <1>2 DEF line
    <2>2. j * size \in Nat /\ j * size <= size * m
      BY <1>2
    <2>3. s + j * size \in Nat /\ s + j * size < 2 * line
      BY <1>2, <1>3, <2>1, <2>2
    <2>4. QED
      BY <1>2, <1>3, <2>3, ModTwice
  <1>6. ASSUME NEW w \in {1, 2, 4, 8}, size = w
        PROVE  /\ at(k) \in 0..(line - w) /\ (base + at(k)) % w = 0
               /\ k < m => at(k + 1) = IF at(k) + w >= line THEN 0 ELSE at(k) + w
    <2>1. line = w * m + w
      BY <1>2, <1>6 DEF line
    <2>2. base % w = 0 /\ s % w = 0
      BY <1>1, <1>3, <1>6 DEF base
    <2>3. at(k) = IF s + k * w < line THEN s + k * w ELSE s + k * w - line
      BY <1>5, <1>6
    <2>4. k < m => at(k + 1) = IF s + k * w + w < line THEN s + k * w + w ELSE s + k * w + w - line
      <3>1. k < m => k + 1 \in 0..m /\ (k + 1) * w = k * w + w
        BY <1>2
      <3>2. QED
        BY <1>2, <1>3, <1>5, <1>6, <3>1
    <2>5. k * w <= w * m
      BY <1>2
    <2>6. at(k) \in 0..(line - w) /\ (base + at(k)) % w = 0
      BY <1>2, <1>3, <2>1, <2>2, <2>3, <2>5
    <2>7. QED
      BY <1>2, <1>3, <2>1, <2>2, <2>3, <2>4, <2>5, <2>6
  <1>7. /\ at(k) \in 0..(line - size) /\ (base + at(k)) % size = 0
        /\ k < m => at(k + 1) = IF at(k) + size >= line THEN 0 ELSE at(k) + size
    BY <1>6 DEF Widths
  <1>8. k = 0 => base + at(k) = addr
    BY <1>2, <1>3, <1>5 DEF base
  <1> HIDE DEF at
  <1>9. /\ base + at(k) \in base..(base + line - size) /\ base + at(k) \in Nat
        /\ base + at(k) < PageSize /\ (base + at(k)) % size = 0
        /\ k < m => base + at(k + 1) = IF base + at(k) + size >= base + line THEN base
                                       ELSE base + at(k) + size
    BY <1>1, <1>2, <1>3, <1>7
  <1>10. k < m => k + 1 \in 0..m
    BY <1>2
  <1>11. QED
    BY <1>4, <1>8, <1>9, <1>10 DEF base, s, line

----------------------------------------------------------------------------
\* Sequences.

\* What is left of a sequence without its head.
LEMMA TailFacts ==
    ASSUME NEW S, NEW s \in Seq(S), s # << >>
    PROVE  /\ Head(s) = s[1] /\ Head(s) \in S /\ Len(s) \in Nat /\ Len(s) >= 1
           /\ Tail(s) \in Seq(S) /\ Len(Tail(s)) = Len(s) - 1
           /\ DOMAIN s = 1..Len(s) /\ DOMAIN Tail(s) = 1..(Len(s) - 1)
           /\ \A k \in 1..(Len(s) - 1) : Tail(s)[k] = s[k + 1]
           /\ Tail(s) = << >> <=> Len(s) = 1
           /\ Tail(s) # << >> => Head(Tail(s)) = s[2]
  <1>1. Head(s) \in S /\ Tail(s) \in Seq(S) /\ Len(Tail(s)) = Len(s) - 1
        /\ \A k \in 1..Len(Tail(s)) : Tail(s)[k] = s[k + 1]
    BY HeadTailProperties
  <1>2. Len(s) \in Nat /\ DOMAIN s = 1..Len(s) /\ DOMAIN Tail(s) = 1..Len(Tail(s))
    BY <1>1, LenProperties
  <1>3. Len(s) \in Nat \ {0}
    BY EmptySeq
  <1>4. Tail(s) # << >> => Len(Tail(s)) \in Nat \ {0}
    BY <1>1, EmptySeq
  <1>5. Tail(s) = << >> => Len(Tail(s)) = 0
    BY EmptySeq
  <1>6. Tail(s) # << >> => Head(Tail(s)) = Tail(s)[1] /\ Tail(s)[1] = s[2]
    BY <1>1, <1>2, <1>3, <1>4
  <1>7. Head(s) = s[1]
    OBVIOUS
  <1>8. QED
    BY <1>1, <1>2, <1>3, <1>4, <1>5, <1>6, <1>7

\* What a sequence is with one more element.
LEMMA AppendFacts ==
    ASSUME NEW S, NEW s \in Seq(S), NEW e \in S
    PROVE  /\ Append(s, e) \in Seq(S) /\ Append(s, e) # << >> /\ Len(s) \in Nat
           /\ Len(Append(s, e)) = Len(s) + 1 /\ DOMAIN Append(s, e) = 1..(Len(s) + 1)
           /\ DOMAIN s = 1..Len(s)
           /\ \A k \in 1..Len(s) : Append(s, e)[k] = s[k]
           /\ Append(s, e)[Len(s) + 1] = e
           /\ Head(Append(s, e)) = IF s = << >> THEN e ELSE Head(s)
  <1>1. Append(s, e) \in Seq(S) /\ Append(s, e) # << >> /\ Len(Append(s, e)) = Len(s) + 1
        /\ (\A k \in 1..Len(s) : Append(s, e)[k] = s[k]) /\ Append(s, e)[Len(s) + 1] = e
    BY AppendProperties
  <1>2. Len(s) \in Nat /\ DOMAIN s = 1..Len(s) /\ DOMAIN Append(s, e) = 1..Len(Append(s, e))
    BY <1>1, LenProperties
  <1>3. Head(Append(s, e)) = IF s = << >> THEN e ELSE Head(s)
    BY HeadTailAppend
  <1>4. QED
    BY <1>1, <1>2, <1>3

\* The length of a sequence, and the empty one.
LEMMA EmptyFacts ==
    ASSUME NEW S, NEW s \in Seq(S)
    PROVE  /\ Len(s) \in Nat /\ DOMAIN s = 1..Len(s) /\ s = << >> <=> Len(s) = 0
           /\ << >> \in Seq(S)
  BY EmptySeq, LenProperties

----------------------------------------------------------------------------
\* The address map.

\* The pages of the address map.
LEMMA PageCases ==
    ASSUME NEW addr \in Addresses
    PROVE  /\ addr \in Nat /\ RamSize \in Nat /\ RamSize > 0 /\ PageSize = RamSize
           /\ addr < RamSize => PageOf(addr) = 0 /\ addr % PageSize = addr
           /\ RamSize <= addr /\ addr < 2 * RamSize => PageOf(addr) = 1
           /\ 2 * RamSize <= addr => PageOf(addr) = 2 /\ addr % PageSize = addr - 2 * RamSize
           /\ addr < 3 * RamSize
  <1>1. RamSize \in Nat /\ RamSize > 0 /\ PageSize = RamSize /\ addr \in 0..(3 * RamSize - 1)
    BY RamSizeAssumption DEF PageSize, Addresses
  <1>2. QED
    BY <1>1 DEF PageOf

\* What the router finds for an address: the device, and the byte of the memory.
LEMMA Search ==
    ASSUME NEW addr \in Addresses
    PROVE  /\ IsConf(addr) <=> 2 * RamSize <= addr
           /\ IsDevice(addr) <=> 2 * RamSize <= addr
           /\ ~IsConf(addr) => /\ translate(addr) = ByteAt(addr)
                               /\ translate(addr) \in 0..(RamSize - 1)
                               /\ translate(addr) % 8 = addr % 8
                               /\ translate(addr) \div 8 \in Words
           /\ addr < RamSize => translate(addr) = addr /\ ~IsConf(addr)
  <1> DEFINE hits == {i \in DOMAIN layout : PageOf(addr) \in layout[i].prefix}
             first == CHOOSE i \in hits : \A j \in hits : i <= j
  <1>1. PageOf(addr) \in {0, 1, 2} /\ PageOf(addr) \in Nat
    BY PageCases
  <1>2. /\ DOMAIN layout = {1, 2, 3} /\ layout[1].prefix = {1} /\ layout[2].prefix = {2}
        /\ layout[3].prefix = Nat
        /\ layout[1].dev = "mem" /\ layout[1].base = RamSize
        /\ layout[2].dev = "con" /\ layout[3].dev = "mem" /\ layout[3].base = 0
    BY DEF layout, BootBase, PageSize
  <1>3. /\ PageOf(addr) = 0 => hits = {3}
        /\ PageOf(addr) = 1 => hits = {1, 3}
        /\ PageOf(addr) = 2 => hits = {2, 3}
    BY <1>1, <1>2
  <1> HIDE DEF hits
  <1>4. /\ PageOf(addr) = 0 => first = 3
        /\ PageOf(addr) = 1 => first = 1
        /\ PageOf(addr) = 2 => first = 2
    BY <1>3
  <1>5. search(addr) = layout[first]
    BY DEF search, hits
  <1> HIDE DEF first
  <1>6. IsConf(addr) <=> PageOf(addr) = 2
    BY <1>1, <1>2, <1>4, <1>5 DEF IsConf
  <1>7. PageOf(addr) = 0 => translate(addr) = addr - 0
    BY <1>2, <1>4, <1>5 DEF translate
  <1>8. PageOf(addr) = 1 => translate(addr) = addr - RamSize
    BY <1>2, <1>4, <1>5 DEF translate
  <1>9. /\ PageOf(addr) = 1 => ByteAt(addr) = addr - RamSize
        /\ PageOf(addr) = 0 => ByteAt(addr) = addr
    BY DEF ByteAt, PageSize
  <1>10. /\ IsConf(addr) <=> 2 * RamSize <= addr
         /\ IsDevice(addr) <=> 2 * RamSize <= addr
    BY <1>6, PageCases DEF IsDevice
  <1>11. ~IsConf(addr) => /\ translate(addr) = ByteAt(addr)
                          /\ translate(addr) \in 0..(RamSize - 1)
                          /\ translate(addr) % 8 = addr % 8
    BY <1>1, <1>6, <1>7, <1>8, <1>9, PageCases, RamSizeAssumption
  <1>12. ASSUME NEW p \in 0..(RamSize - 1) PROVE p \div 8 \in Words
    BY RamSizeAssumption DEF Words
  <1>13. addr < RamSize => translate(addr) = addr /\ ~IsConf(addr)
    BY <1>6, <1>7, PageCases
  <1>14. QED
    BY <1>10, <1>11, <1>12, <1>13

----------------------------------------------------------------------------
\* The request on the bus.

\* The master's part of the state.
MasterRight ==
    /\ PipelineTypeOK /\ burst \in CBusReq
    /\ master \in {"queue", "await", "cache"} /\ slave \in {"device", "axi"}
    /\ TasksRight /\ DbusRight /\ CacheRight

\* The front task is the task of a proper access.
LEMMA HeadTask ==
    ASSUME MasterRight, ongoing # << >>
    PROVE  /\ Proper(Head(ongoing).op) /\ Head(ongoing) = TaskOf(Head(ongoing).op)
           /\ Head(ongoing) \in Task /\ Head(ongoing) = ongoing[1]
           /\ Len(ongoing) \in Nat /\ Len(ongoing) >= 1 /\ DOMAIN ongoing = 1..Len(ongoing)
  <1>1. ongoing \in Seq(Task)
    BY DEF MasterRight, PipelineTypeOK
  <1>2. /\ Head(ongoing) \in Task /\ Head(ongoing) = ongoing[1] /\ 1 \in DOMAIN ongoing
        /\ Len(ongoing) \in Nat /\ Len(ongoing) >= 1 /\ DOMAIN ongoing = 1..Len(ongoing)
    BY <1>1, TailFacts
  <1>3. QED
    BY <1>2 DEF MasterRight, TasksRight

\* A request stands on the bus exactly while tasks are queued; it shows the front one.
LEMMA RequestRight ==
    ASSUME MasterRight
    PROVE  /\ req \in CBusReq /\ (req.valid <=> ongoing # << >>)
           /\ ongoing = << >> => req = NoReq
           /\ ongoing # << >> =>
                  LET a == Head(ongoing).op IN
                  /\ req.is_write = (a.kind = "store") /\ req.size = a.width
                  /\ req.strobe = Head(ongoing).strobe
                  /\ a.kind = "store" => req.data = Head(ongoing).data
                  /\ master = "cache" =>
                        /\ req.len = burst.len /\ req.addr = burst.addr /\ Done \in 0..burst.len
                        /\ LineInMemory(burst.addr, burst.size, burst.len + 1)
                        /\ a.addr = BeatAddress(req.addr, req.size, req.len + 1, Done)
                  /\ master # "cache" => req.len = 0 /\ req.addr = a.addr
  <1>1. ASSUME master = "cache"
        PROVE  req = burst /\ req \in CBusReq /\ (ongoing = << >> => req = NoReq)
    BY <1>1 DEF MasterRight, CacheRight, req
  <1>2. ASSUME master # "cache"
        PROVE  /\ req = CBusWrapper(Front(ongoing)) /\ req \in CBusReq
               /\ ongoing = << >> => req = NoReq
    <2>1. req = CBusWrapper(Front(ongoing))
      BY <1>2 DEF MasterRight, DbusRight, req
    <2>2. CASE ongoing = << >>
      BY <2>1, <2>2, QuietTyped DEF Front
    <2>3. CASE ongoing # << >>
      BY <2>1, <2>3, HeadTask, IssueTyped DEF Front
    <2>4. QED
      BY <2>1, <2>2, <2>3
  <1>3. ASSUME ongoing # << >>, master = "cache"
        PROVE  LET a == Head(ongoing).op IN
               /\ req.valid /\ req.is_write = (a.kind = "store") /\ req.size = a.width
               /\ req.strobe = Head(ongoing).strobe /\ req.data = Head(ongoing).data
               /\ req.len = burst.len /\ req.addr = burst.addr /\ Done \in 0..burst.len
               /\ LineInMemory(burst.addr, burst.size, burst.len + 1)
               /\ a.addr = BeatAddress(req.addr, req.size, req.len + 1, Done)
    <2>1. /\ burst.valid /\ Done >= 0 /\ LineInMemory(burst.addr, burst.size, burst.len + 1)
          /\ burst.strobe = Head(ongoing).strobe /\ burst.data = Head(ongoing).data
          /\ \A k \in DOMAIN ongoing :
                 /\ ongoing[k].op.kind = (IF burst.is_write THEN "store" ELSE "get")
                 /\ ongoing[k].op.width = burst.size
                 /\ ongoing[k].op.addr
                        = BeatAddress(burst.addr, burst.size, burst.len + 1, Done + k - 1)
      BY <1>3 DEF MasterRight, CacheRight
    <2>2. Head(ongoing) = ongoing[1] /\ 1 \in DOMAIN ongoing /\ Len(ongoing) >= 1 /\ Len(ongoing) \in Nat
      BY <1>3, HeadTask
    <2>3. burst.len \in 0..15 /\ burst.is_write \in BOOLEAN
      BY <1>1, <1>3 DEF CBusReq, Lengths
    <2>4. Done \in 0..burst.len /\ Done + 1 - 1 = Done
      <3> DEFINE n == Len(ongoing)
                 len == burst.len
      <3>1. n \in Nat /\ n >= 1 /\ len \in Nat /\ len + 1 - n >= 0
        BY <2>1, <2>2, <2>3 DEF Done
      <3>2. Done = len + 1 - n
        BY DEF Done
      <3> HIDE DEF n, len
      <3>3. Done \in 0..len /\ Done + 1 - 1 = Done
        BY <3>1, <3>2
      <3>4. QED
        BY <3>3 DEF len
    <2>5. ongoing[1].op.addr = BeatAddress(burst.addr, burst.size, burst.len + 1, Done)
      BY <2>1, <2>2, <2>4
    <2>6. burst.is_write = (ongoing[1].op.kind = "store")
      BY <2>1, <2>2, <2>3
    <2>7. QED
      BY <1>1, <1>3, <2>1, <2>2, <2>4, <2>5, <2>6
  <1>4. ASSUME ongoing # << >>, master # "cache"
        PROVE  LET a == Head(ongoing).op IN
               /\ req.valid /\ req.is_write = (a.kind = "store") /\ req.size = a.width
               /\ req.strobe = Head(ongoing).strobe
               /\ a.kind = "store" => req.data = Head(ongoing).data
               /\ req.len = 0 /\ req.addr = a.addr
    <2>1. Front(ongoing) = issue(Head(ongoing))
      BY <1>4 DEF Front
    <2>2. QED
      BY <1>2, <1>4, <2>1, HeadTask, IssueTyped
  <1>5. NoReq.valid = FALSE
    BY DEF NoReq
  <1>6. (req.valid <=> ongoing # << >>)
    BY <1>1, <1>2, <1>3, <1>4, <1>5
  <1>7. QED
    BY <1>1, <1>2, <1>3, <1>4, <1>6

----------------------------------------------------------------------------
\* What the master does with a response.

\* A response that fits the tasks that are queued.
Fits(resp) ==
    /\ resp.data \in Word /\ resp.ready \in BOOLEAN /\ resp.last \in BOOLEAN
    /\ resp.ready => /\ ongoing # << >>
                     /\ master # "cache" => resp.last
                     /\ master = "cache" => (resp.last <=> Len(ongoing) = 1)

\* Without its front the queue is still one of proper tasks.
LEMMA TasksTail ==
    ASSUME MasterRight, ongoing # << >>, ongoing' = Tail(ongoing), slave' = slave
    PROVE  /\ ongoing' \in Seq(Task) /\ TasksRight' /\ Len(ongoing') = Len(ongoing) - 1
           /\ ongoing' # ongoing /\ (ongoing' = << >> <=> Len(ongoing) = 1)
           /\ DOMAIN ongoing' = 1..(Len(ongoing) - 1)
           /\ \A k \in DOMAIN ongoing' : ongoing'[k] = ongoing[k + 1] /\ k + 1 \in DOMAIN ongoing
  <1>1. ongoing \in Seq(Task)
    BY DEF MasterRight, PipelineTypeOK
  <1>2. /\ Len(ongoing) \in Nat /\ Len(ongoing) >= 1
        /\ Tail(ongoing) \in Seq(Task) /\ Len(Tail(ongoing)) = Len(ongoing) - 1
        /\ DOMAIN ongoing = 1..Len(ongoing) /\ DOMAIN Tail(ongoing) = 1..(Len(ongoing) - 1)
        /\ \A k \in 1..(Len(ongoing) - 1) : Tail(ongoing)[k] = ongoing[k + 1]
        /\ Tail(ongoing) = << >> <=> Len(ongoing) = 1
    BY <1>1, TailFacts
  <1>3. \A k \in DOMAIN ongoing' : ongoing'[k] = ongoing[k + 1] /\ k + 1 \in DOMAIN ongoing
    BY <1>2
  <1>4. TasksRight'
    <2>1. ASSUME NEW k \in DOMAIN ongoing'
          PROVE  (Proper(ongoing[k].op) /\ ongoing[k] = TaskOf(ongoing[k].op))'
      <3>1. Proper(ongoing[k + 1].op) /\ ongoing[k + 1] = TaskOf(ongoing[k + 1].op)
        BY <1>3 DEF MasterRight, TasksRight
      <3>2. (ongoing[k])' = ongoing[k + 1]
        BY <1>3
      <3>3. QED
        BY <3>1, <3>2 DEF Proper, Reachable
    <2>2. QED
      BY <2>1 DEF TasksRight
  <1>5. Len(ongoing') = Len(ongoing) - 1
    BY <1>2
  <1>6. ongoing' # ongoing
    <2>1. \A n \in Nat : n - 1 # n
      OBVIOUS
    <2>2. Len(ongoing) - 1 # Len(ongoing)
      BY <1>2, <2>1
    <2>3. QED
      BY <1>5, <2>2, Zenon
  <1>7. QED
    BY <1>2, <1>3, <1>4, <1>5, <1>6

\* An answer is taken by the front task, and the master goes on to the next one;
\* without an answer the queue and the request stay as they are.
LEMMA QueueStep ==
    ASSUME MasterRight, NEW resp, Fits(resp), MasterTick(resp),
           master' = master, slave' = slave, master # "cache"
    PROVE  /\ MasterRight'
           /\ ~resp.ready => ongoing' = ongoing
           /\ resp.ready => ongoing' = Tail(ongoing)
  <1>1. /\ PipelineTypeOK /\ TasksRight /\ burst = NoReq /\ dbus = Front(ongoing)
        /\ master = "await" => Len(ongoing) <= 1
        /\ master \in {"queue", "await"} /\ burst \in CBusReq /\ slave \in {"device", "axi"}
    BY DEF MasterRight, DbusRight
  <1>2. ongoing # << >> => busy
    BY <1>1 DEF Front, issue, busy
  <1>3. burst' = burst
    BY <1>1 DEF MasterTick
  <1>4. CASE ~resp.ready
    <2>1. ongoing' = ongoing /\ dest' = dest /\ aborted' = aborted
      BY <1>1, <1>4 DEF MasterTick, PipelineTick, AwaitTick
    <2>2. dbus' = dbus
      <3>1. CASE master = "queue"
        BY <1>1, <1>4, <2>1, <3>1 DEF MasterTick, PipelineTick, Front
      <3>2. CASE master = "await"
        BY <1>4, <3>2 DEF MasterTick, AwaitTick
      <3>3. QED
        BY <1>1, <3>1, <3>2
    <2>3. PipelineTypeOK'
      BY <1>1, <2>1, <2>2 DEF PipelineTypeOK
    <2>4. TasksRight' /\ DbusRight' /\ CacheRight'
      BY <1>1, <1>3, <2>1, <2>2 DEF TasksRight, Proper, Reachable, DbusRight, CacheRight, Front
    <2>5. QED
      BY <1>1, <1>3, <1>4, <2>1, <2>3, <2>4 DEF MasterRight
  <1>5. CASE resp.ready
    <2> DEFINE u == Head(ongoing)
    <2>1. ongoing # << >> /\ resp.last /\ busy /\ resp.data \in Word
      BY <1>2, <1>5 DEF Fits
    <2>2. u \in Task /\ Len(ongoing) \in Nat /\ Len(ongoing) >= 1 /\ Proper(u.op)
      BY <2>1, HeadTask
    <2>3. ongoing' = Tail(ongoing) /\ dbus' = Front(ongoing')
      <3>1. CASE master = "queue"
        BY <1>5, <2>1, <3>1 DEF MasterTick, PipelineTick, Front
      <3>2. CASE master = "await"
        <4>1. ongoing' = << >> /\ dbus' = Quiet
          BY <1>5, <2>1, <3>2 DEF MasterTick, AwaitTick
        <4>2. Len(ongoing) = 1
          <5> DEFINE n == Len(ongoing)
          <5>1. n \in Nat /\ n >= 1 /\ n <= 1
            BY <1>1, <2>2, <3>2
          <5> HIDE DEF n
          <5>2. n = 1
            BY <5>1
          <5>3. QED
            BY <5>2 DEF n
        <4>3. Tail(ongoing) = << >>
          BY <1>1, <2>1, <4>2, TailFacts DEF PipelineTypeOK
        <4>4. QED
          BY <4>1, <4>3 DEF Front
      <3>3. QED
        BY <1>1, <3>1, <3>2
    <2>4. /\ ongoing' \in Seq(Task) /\ TasksRight' /\ Len(ongoing') = Len(ongoing) - 1
      BY <2>1, <2>3, TasksTail
    <2>5. dbus' \in DBusReq
      <3>1. CASE ongoing' = << >>
        BY <2>3, <3>1, QuietTyped DEF Front
      <3>2. CASE ongoing' # << >>
        <4>1. Head(ongoing') = ongoing'[1] /\ 1 \in DOMAIN ongoing'
          BY <2>4, <3>2, TailFacts
        <4>2. Proper(ongoing'[1].op) /\ ongoing'[1] = TaskOf(ongoing'[1].op)
          BY <2>4, <4>1 DEF TasksRight, Proper, Reachable
        <4>3. issue(TaskOf(ongoing'[1].op)) \in DBusReq
          BY <4>2, IssueTyped
        <4>4. QED
          BY <2>3, <3>2, <4>1, <4>2, <4>3 DEF Front
      <3>3. QED
        BY <3>1, <3>2
    <2>6. dest' \in Word /\ aborted' \in BOOLEAN
      <3>1. u.load_op \in LoadOp /\ dest \in Word /\ ZeroWord \in Word /\ aborted \in BOOLEAN
        BY <1>1, <2>2, ZeroTyped DEF PipelineTypeOK, Task
      <3>2. applyTo(u.load_op, resp.data, dest) \in Word
            /\ applyTo(u.load_op, resp.data, ZeroWord) \in Word
        BY <2>1, <3>1, ApplyTyped
      <3>3. CASE master = "queue"
        <4>1. dest' = applied(u, resp.data) /\ aborted' = failed(u, resp.data)
          BY <1>5, <2>1, <3>3 DEF MasterTick, PipelineTick
        <4>2. failed(u, resp.data) \in BOOLEAN
          BY DEF failed
        <4>3. QED
          BY <3>1, <3>2, <4>1, <4>2 DEF applied
      <3>4. CASE master = "await"
        BY <1>5, <2>1, <3>1, <3>2, <3>4 DEF MasterTick, AwaitTick
      <3>5. QED
        BY <1>1, <3>3, <3>4
    <2>7. DbusRight' /\ CacheRight'
      <3>1. (dbus = Front(ongoing))'
        BY <2>3 DEF Front
      <3>2. master = "await" => Len(ongoing') <= 1
        BY <1>1, <2>2, <2>4
      <3>3. QED
        BY <1>1, <1>3, <3>1, <3>2 DEF DbusRight, CacheRight
    <2>8. QED
      BY <1>1, <1>3, <1>5, <2>3, <2>4, <2>5, <2>6, <2>7 DEF MasterRight, PipelineTypeOK
  <1>6. QED
    BY <1>4, <1>5

\* The cache goes on to the next beat of its burst.
LEMMA CacheStep ==
    ASSUME MasterRight, NEW resp, Fits(resp), MasterTick(resp),
           master' = master, slave' = slave, master = "cache"
    PROVE  /\ MasterRight'
           /\ ~resp.ready => ongoing' = ongoing /\ burst' = burst
           /\ resp.ready => ongoing' = Tail(ongoing)
           /\ resp.ready /\ ongoing' # << >> =>
                  /\ Done' = Done + 1
                  /\ burst'.valid /\ burst'.addr = burst.addr /\ burst'.size = burst.size
                  /\ burst'.len = burst.len /\ burst'.is_write = burst.is_write
  <1>1. /\ PipelineTypeOK /\ TasksRight /\ CacheRight /\ burst \in CBusReq /\ slave \in {"device", "axi"}
        /\ dbus = Quiet /\ ~aborted /\ (ongoing = << >> => burst = NoReq)
    BY DEF MasterRight, CacheRight
  <1>2. CacheTick(resp)
    BY DEF MasterTick
  <1>3. dbus' = dbus /\ aborted' = aborted
    BY <1>2 DEF CacheTick
  <1>4. CASE ~resp.ready
    <2>1. ongoing' = ongoing /\ dest' = dest /\ burst' = burst
      BY <1>2, <1>4 DEF CacheTick
    <2>2. PipelineTypeOK'
      BY <1>1, <1>3, <2>1 DEF PipelineTypeOK
    <2>3. TasksRight' /\ DbusRight' /\ CacheRight'
      BY <1>1, <1>3, <2>1 DEF TasksRight, Proper, Reachable, DbusRight, CacheRight, Done
    <2>4. QED
      BY <1>1, <1>4, <2>1, <2>2, <2>3 DEF MasterRight
  <1>5. CASE resp.ready
    <2> DEFINE u == Head(ongoing)
    <2>1. ongoing # << >> /\ (resp.last <=> Len(ongoing) = 1) /\ resp.data \in Word
      BY <1>5 DEF Fits
    <2>2. /\ burst.valid /\ Done >= 0 /\ LineInMemory(burst.addr, burst.size, burst.len + 1)
          /\ \A k \in DOMAIN ongoing :
                 /\ ongoing[k].op.kind = (IF burst.is_write THEN "store" ELSE "get")
                 /\ ongoing[k].op.width = burst.size
                 /\ ongoing[k].op.addr
                        = BeatAddress(burst.addr, burst.size, burst.len + 1, Done + k - 1)
      BY <1>1, <2>1 DEF CacheRight
    <2>3. /\ ongoing' = Tail(ongoing)
          /\ dest' = IF u.dest THEN applyTo(u.load_op, resp.data, ZeroWord) ELSE dest
          /\ burst' = IF resp.last \/ ongoing' = << >> THEN NoReq
                      ELSE [burst EXCEPT !.strobe = Head(ongoing').strobe,
                                         !.data = Head(ongoing').data]
      BY <1>2, <1>5, <2>2 DEF CacheTick
    <2>4. /\ ongoing' \in Seq(Task) /\ TasksRight' /\ Len(ongoing') = Len(ongoing) - 1
          /\ (ongoing' = << >> <=> Len(ongoing) = 1)
          /\ \A k \in DOMAIN ongoing' : ongoing'[k] = ongoing[k + 1] /\ k + 1 \in DOMAIN ongoing
      BY <2>1, <2>3, TasksTail
    <2>5. dest' \in Word
      <3>1. u \in Task
        BY <2>1, HeadTask
      <3>2. u.load_op \in LoadOp /\ dest \in Word /\ ZeroWord \in Word
        BY <1>1, <3>1, ZeroTyped DEF PipelineTypeOK, Task
      <3>3. applyTo(u.load_op, resp.data, ZeroWord) \in Word
        BY <2>1, <3>2, ApplyTyped
      <3>4. QED
        BY <2>3, <3>2, <3>3
    <2>6. PipelineTypeOK'
      BY <1>1, <1>3, <2>4, <2>5 DEF PipelineTypeOK
    <2>7. DbusRight'
      BY DEF DbusRight
    <2>8. CASE ongoing' = << >>
      <3>1. burst' = NoReq
        BY <2>3, <2>8
      <3>2. burst' \in CBusReq /\ CacheRight'
        BY <1>1, <1>3, <2>8, <3>1, QuietTyped DEF CacheRight
      <3>3. QED
        BY <1>1, <1>5, <2>3, <2>4, <2>6, <2>7, <2>8, <3>2 DEF MasterRight
    <2>9. CASE ongoing' # << >>
      <3>1. ~resp.last
        BY <2>1, <2>4, <2>9
      <3>2. burst' = [burst EXCEPT !.strobe = Head(ongoing').strobe, !.data = Head(ongoing').data]
        BY <2>3, <2>9, <3>1
      <3>3. Head(ongoing') \in Task
        BY <2>4, <2>9, TailFacts
      <3>4. Head(ongoing').strobe \in SUBSET Lanes /\ Head(ongoing').data \in Word
        BY <3>3 DEF Task
      <3>5. /\ burst' \in CBusReq /\ burst'.valid = burst.valid /\ burst'.addr = burst.addr
            /\ burst'.size = burst.size
            /\ burst'.len = burst.len /\ burst'.is_write = burst.is_write
            /\ burst'.strobe = Head(ongoing').strobe /\ burst'.data = Head(ongoing').data
        BY <1>1, <3>2, <3>4 DEF CBusReq
      <3>6. Len(ongoing) \in Nat /\ burst.len \in Int
        BY <1>1, <2>1, HeadTask DEF CBusReq, Lengths
      <3>7. Done' = Done + 1 /\ Done' >= 0 /\ Done \in Int
        <4> DEFINE n == Len(ongoing)
                   q == Len(ongoing')
        <4>1. q = n - 1 /\ n \in Nat /\ burst.len + 1 - n >= 0 /\ burst'.len = burst.len /\ burst.len \in Int
          BY <2>2, <2>4, <3>5, <3>6 DEF Done
        <4>2. Done = burst.len + 1 - n /\ Done' = burst'.len + 1 - q
          BY DEF Done
        <4> HIDE DEF n, q
        <4>3. QED
          BY <4>1, <4>2
      <3>8. ASSUME NEW k \in DOMAIN ongoing'
            PROVE  /\ ongoing'[k].op.kind = (IF burst'.is_write THEN "store" ELSE "get")
                   /\ ongoing'[k].op.width = burst'.size
                   /\ ongoing'[k].op.addr
                        = BeatAddress(burst'.addr, burst'.size, burst'.len + 1, Done' + k - 1)
        <4>1. ongoing'[k] = ongoing[k + 1] /\ k + 1 \in DOMAIN ongoing
          BY <2>4
        <4>2. k \in Int
          BY <2>4, <2>9, TailFacts
        <4>3. Done' + k - 1 = Done + (k + 1) - 1
          BY <3>7, <4>2
        <4>4. QED
          BY <2>2, <3>5, <4>1, <4>3
      <3>9. CacheRight'
        <4>1. (LineInMemory(burst.addr, burst.size, burst.len + 1))'
          BY <2>2, <3>5 DEF LineInMemory
        <4>2. (\A k \in DOMAIN ongoing :
                 /\ ongoing[k].op.kind = (IF burst.is_write THEN "store" ELSE "get")
                 /\ ongoing[k].op.width = burst.size
                 /\ ongoing[k].op.addr
                        = BeatAddress(burst.addr, burst.size, burst.len + 1, Done + k - 1))'
          BY <3>8 DEF BeatAddress
        <4>3. QED
          BY <1>1, <1>3, <2>2, <2>9, <3>5, <3>7, <4>1, <4>2 DEF CacheRight
      <3>10. QED
        BY <1>1, <1>5, <2>2, <2>3, <2>4, <2>6, <2>7, <3>5, <3>7, <3>9 DEF MasterRight
    <2>10. QED
      BY <2>8, <2>9
  <1>6. QED
    BY <1>4, <1>5

\* Every master takes an answer as the end of the front access, and else holds its request.
LEMMA MasterStep ==
    ASSUME MasterRight, NEW resp, Fits(resp), MasterTick(resp), master' = master, slave' = slave
    PROVE  /\ MasterRight'
           /\ ~resp.ready => /\ ongoing' = ongoing
                             /\ req' = req
                             /\ master = "cache" => Done' = Done
           /\ resp.ready => ongoing' = Tail(ongoing) /\ ongoing' # ongoing
           /\ resp.ready /\ master = "cache" /\ ongoing' # << >> =>
                  /\ Done' = Done + 1
                  /\ req'.valid /\ req'.addr = req.addr /\ req'.size = req.size
                  /\ req'.len = req.len /\ req'.is_write = req.is_write
  <1>1. MasterRight'
    BY QueueStep, CacheStep
  <1>2. ASSUME ~resp.ready
        PROVE  ongoing' = ongoing /\ (master = "cache" => burst' = burst)
    BY <1>2, QueueStep, CacheStep
  <1>3. ASSUME ~resp.ready, master # "cache" PROVE dbus' = dbus
    <2>1. dbus = Front(ongoing) /\ (dbus = Front(ongoing))'
      BY <1>1, <1>3 DEF MasterRight, DbusRight
    <2>2. QED
      BY <1>2, <1>3, <2>1 DEF Front
  <1>4. ASSUME ~resp.ready PROVE req' = req /\ (master = "cache" => Done' = Done)
    BY <1>2, <1>3, <1>4 DEF req, Done, CBusWrapper
  <1>5. ASSUME resp.ready PROVE ongoing' = Tail(ongoing) /\ ongoing # << >>
    BY <1>5, QueueStep, CacheStep DEF Fits
  <1>6. ASSUME resp.ready PROVE ongoing' # ongoing
    BY <1>5, <1>6, TasksTail
  <1>7. ASSUME resp.ready, master = "cache", ongoing' # << >>
        PROVE  /\ Done' = Done + 1
               /\ req'.valid /\ req'.addr = req.addr /\ req'.size = req.size
               /\ req'.len = req.len /\ req'.is_write = req.is_write
    <2>1. req = burst /\ req' = burst'
      BY <1>7 DEF req
    <2>2. QED
      BY <1>7, <2>1, CacheStep
  <1>8. QED
    BY <1>1, <1>2, <1>4, <1>5, <1>6, <1>7

----------------------------------------------------------------------------
\* The device of the simulated cache bus.

\* The device answers the beat that is in front of the master's queue.
LEMMA DeviceFits ==
    ASSUME MasterRight, DeviceTypeOK, DeviceRight, slave = "device",
           NEW word, answers => word \in Word
    PROVE  /\ Fits(eval_resp(word)) /\ sanity_checks(req)
           /\ eval_resp(word).ready = answers /\ answers \in BOOLEAN
           /\ eval_resp(word).last = (answers /\ last(tx))
           /\ answers /\ ~tx.is_write => eval_resp(word).data = word
  <1> DEFINE resp == eval_resp(word)
  <1>1. answers \in BOOLEAN /\ tx.N \in Int /\ tx.Burst_Length \in Int
    BY DEF answers, DeviceTypeOK, Transaction
  <1>2. /\ resp.data \in Word /\ resp.ready = answers /\ resp.last = (answers /\ last(tx))
        /\ answers /\ ~tx.is_write => resp.data = word
    <2>1. CASE answers
      <3>1. resp = [ready |-> TRUE, last |-> last(tx),
                    data |-> IF tx.is_write THEN ZeroWord ELSE word]
        BY <2>1 DEF eval_resp, CBusResp
      <3>2. resp.data = IF tx.is_write THEN ZeroWord ELSE word
        BY <3>1
      <3>3. resp.data \in Word /\ (~tx.is_write => resp.data = word)
        BY <2>1, <3>2, ZeroTyped
      <3>4. resp.ready = TRUE /\ resp.last = last(tx)
        BY <3>1
      <3>5. answers = TRUE
        BY <1>1, <2>1
      <3>6. (answers /\ last(tx)) = last(tx)
        BY <2>1 DEF last
      <3> HIDE DEF resp
      <3>7. resp.ready = answers /\ resp.last = (answers /\ last(tx))
        BY <3>4, <3>5, <3>6
      <3>8. QED
        BY <3>3, <3>7
    <2>2. CASE ~answers
      <3>1. resp = [ready |-> FALSE, last |-> FALSE, data |-> ZeroWord]
        BY <2>2 DEF eval_resp, CBusResp, NoResp
      <3>2. resp.data \in Word /\ resp.ready = FALSE /\ resp.last = FALSE
        BY <3>1, ZeroTyped
      <3> HIDE DEF resp
      <3>3. answers = FALSE
        BY <1>1, <2>2
      <3>4. QED
        BY <2>2, <3>2, <3>3
    <2>3. QED
      BY <2>1, <2>2
  <1>3. ASSUME answers
        PROVE  /\ ongoing # << >> /\ req.valid /\ tx.is_write = req.is_write
               /\ tx.Number_Bytes = req.size /\ tx.Start_Address = req.addr
               /\ tx.Burst_Length = req.len + 1 /\ tx.N \in 1..tx.Burst_Length
               /\ master = "cache" => Done = tx.N - 1
    BY <1>3 DEF answers, DeviceRight
  <1>4. ASSUME answers, master # "cache" PROVE last(tx)
    <2>1. req.len = 0
      BY <1>3, <1>4, RequestRight
    <2>2. QED
      BY <1>1, <1>3, <1>4, <2>1 DEF last
  <1>5. ASSUME answers, master = "cache" PROVE last(tx) <=> Len(ongoing) = 1
    <2> DEFINE n == Len(ongoing)
    <2>1. req.len = burst.len /\ burst.len \in Int /\ n \in Int
      BY <1>3, <1>5, RequestRight, HeadTask DEF MasterRight, CBusReq, Lengths
    <2>2. Done = burst.len + 1 - n
      BY DEF Done
    <2> HIDE DEF n
    <2>3. tx.N = tx.Burst_Length <=> n = 1
      BY <1>1, <1>3, <1>5, <2>1, <2>2
    <2>4. QED
      BY <2>3 DEF last, n
  <1>6. Fits(resp)
    <2>1. resp.ready \in BOOLEAN /\ resp.last \in BOOLEAN
      BY <1>1, <1>2 DEF last
    <2> HIDE DEF resp
    <2>2. resp.ready => /\ ongoing # << >>
                        /\ master # "cache" => resp.last
                        /\ master = "cache" => (resp.last <=> Len(ongoing) = 1)
      BY <1>1, <1>2, <1>3, <1>4, <1>5
    <2>3. QED
      BY <1>2, <2>1, <2>2 DEF Fits
  <1>7. sanity_checks(req)
    BY <1>3 DEF sanity_checks
  <1>8. QED
    BY <1>1, <1>2, <1>6, <1>7

\* The device moves on to the beat that the master moves on to.
LEMMA NextBeat ==
    ASSUME MasterRight, DeviceTypeOK, DeviceRight, slave = "device", tx.busy, master = "cache",
           Done < burst.len
    PROVE  /\ Advance(tx) = [tx EXCEPT !.N = tx.N + 1, !.aligned = TRUE,
                             !.addr = BeatAddress(req.addr, req.size, req.len + 1, Done + 1)]
           /\ Advance(tx).addr \in Nat
  <1>1. /\ ongoing # << >> /\ tx.Number_Bytes = req.size /\ tx.Start_Address = req.addr
        /\ tx.Burst_Length = req.len + 1 /\ tx.aligned = (tx.N > 1) /\ Done = tx.N - 1
        /\ tx.addr = Head(ongoing).op.addr /\ tx \in Transaction
    BY DEF DeviceRight, DeviceTypeOK
  <1>2. /\ req.len = burst.len /\ req.addr = burst.addr /\ Done \in 0..burst.len
        /\ LineInMemory(burst.addr, burst.size, burst.len + 1) /\ req = burst
        /\ Head(ongoing).op.addr = BeatAddress(req.addr, req.size, req.len + 1, Done)
    BY <1>1, RequestRight DEF req
  <1>3. req.addr \in Nat /\ req.size \in Widths /\ req.len \in Lengths
    BY <1>2 DEF MasterRight, CBusReq
  <1> DEFINE line == req.size * (req.len + 1)
             base == req.addr - (req.addr % line)
             up   == tx.addr + req.size
  <1>4. /\ Done = 0 => tx.addr = req.addr
        /\ BeatAddress(req.addr, req.size, req.len + 1, Done + 1)
              = IF up >= base + line THEN base ELSE up
    BY <1>1, <1>2, <1>3, BeatInLine
  <1>5. BeatAddress(req.addr, req.size, req.len + 1, Done + 1) \in Nat
    <2>1. Done + 1 \in 0..req.len
      BY <1>2, <1>3 DEF Lengths
    <2>2. QED
      BY <1>2, <1>3, <2>1, BeatInLine
  <1>6. (IF tx.aligned THEN tx.addr ELSE Aligned_Address(tx)) = tx.addr
    <2>1. CASE tx.N > 1
      BY <1>1, <2>1
    <2>2. CASE ~(tx.N > 1)
      <3>1. tx.N \in Int /\ Done = 0
        <4>1. tx.N \in Int
          BY <1>1 DEF Transaction
        <4>2. Done >= 0 /\ Done = tx.N - 1
          BY <1>1, <1>2
        <4>3. QED
          BY <2>2, <4>1, <4>2
      <3>2. req.addr % req.size = 0
        BY <1>2 DEF LineInMemory
      <3>3. Aligned_Address(tx) = req.addr
        BY <1>1, <1>3, <3>2 DEF Aligned_Address
      <3>4. QED
        BY <1>1, <1>4, <2>2, <3>1, <3>3
    <2>3. QED
      BY <2>1, <2>2
  <1>7. Lower_Wrap_Boundry(tx) = base /\ Upper_Wrap_Boundry(tx) = base + line
    BY <1>1 DEF Lower_Wrap_Boundry, Upper_Wrap_Boundry, dtsize
  <1> HIDE DEF line, base
  <1>8. Advance(tx) = [tx EXCEPT !.N = tx.N + 1, !.aligned = TRUE,
                           !.addr = IF up >= base + line THEN base ELSE up]
    <2>1. (IF tx.aligned THEN tx.addr ELSE Aligned_Address(tx)) + tx.Number_Bytes = up
      BY <1>1, <1>6
    <2>2. QED
      BY <1>7, <2>1, Zenon DEF Advance
  <1>9. Advance(tx) = [tx EXCEPT !.N = tx.N + 1, !.aligned = TRUE,
                             !.addr = BeatAddress(req.addr, req.size, req.len + 1, Done + 1)]
    BY <1>4, <1>8
  <1>10. QED
    BY <1>1, <1>5, <1>9 DEF Transaction

\* The master and the device stay together: after a cycle the transaction is again the
\* request on the bus, at the beat in front of the queue.
LEMMA DeviceStep ==
    ASSUME MasterRight, DeviceTypeOK, DeviceRight, slave = "device",
           NEW word, answers => word \in Word,
           MasterTick(eval_resp(word)), DeviceTick(req), UNCHANGED bridgeVars,
           master' = master, slave' = slave
    PROVE  /\ MasterRight' /\ DeviceTypeOK' /\ DeviceRight'
           /\ answers => ongoing' = Tail(ongoing) /\ ongoing' # ongoing
           /\ ~answers => ongoing' = ongoing
  <1> DEFINE resp == eval_resp(word)
  <1>1. /\ Fits(resp) /\ resp.ready = answers /\ resp.last = (answers /\ last(tx))
        /\ answers \in BOOLEAN
    BY DeviceFits
  <1>2. /\ MasterRight'
        /\ ~answers => /\ ongoing' = ongoing
                       /\ req' = req
                       /\ master = "cache" => Done' = Done
        /\ answers => ongoing' = Tail(ongoing) /\ ongoing' # ongoing
        /\ answers /\ master = "cache" /\ ongoing' # << >> =>
               /\ Done' = Done + 1
               /\ req'.valid /\ req'.addr = req.addr /\ req'.size = req.size
               /\ req'.len = req.len /\ req'.is_write = req.is_write
    <2> HIDE DEF resp
    <2>1. MasterTick(resp)
      BY DEF resp
    <2>2. QED
      BY <1>1, <2>1, MasterStep
  <1>3. /\ tx' = eval_req(req) /\ enable' \in BOOLEAN /\ tx \in Transaction /\ enable \in BOOLEAN
    BY DEF DeviceTick, DeviceTypeOK
  <1>4. /\ in_issue = {} /\ axi = SlaveIdle /\ saved_req = NoReq /\ count = 0
        /\ in_issue' = {} /\ axi' = SlaveIdle /\ saved_req' = NoReq /\ count' = 0
    BY DEF DeviceRight, bridgeVars
  <1>5. req \in CBusReq /\ (req.valid <=> ongoing # << >>)
    BY RequestRight
  <1>6. Idle \in Transaction /\ Idle.busy = FALSE
    BY DEF Idle, Transaction
  <1>7. CASE ~answers /\ (~enable \/ ~req.valid)
    <2>1. tx' = tx
      BY <1>3, <1>7 DEF eval_req, answers
    <2>2. DeviceTypeOK'
      BY <1>3, <2>1 DEF DeviceTypeOK
    <2>3. DeviceRight'
      BY <1>2, <1>4, <1>7, <2>1 DEF DeviceRight
    <2>4. QED
      BY <1>2, <1>7, <2>2, <2>3
  <1>8. CASE ~answers /\ enable /\ req.valid
    <2>1. ~tx.busy /\ tx' = init(req.addr, req.size, req.len, req.is_write)
      BY <1>3, <1>8 DEF eval_req, answers
    <2>2. req.addr \in Nat /\ req.size \in Nat /\ req.len \in 0..15 /\ req.is_write \in BOOLEAN
      BY <1>5 DEF CBusReq, Widths, Lengths
    <2>3. tx' = [busy |-> TRUE, is_write |-> req.is_write, aligned |-> FALSE, N |-> 1,
                 addr |-> req.addr, Start_Address |-> req.addr, Number_Bytes |-> req.size,
                 Burst_Length |-> req.len + 1]
      BY <2>1 DEF init
    <2>4. DeviceTypeOK'
      <3>1. 1 \in 0..16 /\ req.len + 1 \in Nat
        BY <2>2
      <3>2. tx' \in Transaction
        BY <2>2, <2>3, <3>1 DEF Transaction
      <3>3. QED
        BY <1>3, <3>2 DEF DeviceTypeOK
    <2>5. ongoing # << >> /\ (master = "cache" => Done = 0)
      BY <1>5, <1>8, <2>1 DEF DeviceRight
    <2>6. req.addr = Head(ongoing).op.addr
      <3>1. CASE master = "cache"
        <4>1. /\ Head(ongoing).op.addr = BeatAddress(req.addr, req.size, req.len + 1, 0)
          BY <2>5, <3>1, RequestRight
        <4>2. QED
          BY <4>1 DEF BeatAddress
      <3>2. CASE master # "cache"
        BY <2>5, <3>2, RequestRight
      <3>3. QED
        BY <3>1, <3>2
    <2>7. /\ tx'.busy /\ tx'.is_write = req.is_write /\ tx'.Number_Bytes = req.size
          /\ tx'.Start_Address = req.addr /\ tx'.Burst_Length = req.len + 1
          /\ tx'.N = 1 /\ tx'.aligned = FALSE /\ tx'.addr = req.addr
      BY <2>3
    <2>8. tx'.N \in 1..tx'.Burst_Length /\ tx'.aligned = (tx'.N > 1)
      <3>1. (1 > 1) = FALSE /\ 1 \in 1..(req.len + 1)
        BY <2>2
      <3>2. QED
        BY <2>7, <3>1
    <2>9. DeviceRight'
      <3>1. req' = req /\ ongoing' = ongoing /\ (master = "cache" => Done' = tx'.N - 1)
        BY <1>2, <1>8, <2>5, <2>7
      <3>2. QED
        BY <1>4, <1>8, <2>5, <2>6, <2>7, <2>8, <3>1 DEF DeviceRight
    <2>10. QED
      BY <1>2, <1>8, <2>4, <2>9
  <1>9. CASE answers /\ last(tx)
    <2>1. tx' = Idle
      BY <1>3, <1>9 DEF eval_req, answers
    <2>2. DeviceTypeOK'
      BY <1>3, <1>6, <2>1 DEF DeviceTypeOK
    <2>3. master = "cache" => ongoing' = << >>
      BY <1>1, <1>2, <1>9, TasksTail DEF Fits
    <2>4. DeviceRight'
      BY <1>4, <1>6, <2>1, <2>3 DEF DeviceRight
    <2>5. QED
      BY <1>2, <1>9, <2>2, <2>4
  <1>10. CASE answers /\ ~last(tx)
    <2>1. tx.busy /\ tx' = Advance(tx)
      BY <1>3, <1>10 DEF eval_req, answers
    <2>2. /\ ongoing # << >> /\ tx.is_write = req.is_write /\ tx.Number_Bytes = req.size
          /\ tx.Start_Address = req.addr /\ tx.Burst_Length = req.len + 1
          /\ tx.N \in 1..tx.Burst_Length /\ (master = "cache" => Done = tx.N - 1)
      BY <2>1 DEF DeviceRight
    <2>3. master = "cache"
      BY <1>1, <1>10, <2>2 DEF Fits
    <2>4. req.len \in 0..15 /\ req.len = burst.len /\ tx.N \in 1..req.len /\ Done < burst.len
      <3>1. req.len \in 0..15 /\ req.len = burst.len
        BY <1>5, <2>2, <2>3, RequestRight DEF CBusReq, Lengths
      <3>2. tx.N # tx.Burst_Length
        BY <1>10 DEF last
      <3>3. tx.N \in 1..(req.len + 1) /\ tx.N # req.len + 1 /\ Done = tx.N - 1
        BY <2>2, <2>3, <3>2
      <3> DEFINE n == tx.N
                 k == req.len
                 d == Done
      <3>4. n \in 1..(k + 1) /\ n # k + 1 /\ d = n - 1 /\ k \in 0..15
        BY <3>1, <3>3
      <3> HIDE DEF n, k, d
      <3>5. n \in 1..k /\ d < k
        BY ONLY <3>4
      <3>6. QED
        BY <3>1, <3>5 DEF n, k, d
    <2> DEFINE b == BeatAddress(req.addr, req.size, req.len + 1, Done + 1)
    <2>5. Advance(tx) = [tx EXCEPT !.N = tx.N + 1, !.aligned = TRUE, !.addr = b]
          /\ Advance(tx).addr \in Nat
      BY <2>1, <2>3, <2>4, NextBeat
    <2> HIDE DEF b
    <2>6. /\ tx'.busy /\ tx'.is_write = tx.is_write /\ tx'.Number_Bytes = tx.Number_Bytes
          /\ tx'.Start_Address = tx.Start_Address /\ tx'.Burst_Length = tx.Burst_Length
          /\ tx'.N = tx.N + 1 /\ tx'.aligned = TRUE /\ tx'.addr = b
      BY <1>3, <2>1, <2>5 DEF Transaction
    <2>7. DeviceTypeOK'
      <3>1. tx.N + 1 \in 0..16 /\ b \in Nat
        BY <1>3, <2>1, <2>4, <2>5, <2>6
      <3>2. tx' \in Transaction
        BY <1>3, <2>1, <2>5, <3>1 DEF Transaction
      <3>3. QED
        BY <1>3, <3>2 DEF DeviceTypeOK
    <2>8. ongoing' # << >>
      <3>1. Len(ongoing) # 1
        BY <1>1, <1>10, <2>3 DEF Fits
      <3>2. QED
        BY <1>2, <1>10, <2>2, <3>1, TasksTail
    <2>9. /\ Done' = Done + 1
          /\ req'.valid /\ req'.addr = req.addr /\ req'.size = req.size
          /\ req'.len = req.len /\ req'.is_write = req.is_write
      BY <1>2, <1>10, <2>3, <2>8
    <2>10. tx'.addr = Head(ongoing').op.addr
      <3>1. (master = "cache" => Head(ongoing).op.addr = BeatAddress(req.addr, req.size, req.len + 1, Done))'
        <4>1. (ongoing # << >>)'
          BY <2>8
        <4>2. MasterRight'
          BY <1>2
        <4>3. QED
          BY <4>1, <4>2, RequestRight, PTL
      <3>2. QED
        BY <2>3, <2>6, <2>9, <3>1 DEF b, BeatAddress
    <2>11. /\ tx'.N \in 1..tx'.Burst_Length /\ tx'.aligned = (tx'.N > 1) /\ Done' = tx'.N - 1
      <3>1. tx'.N = tx.N + 1 /\ tx'.Burst_Length = req.len + 1 /\ tx.N \in 1..req.len
            /\ req.len \in Nat
        BY <2>2, <2>4, <2>6
      <3>2. tx'.N \in 1..tx'.Burst_Length /\ tx'.N > 1
        BY <3>1
      <3>3. Done' = tx'.N - 1
        BY <2>2, <2>3, <2>9, <3>1
      <3>4. (tx'.N > 1) = TRUE
        BY <3>2
      <3>5. QED
        BY <2>6, <3>2, <3>3, <3>4
    <2>12. DeviceRight'
      BY <1>4, <2>2, <2>6, <2>8, <2>9, <2>10, <2>11 DEF DeviceRight
    <2>13. QED
      BY <1>2, <1>10, <2>7, <2>12
  <1>11. answers \in BOOLEAN /\ enable \in BOOLEAN /\ req.valid \in BOOLEAN
    BY <1>1, <1>3, <1>5 DEF CBusReq, DeviceTypeOK
  <1>12. QED
    BY <1>7, <1>8, <1>9, <1>10

----------------------------------------------------------------------------
\* The bridge and its AXI memory.

\* The channels that may handshake, by the transaction in progress.
LEMMA Handshakes ==
    ASSUME BridgeTypeOK, BridgeRight, slave = "axi", NEW shake \in SUBSET handshake(Offered)
    PROVE  /\ shake \subseteq in_issue /\ in_issue \subseteq Channels
           /\ in_issue = {} => shake = {}
           /\ in_issue # {} /\ ~saved_req.is_write =>
                  /\ \/ in_issue = {"AR", "R"} /\ shake \in {{}, {"AR"}}
                     \/ in_issue = {"R"} /\ shake \in {{}, {"R"}}
                  /\ Moving /\ axi.read = saved_req.len - count
           /\ in_issue # {} /\ saved_req.is_write =>
                  /\ "R" \notin in_issue /\ "AR" \notin in_issue
                  /\ "B" \in shake => in_issue = {"B"} /\ shake = {"B"}
  <1>1. in_issue \subseteq Channels /\ count \in 0..15 /\ saved_req \in CBusReq
    BY DEF BridgeTypeOK
  <1>2. shake \subseteq in_issue /\ shake \subseteq Offered
    BY DEF handshake
  <1>3. ASSUME in_issue # {}, ~saved_req.is_write
        PROVE  /\ \/ in_issue = {"AR", "R"} /\ shake \in {{}, {"AR"}}
                  \/ in_issue = {"R"} /\ shake \in {{}, {"R"}}
               /\ Moving /\ axi.read = saved_req.len - count
    <2>1. /\ in_issue \in {{"AR", "R"}, {"R"}}
          /\ axi = [ar |-> "AR" \notin in_issue, aw |-> FALSE,
                    read |-> saved_req.len - count, wbuf |-> << >>]
      BY <1>3 DEF BridgeRight
    <2>2. axi.ar = ("AR" \notin in_issue) /\ axi.read = saved_req.len - count
      BY <2>1
    <2>3. "AR" \in in_issue => "R" \notin Offered
      BY <2>2 DEF Offered
    <2>4. Moving
      BY <2>1 DEF Moving
    <2>5. CASE in_issue = {"AR", "R"}
      <3>1. shake \subseteq {"AR"}
        BY <1>2, <2>3, <2>5
      <3>2. shake \in {{}, {"AR"}}
        BY <3>1
      <3>3. QED
        BY <2>2, <2>4, <2>5, <3>2
    <2>6. CASE in_issue = {"R"}
      <3>1. shake \in {{}, {"R"}}
        BY <1>2, <2>6
      <3>2. QED
        BY <2>2, <2>4, <2>6, <3>1
    <2>7. QED
      BY <2>1, <2>5, <2>6
  <1>4. ASSUME in_issue # {}, saved_req.is_write
        PROVE  /\ "R" \notin in_issue /\ "AR" \notin in_issue
               /\ "B" \in shake => in_issue = {"B"} /\ shake = {"B"}
    <2>1. /\ in_issue \subseteq {"AW", "W", "B"} /\ axi.aw = ("AW" \notin in_issue)
          /\ Moving => Len(axi.wbuf) = saved_req.len - count
      BY <1>4 DEF BridgeRight
    <2>2. ASSUME "B" \in shake PROVE in_issue = {"B"} /\ shake = {"B"}
      <3>1. axi.aw /\ Len(axi.wbuf) = saved_req.len + 1
        BY <1>2, <2>2 DEF Offered
      <3>2. ~Moving
        <4> DEFINE n == Len(axi.wbuf)
        <4>1. n = saved_req.len + 1 /\ (Moving => n = saved_req.len - count)
          BY <2>1, <3>1
        <4> HIDE DEF n
        <4>2. saved_req.len \in Nat
          BY <1>1 DEF CBusReq, Lengths
        <4>3. QED
          BY <1>1, <4>1, <4>2
      <3>3. "W" \notin in_issue /\ "AW" \notin in_issue
        BY <2>1, <3>1, <3>2 DEF Moving
      <3>4. QED
        BY <1>2, <2>1, <2>2, <3>3
    <2>3. QED
      BY <2>1, <2>2
  <1>5. QED
    BY <1>1, <1>2, <1>3, <1>4

\* The bridge answers the beat that is in front of the master's queue.
LEMMA BridgeFits ==
    ASSUME MasterRight, BridgeTypeOK, BridgeRight, slave = "axi",
           NEW shake \in SUBSET handshake(Offered), NEW word \in Word
    PROVE  /\ Fits(bridge_resp(shake, word))
           /\ bridge_resp(shake, word).ready = (shake \cap {"W", "R"} # {})
           /\ bridge_resp(shake, word).last = (shake \cap {"W", "R"} # {} /\ count = 0)
           /\ bridge_resp(shake, word).data = word
           /\ shake \cap {"W", "R"} # {} => Moving
  <1> DEFINE resp == bridge_resp(shake, word)
             ready == shake \cap {"W", "R"} # {}
  <1>1. count \in 0..15 /\ saved_req \in CBusReq /\ saved_req.len \in 0..15
    BY DEF BridgeTypeOK, CBusReq, Lengths
  <1>2. ready => Moving
    BY Handshakes DEF Moving
  <1>3. ready /\ "R" \in in_issue => (rlast <=> count = 0)
    <2>1. "R" \in in_issue => axi.read = saved_req.len - count
      BY <1>1, Handshakes DEF CBusReq
    <2>2. QED
      BY <1>1, <2>1 DEF rlast
  <1>4. resp = [ready |-> ready,
                last |-> ready /\ ("R" \in in_issue => rlast) /\ is_last, data |-> word]
    BY DEF bridge_resp, CBusResp
  <1>5. (ready /\ ("R" \in in_issue => rlast) /\ is_last) = (ready /\ count = 0)
    <2> HIDE DEF ready
    <2>1. QED
      BY <1>3 DEF is_last
  <1>6. resp.ready = ready /\ resp.last = (ready /\ count = 0) /\ resp.data = word
    BY <1>4, <1>5
  <1>7. ASSUME ready
        PROVE  /\ ongoing # << >> /\ req.len = saved_req.len /\ count <= saved_req.len
               /\ master = "cache" => Done = saved_req.len - count
    BY <1>2, <1>7 DEF BridgeRight
  <1>8. ASSUME ready, master # "cache" PROVE count = 0
    BY <1>1, <1>7, <1>8, RequestRight
  <1>9. ASSUME ready, master = "cache" PROVE count = 0 <=> Len(ongoing) = 1
    <2> DEFINE n == Len(ongoing)
    <2>1. burst.len = saved_req.len /\ n \in Int
      BY <1>7, <1>9, RequestRight, HeadTask
    <2>2. Done = burst.len + 1 - n
      BY DEF Done
    <2> HIDE DEF n
    <2>3. Done = saved_req.len - count /\ saved_req.len \in Int /\ count \in Int
      BY <1>1, <1>7, <1>9
    <2> DEFINE len == saved_req.len
    <2>4. len - count = len + 1 - n /\ len \in Int
      BY <2>1, <2>2, <2>3
    <2> HIDE DEF len
    <2>5. (count = 0) <=> (n = 1)
      BY <2>1, <2>3, <2>4
    <2>6. QED
      BY <2>5 DEF n
  <1>10. Fits(resp)
    <2> HIDE DEF resp
    <2>1. resp.ready \in BOOLEAN /\ resp.last \in BOOLEAN /\ resp.data \in Word
      BY <1>6
    <2>2. resp.ready => /\ ongoing # << >>
                        /\ master # "cache" => resp.last
                        /\ master = "cache" => (resp.last <=> Len(ongoing) = 1)
      <3> HIDE DEF ready
      <3>1. QED
        BY <1>6, <1>7, <1>8, <1>9
    <2>3. QED
      BY <2>1, <2>2 DEF Fits
  <1>11. QED
    BY <1>2, <1>6, <1>10

\* The master and the bridge stay together: whatever channels handshake, the beats that
\* are left of the transaction are the beats that are left of the request.
LEMMA BridgeStep ==
    ASSUME MasterRight, BridgeTypeOK, BridgeRight, slave = "axi",
           NEW shake \in SUBSET handshake(Offered), NEW word \in Word,
           MasterTick(bridge_resp(shake, word)), BridgeTick(req, shake), SlaveTick(req, shake),
           master' = master, slave' = slave, tx' = tx, ctx' = ctx
    PROVE  /\ MasterRight' /\ BridgeTypeOK' /\ BridgeRight'
           /\ shake \cap {"W", "R"} # {} => ongoing' = Tail(ongoing) /\ ongoing' # ongoing
           /\ shake \cap {"W", "R"} = {} => ongoing' = ongoing
  <1> DEFINE resp == bridge_resp(shake, word)
             ready == shake \cap {"W", "R"} # {}
             old == saved_req.len - count
             fresh == [ar   |-> axi.ar \/ "AR" \in shake,
                       aw   |-> axi.aw \/ "AW" \in shake,
                       read |-> IF "R" \in shake THEN axi.read + 1 ELSE axi.read,
                       wbuf |-> IF "W" \in shake
                                THEN Append(axi.wbuf, [data |-> req.data, strobe |-> req.strobe])
                                ELSE axi.wbuf]
  <1>1. /\ count \in 0..15 /\ saved_req \in CBusReq /\ saved_req.len \in 0..15
        /\ saved_req.is_write \in BOOLEAN /\ in_issue \subseteq Channels
        /\ axi \in [ar: BOOLEAN, aw: BOOLEAN, read: 0..16,
                    wbuf: Seq([data: Word, strobe: SUBSET Lanes])]
        /\ req \in CBusReq /\ (req.valid <=> ongoing # << >>) /\ req.len \in 0..15
    BY RequestRight DEF BridgeTypeOK, CBusReq, Lengths
  <1>2. /\ shake \subseteq in_issue
        /\ Fits(resp) /\ resp.ready = ready /\ resp.last = (ready /\ count = 0)
        /\ ready => Moving
    <2>1. shake \subseteq in_issue
      BY Handshakes
    <2>2. /\ Fits(resp) /\ resp.ready = ready /\ resp.last = (ready /\ count = 0)
          /\ ready => Moving
      BY BridgeFits
    <2>3. QED
      BY <2>1, <2>2
  <1>3. /\ MasterRight'
        /\ ~ready => /\ ongoing' = ongoing
                     /\ req' = req
                     /\ master = "cache" => Done' = Done
        /\ ready => ongoing' = Tail(ongoing) /\ ongoing' # ongoing /\ ongoing # << >>
        /\ ready /\ master = "cache" /\ ongoing' # << >> =>
               /\ Done' = Done + 1
               /\ req'.valid /\ req'.addr = req.addr /\ req'.size = req.size
               /\ req'.len = req.len /\ req'.is_write = req.is_write
    <2>1. MasterTick(resp)
      OBVIOUS
    <2> HIDE DEF resp
    <2>2. /\ MasterRight'
          /\ ~resp.ready => /\ ongoing' = ongoing
                            /\ req' = req
                            /\ master = "cache" => Done' = Done
          /\ resp.ready => ongoing' = Tail(ongoing) /\ ongoing' # ongoing
          /\ resp.ready /\ master = "cache" /\ ongoing' # << >> =>
                 /\ Done' = Done + 1
                 /\ req'.valid /\ req'.addr = req.addr /\ req'.size = req.size
                 /\ req'.len = req.len /\ req'.is_write = req.is_write
      BY <1>2, <2>1, MasterStep
    <2>3. ready => ongoing # << >>
      BY <1>2 DEF Fits
    <2> HIDE DEF ready
    <2>4. QED
      BY <1>2, <2>2, <2>3
  <1>4. Moving => /\ ongoing # << >> /\ req.valid
                  /\ req.is_write = saved_req.is_write /\ req.size = saved_req.size
                  /\ req.addr = saved_req.addr /\ req.len = saved_req.len
                  /\ count <= saved_req.len
                  /\ master = "cache" => Done = old
    BY DEF BridgeRight
  \* After a beat that is not the last, and after the last one.
  <1>5. ASSUME ready, count # 0
        PROVE  /\ ongoing' # << >> /\ req'.valid
               /\ req'.is_write = saved_req.is_write /\ req'.size = saved_req.size
               /\ req'.addr = saved_req.addr /\ req'.len = saved_req.len
               /\ count - 1 \in 0..15 /\ count - 1 <= saved_req.len
               /\ master = "cache" => Done' = saved_req.len - (count - 1)
    <2>1. master = "cache" /\ ongoing # << >> /\ Len(ongoing) # 1
      BY <1>2, <1>5 DEF Fits
    <2>2. ongoing' # << >>
      BY <1>3, <1>5, <2>1, TasksTail
    <2>3. /\ req.is_write = saved_req.is_write /\ req.size = saved_req.size
          /\ req.addr = saved_req.addr /\ req.len = saved_req.len
          /\ count <= saved_req.len /\ Done = old
      BY <1>2, <1>4, <1>5, <2>1
    <2>4. /\ Done' = Done + 1
          /\ req'.valid /\ req'.addr = req.addr /\ req'.size = req.size
          /\ req'.len = req.len /\ req'.is_write = req.is_write
      BY <1>3, <1>5, <2>1, <2>2
    <2>5. count - 1 \in 0..15 /\ count - 1 <= saved_req.len
      <3>1. count \in 0..15 /\ count # 0 /\ saved_req.len \in 0..15 /\ count <= saved_req.len
        BY <1>1, <1>5, <2>3
      <3>2. QED
        BY <3>1
    <2>6. Done' = saved_req.len - (count - 1)
      <3>1. count \in 0..15 /\ saved_req.len \in 0..15 /\ Done' = saved_req.len - count + 1
        BY <1>1, <2>3, <2>4
      <3>2. QED
        BY <3>1
    <2>7. QED
      BY <2>2, <2>3, <2>4, <2>5, <2>6
  <1>6. ASSUME ready, count = 0, master = "cache" PROVE ongoing' = << >>
    <2>1. ongoing # << >> /\ Len(ongoing) = 1
      BY <1>2, <1>6 DEF Fits
    <2>2. QED
      BY <1>3, <1>6, <2>1, TasksTail
  <1>7. axi' = IF "B" \in shake \/ ("R" \in shake /\ rlast) THEN SlaveIdle ELSE fresh
    BY DEF SlaveTick
  <1>8. tx' = Idle /\ ctx' = NoFlags
    BY DEF BridgeRight
  <1>9. SlaveIdle \in [ar: BOOLEAN, aw: BOOLEAN, read: 0..16,
                       wbuf: Seq([data: Word, strobe: SUBSET Lanes])]
    BY EmptyFacts DEF SlaveIdle
  <1>10. CASE in_issue = {}
    <2>1. shake = {} /\ ~ready /\ axi = SlaveIdle
      BY <1>2, <1>10 DEF BridgeRight
    <2>2. axi' = SlaveIdle
      BY <1>7, <2>1 DEF SlaveIdle
    <2>3. /\ in_issue' = IF req.valid THEN next_issue(req) ELSE {}
          /\ saved_req' = req /\ count' = req.len
      BY <1>10 DEF BridgeTick
    <2>4. next_issue(req) = IF req.is_write THEN {"AW", "W", "B"} ELSE {"AR", "R"}
      BY DEF next_issue
    <2>5. BridgeTypeOK'
      BY <1>1, <1>9, <2>2, <2>3, <2>4 DEF BridgeTypeOK, Channels
    <2>6. master = "cache" /\ ongoing # << >> => Done = 0
      BY <1>10 DEF BridgeRight, Moving
    <2>7. ongoing' = ongoing /\ req' = req /\ (master = "cache" => Done' = Done)
      BY <1>3, <2>1
    <2>8. BridgeRight'
      <3>1. CASE ~req.valid
        <4>1. in_issue' = {} /\ ongoing' = << >>
          BY <1>1, <2>3, <2>7, <3>1
        <4>2. ~Moving'
          BY <4>1 DEF Moving
        <4>3. QED
          BY <1>8, <2>2, <4>1, <4>2 DEF BridgeRight
      <3>2. CASE req.valid
        <4>1. in_issue' = (IF req.is_write THEN {"AW", "W", "B"} ELSE {"AR", "R"})
              /\ in_issue' # {} /\ Moving'
          BY <2>3, <2>4, <3>2 DEF Moving
        <4>2. ongoing' # << >> /\ req'.valid /\ req' = saved_req' /\ count' = saved_req'.len
              /\ saved_req'.len - count' = 0 /\ saved_req'.is_write = req.is_write
          BY <1>1, <2>3, <2>7, <3>2
        <4>3. master = "cache" => Done' = saved_req'.len - count'
          BY <1>1, <2>6, <2>7, <3>2, <4>2
        <4>4. /\ axi'.ar = FALSE /\ axi'.aw = FALSE /\ axi'.read = 0 /\ axi'.wbuf = << >>
              /\ axi' = [ar |-> FALSE, aw |-> FALSE, read |-> 0, wbuf |-> << >>]
          BY <2>2 DEF SlaveIdle
        <4>5. count' <= saved_req'.len
          BY <1>1, <2>3
        <4>6. CASE req.is_write
          <5>1. in_issue' = {"AW", "W", "B"} /\ saved_req'.is_write
            BY <4>1, <4>2, <4>6
          <5>2. ~axi'.ar /\ axi'.aw = ("AW" \notin in_issue') /\ axi'.read = 0
            BY <4>4, <5>1
          <5>3. Len(axi'.wbuf) = 0
            BY <4>4
          <5>4. QED
            BY <1>8, <4>1, <4>2, <4>3, <4>5, <5>1, <5>2, <5>3 DEF BridgeRight
        <4>7. CASE ~req.is_write
          <5>1. in_issue' = {"AR", "R"} /\ ~saved_req'.is_write
            BY <4>1, <4>2, <4>7
          <5>2. ("AR" \notin in_issue') = FALSE
            BY <5>1
          <5>3. axi' = [ar |-> "AR" \notin in_issue', aw |-> FALSE,
                        read |-> saved_req'.len - count', wbuf |-> << >>]
            BY <4>2, <4>4, <5>2
          <5>4. QED
            BY <1>8, <4>1, <4>2, <4>3, <4>5, <5>1, <5>3 DEF BridgeRight
        <4>8. QED
          BY <4>6, <4>7
      <3>3. QED
        BY <3>1, <3>2
    <2>9. QED
      BY <1>3, <2>1, <2>5, <2>8
  \* Within a transaction.
  <1>11. ASSUME in_issue # {}
         PROVE  /\ in_issue' = in_issue \ ended(shake) /\ saved_req' = saved_req
                /\ count' = IF ready /\ count # 0 THEN count - 1 ELSE count
                /\ ready => count <= saved_req.len
    <2>1. /\ count' = IF bridge_resp(shake, ZeroWord).ready /\ ~bridge_resp(shake, ZeroWord).last
                      THEN (count - 1) % 16 ELSE count
          /\ in_issue' = in_issue \ ended(shake) /\ saved_req' = saved_req
      BY <1>11 DEF BridgeTick
    <2>2. /\ bridge_resp(shake, ZeroWord).ready = ready
          /\ bridge_resp(shake, ZeroWord).last = (ready /\ count = 0)
      BY BridgeFits, ZeroTyped
    <2>3. count # 0 => (count - 1) % 16 = count - 1
      BY <1>1
    <2> HIDE DEF ready
    <2>4. QED
      BY <1>2, <1>4, <2>1, <2>2, <2>3
  <1>12. CASE in_issue # {} /\ ~saved_req.is_write
    <2>1. /\ axi = [ar |-> "AR" \notin in_issue, aw |-> FALSE, read |-> old, wbuf |-> << >>]
          /\ "AR" \notin in_issue => axi.ar = TRUE
      <3>1. axi = [ar |-> "AR" \notin in_issue, aw |-> FALSE, read |-> old, wbuf |-> << >>]
        BY <1>12 DEF BridgeRight
      <3>2. axi.ar = ("AR" \notin in_issue)
        BY <3>1
      <3>3. QED
        BY <3>1, <3>2
    <2>2. axi.aw = FALSE /\ axi.read = old /\ axi.wbuf = << >> /\ Moving
      <3>1. Moving
        BY <1>12, Handshakes
      <3>2. QED
        BY <2>1, <3>1
    <2>3. rlast <=> count = 0
      <3>1. axi.read = old /\ count \in Nat /\ saved_req.len \in Nat
        BY <1>1, <2>2
      <3>2. QED
        BY ONLY <3>1 DEF rlast, old
    <2>4. CASE shake = {}
      <3>1. ~ready /\ ended(shake) = {}
        BY <2>4 DEF ended
      <3>2. in_issue' = in_issue /\ saved_req' = saved_req /\ count' = count
        BY <1>11, <1>12, <3>1
      <3>3. axi' = axi
        BY <1>1, <1>7, <2>4
      <3>4. ongoing' = ongoing /\ req' = req /\ (master = "cache" => Done' = Done)
        BY <1>3, <3>1
      <3>5. BridgeTypeOK'
        BY <3>2, <3>3 DEF BridgeTypeOK
      <3>6. BridgeRight'
        BY <1>8, <3>2, <3>3, <3>4 DEF BridgeRight, Moving
      <3>7. QED
        BY <1>3, <3>1, <3>5, <3>6
    <2>5. CASE shake = {"AR"}
      <3>1. ~ready /\ ended(shake) = {"AR"} /\ in_issue = {"AR", "R"}
        BY <1>12, <2>5, Handshakes DEF ended
      <3>2. in_issue' = {"R"} /\ saved_req' = saved_req /\ count' = count
        BY <1>11, <1>12, <3>1
      <3>3. ("AR" \notin in_issue') = TRUE
        BY <3>2
      <3>4. axi' = [ar |-> TRUE, aw |-> FALSE, read |-> old, wbuf |-> << >>]
        BY <1>7, <2>2, <2>5
      <3>5. ongoing' = ongoing /\ req' = req /\ (master = "cache" => Done' = Done)
        BY <1>3, <3>1
      <3>6. BridgeTypeOK'
        <4>1. axi.read \in 0..16 /\ axi.wbuf \in Seq([data: Word, strobe: SUBSET Lanes])
          BY <1>1
        <4>2. axi' \in [ar: BOOLEAN, aw: BOOLEAN, read: 0..16,
                        wbuf: Seq([data: Word, strobe: SUBSET Lanes])]
          BY <2>2, <3>4, <4>1
        <4>3. in_issue' \in SUBSET Channels
          BY <3>2 DEF Channels
        <4>4. QED
          BY <1>1, <3>2, <4>2, <4>3 DEF BridgeTypeOK
      <3>7. axi' = [ar |-> "AR" \notin in_issue', aw |-> FALSE,
                    read |-> saved_req'.len - count', wbuf |-> << >>]
        BY <3>2, <3>3, <3>4
      <3>8. Moving' /\ in_issue' # {}
        BY <3>2 DEF Moving
      <3>9. BridgeRight'
        BY <1>4, <1>8, <1>12, <2>2, <3>2, <3>5, <3>7, <3>8 DEF BridgeRight
      <3>10. QED
        BY <1>3, <3>1, <3>6, <3>9
    <2>6. CASE shake = {"R"}
      <3>1. ready /\ in_issue = {"R"} /\ ("AR" \notin in_issue) = TRUE
        BY <1>12, <2>6, Handshakes
      <3>2. CASE count = 0
        <4>1. in_issue' = {} /\ saved_req' = saved_req /\ count' = count /\ axi' = SlaveIdle
          BY <1>7, <1>11, <1>12, <2>3, <2>6, <3>1, <3>2 DEF ended
        <4>2. ~Moving' /\ (master = "cache" => ongoing' = << >>)
          BY <1>6, <3>1, <3>2, <4>1 DEF Moving
        <4>3. BridgeTypeOK'
          BY <1>1, <1>9, <4>1 DEF BridgeTypeOK
        <4>4. BridgeRight'
          BY <1>8, <4>1, <4>2 DEF BridgeRight
        <4>5. QED
          BY <1>3, <3>1, <4>3, <4>4
      <3>3. CASE count # 0
        <4>1. in_issue' = {"R"} /\ saved_req' = saved_req /\ count' = count - 1
          BY <1>11, <1>12, <2>3, <2>6, <3>1, <3>3 DEF ended
        <4>2. axi' = [ar |-> TRUE, aw |-> FALSE, read |-> old + 1, wbuf |-> << >>]
          <5>1. axi.ar = TRUE /\ ~rlast
            BY <1>1, <2>1, <2>3, <3>1, <3>3
          <5>2. QED
            BY <1>7, <2>2, <2>6, <5>1
        <4>3. ("AR" \notin in_issue') = TRUE
          BY <4>1
        <4>4. old + 1 \in 0..16 /\ old + 1 = saved_req'.len - count'
          <5>1. count <= saved_req.len /\ old = axi.read
            BY <1>4, <2>2
          <5>2. count \in 1..15
            BY <1>1, <3>3
          <5>3. saved_req.len \in 0..15
            BY <1>1
          <5>4. saved_req' = saved_req /\ count' = count - 1
            BY <4>1
          <5> HIDE DEF ready
          <5>5. QED
            BY <5>1, <5>2, <5>3, <5>4
        <4>5. BridgeTypeOK'
          <5>1. count' \in 0..15 /\ in_issue' \in SUBSET Channels
            BY <1>1, <3>3, <4>1 DEF Channels
          <5>2. axi' \in [ar: BOOLEAN, aw: BOOLEAN, read: 0..16,
                          wbuf: Seq([data: Word, strobe: SUBSET Lanes])]
            BY <1>1, <2>2, <4>2, <4>4
          <5>3. QED
            BY <1>1, <4>1, <5>1, <5>2 DEF BridgeTypeOK
        <4>6. axi' = [ar |-> "AR" \notin in_issue', aw |-> FALSE,
                      read |-> saved_req'.len - count', wbuf |-> << >>]
          BY <4>2, <4>3, <4>4
        <4>7. Moving' /\ in_issue' # {}
          BY <4>1 DEF Moving
        <4>8. /\ ongoing' # << >> /\ req'.valid
              /\ req'.is_write = saved_req'.is_write /\ req'.size = saved_req'.size
              /\ req'.addr = saved_req'.addr /\ req'.len = saved_req'.len
              /\ count' <= saved_req'.len
              /\ master = "cache" => Done' = saved_req'.len - count'
          BY <1>5, <3>1, <3>3, <4>1
        <4>9. BridgeRight'
          BY <1>8, <1>12, <4>1, <4>6, <4>7, <4>8 DEF BridgeRight
        <4>10. QED
          BY <1>3, <3>1, <4>5, <4>9
      <3>4. QED
        BY <3>2, <3>3
    <2>7. QED
      BY <1>12, <2>4, <2>5, <2>6, Handshakes
  <1>13. CASE in_issue # {} /\ saved_req.is_write
    <2>1. /\ in_issue \subseteq {"AW", "W", "B"} /\ "B" \in in_issue /\ "R" \notin shake
          /\ axi.ar = FALSE /\ axi.aw = ("AW" \notin in_issue) /\ axi.read = 0
          /\ Len(axi.wbuf) = IF Moving THEN old ELSE saved_req.len + 1
          /\ Moving <=> "W" \in in_issue
      <3>1. /\ in_issue \subseteq {"AW", "W", "B"} /\ "B" \in in_issue
            /\ ~axi.ar /\ axi.aw = ("AW" \notin in_issue) /\ axi.read = 0
            /\ Len(axi.wbuf) = IF Moving THEN old ELSE saved_req.len + 1
        BY <1>13 DEF BridgeRight
      <3>2. "R" \notin shake /\ axi.ar = FALSE
        BY <1>1, <1>2, <3>1
      <3>3. Moving <=> "W" \in in_issue
        BY <3>1 DEF Moving
      <3>4. QED
        BY <3>1, <3>2, <3>3
    <2> DEFINE beat == [data |-> req.data, strobe |-> req.strobe]
               W == [data: Word, strobe: SUBSET Lanes]
    <2>2. beat \in W
      BY <1>1 DEF CBusReq
    <2>3. axi.wbuf \in Seq(W)
      BY <1>1
    <2> HIDE DEF W, beat
    <2>4. Append(axi.wbuf, beat) \in Seq(W) /\ Len(Append(axi.wbuf, beat)) = Len(axi.wbuf) + 1
          /\ Len(axi.wbuf) \in Nat
      BY <2>2, <2>3, AppendFacts
    <2>5. CASE "B" \in shake
      <3>1. in_issue = {"B"} /\ shake = {"B"} /\ ~ready /\ ended(shake) = {"B"}
        BY <1>13, <2>5, Handshakes DEF ended
      <3>2. in_issue' = {} /\ saved_req' = saved_req /\ count' = count /\ axi' = SlaveIdle
        BY <1>7, <1>11, <1>13, <2>5, <3>1
      <3>3. ongoing' = ongoing /\ (master = "cache" => Done' = Done)
        BY <1>3, <3>1
      <3>4. master = "cache" /\ ongoing' # << >> => Done' = 0
        BY <3>1, <3>3 DEF BridgeRight, Moving
      <3>5. BridgeTypeOK'
        BY <1>1, <1>9, <3>2 DEF BridgeTypeOK
      <3>6. ~Moving'
        BY <3>2 DEF Moving
      <3>7. BridgeRight'
        BY <1>8, <3>2, <3>4, <3>6 DEF BridgeRight
      <3>8. QED
        BY <1>3, <3>1, <3>5, <3>7
    <2>6. CASE "B" \notin shake
      <3>1. axi' = [ar |-> FALSE, aw |-> axi.aw \/ "AW" \in shake, read |-> 0,
                    wbuf |-> IF "W" \in shake THEN Append(axi.wbuf, beat) ELSE axi.wbuf]
        <4>1. "AR" \notin shake
          BY <1>2, <2>1
        <4>2. axi' = fresh
          BY <1>7, <2>1, <2>6
        <4>3. QED
          BY <2>1, <4>1, <4>2 DEF beat
      <3>2. /\ axi'.ar = FALSE /\ axi'.aw = (axi.aw \/ "AW" \in shake) /\ axi'.read = 0
            /\ axi'.wbuf = IF "W" \in shake THEN Append(axi.wbuf, beat) ELSE axi.wbuf
        BY <3>1
      <3>3. ready <=> "W" \in shake
        BY <2>1
      <3>4. in_issue' = in_issue \ {ch \in shake : ch = "W" => count = 0}
        BY <1>11, <1>13, <2>1 DEF ended, wlast, is_last
      <3>5. /\ in_issue' \subseteq {"AW", "W", "B"} /\ "B" \in in_issue' /\ saved_req' = saved_req
            /\ "AW" \in in_issue' <=> "AW" \in in_issue /\ "AW" \notin shake
            /\ Moving' <=> "W" \in in_issue /\ ("W" \in shake => count # 0)
        <4>1. /\ in_issue' \subseteq {"AW", "W", "B"} /\ "B" \in in_issue'
              /\ "AW" \in in_issue' <=> "AW" \in in_issue /\ "AW" \notin shake
              /\ "W" \in in_issue' <=> "W" \in in_issue /\ ("W" \in shake => count # 0)
              /\ "R" \notin in_issue'
          BY <2>1, <2>6, <3>4
        <4>2. Moving' <=> "W" \in in_issue'
          BY <4>1 DEF Moving
        <4>3. QED
          BY <1>11, <1>13, <4>1, <4>2
      <3>6. axi'.aw = ("AW" \notin in_issue')
        <4>1. ("AW" \notin in_issue') <=> ("AW" \notin in_issue \/ "AW" \in shake)
          BY <3>5
        <4>2. axi'.aw <=> ("AW" \notin in_issue')
          BY <1>1, <2>1, <3>2, <4>1
        <4>3. QED
          BY <3>2, <4>2
      <3>7. count' = IF "W" \in shake /\ count # 0 THEN count - 1 ELSE count
        BY <1>11, <1>13, <3>3
      <3>8. "W" \in shake => "W" \in in_issue /\ Moving
        BY <1>2, <2>1
      <3>9. Len(axi'.wbuf) = IF Moving' THEN saved_req'.len - count' ELSE saved_req'.len + 1
        <4> DEFINE n == Len(axi.wbuf)
                   q == Len(axi'.wbuf)
        <4>1. q = IF "W" \in shake THEN n + 1 ELSE n
          BY <2>4, <3>2
        <4>2. n = IF Moving THEN old ELSE saved_req.len + 1
          BY <2>1
        <4> HIDE DEF n, q
        <4>3. CASE "W" \in shake /\ count # 0
          <5>1. /\ q = n + 1 /\ n = saved_req.len - count /\ Moving' /\ saved_req' = saved_req
                /\ count' = count - 1
            BY <3>5, <3>7, <3>8, <4>1, <4>2, <4>3
          <5>2. saved_req.len \in Int /\ count \in Int
            BY <1>1
          <5>3. q = saved_req.len - (count - 1)
            BY <5>1, <5>2
          <5>4. QED
            BY <5>1, <5>3 DEF q
        <4>4. CASE "W" \in shake /\ count = 0
          <5>1. q = n + 1 /\ n = saved_req.len - 0 /\ ~Moving' /\ saved_req' = saved_req
            BY <3>5, <3>8, <4>1, <4>2, <4>4
          <5>2. saved_req.len \in Int
            BY <1>1
          <5>3. q = saved_req.len + 1
            BY <5>1, <5>2
          <5>4. QED
            BY <5>1, <5>3 DEF q
        <4>5. CASE "W" \notin shake
          <5>1. q = n /\ count' = count /\ saved_req' = saved_req /\ (Moving' <=> Moving)
            BY <2>1, <3>5, <3>7, <4>1, <4>5
          <5>2. q = IF Moving' THEN saved_req'.len - count' ELSE saved_req'.len + 1
            BY <4>2, <5>1
          <5>3. QED
            BY <5>2, Zenon DEF q
        <4>6. "W" \in shake \/ "W" \notin shake
          OBVIOUS
        <4>7. QED
          BY <4>3, <4>4, <4>5, <4>6, Zenon
      <3>10. BridgeTypeOK'
        <4>1. axi'.wbuf \in Seq(W) /\ axi'.aw \in BOOLEAN /\ axi'.ar \in BOOLEAN /\ axi'.read \in 0..16
          <5>1. axi'.wbuf \in Seq(W)
            BY <2>3, <2>4, <3>2
          <5>2. ("AW" \notin in_issue') \in BOOLEAN
            OBVIOUS
          <5>3. axi'.aw \in BOOLEAN
            BY <3>6, <5>2
          <5>4. axi'.ar \in BOOLEAN /\ axi'.read \in 0..16
            <6>1. FALSE \in BOOLEAN /\ 0 \in 0..16
              OBVIOUS
            <6>2. axi'.ar = FALSE /\ axi'.read = 0
              BY <3>2
            <6>3. QED
              BY <6>1, <6>2
          <5>5. QED
            BY <5>1, <5>3, <5>4
        <4>2. axi' \in [ar: BOOLEAN, aw: BOOLEAN, read: 0..16, wbuf: Seq(W)]
          BY <3>1, <4>1
        <4>3. count' \in 0..15 /\ in_issue' \in SUBSET Channels
          BY <1>1, <3>5, <3>7 DEF Channels
        <4>4. QED
          BY <1>1, <3>5, <4>2, <4>3 DEF BridgeTypeOK, W
      <3>11. Moving' => /\ ongoing' # << >> /\ req'.valid
                        /\ req'.is_write = saved_req'.is_write /\ req'.size = saved_req'.size
                        /\ req'.addr = saved_req'.addr /\ req'.len = saved_req'.len
                        /\ count' <= saved_req'.len
                        /\ master = "cache" => Done' = saved_req'.len - count'
        <4>1. CASE "W" \in shake
          BY <1>5, <3>3, <3>5, <3>7, <4>1
        <4>2. CASE "W" \notin shake
          <5>1. ongoing' = ongoing /\ req' = req /\ (master = "cache" => Done' = Done)
            BY <1>3, <3>3, <4>2
          <5>2. count' = count /\ saved_req' = saved_req /\ (Moving' => Moving)
            BY <2>1, <3>5, <3>7, <4>2
          <5>3. QED
            BY <1>4, <5>1, <5>2
        <4>3. QED
          BY <4>1, <4>2
      <3>12. ~Moving' /\ master = "cache" /\ ongoing' # << >> => Done' = 0
        <4>1. CASE "W" \in shake
          BY <1>6, <3>3, <3>5, <3>8, <4>1
        <4>2. CASE "W" \notin shake
          <5>1. ongoing' = ongoing /\ (master = "cache" => Done' = Done) /\ (~Moving' => ~Moving)
            BY <1>3, <2>1, <3>3, <3>5, <4>2
          <5>2. ~Moving /\ master = "cache" /\ ongoing # << >> => Done = 0
            BY DEF BridgeRight
          <5>3. QED
            BY <5>1, <5>2
        <4>3. QED
          BY <4>1, <4>2
      <3>13. BridgeRight'
        <4>1. in_issue' # {} /\ saved_req'.is_write
          BY <1>13, <3>5
        <4>2. QED
          BY <1>8, <3>2, <3>5, <3>6, <3>9, <3>11, <3>12, <4>1 DEF BridgeRight
      <3>14. QED
        BY <1>3, <3>10, <3>13
    <2>7. QED
      BY <2>5, <2>6
  <1>14. QED
    BY <1>10, <1>12, <1>13

----------------------------------------------------------------------------
\* The contents of the memory.

\* A memory with a word replaced is a memory.
LEMMA StoreTyped ==
    ASSUME NEW m \in Contents, NEW i, NEW w, i \in Words => w \in Word
    PROVE  [m EXCEPT ![i] = w] \in Contents
  BY DEF Contents

\* The image of a file fills the memory with words.
LEMMA MapTyped ==
    ASSUME NEW overshift
    PROVE  map(ImageFile, overshift) \in Contents
  <1> DEFINE N == Len(ImageFile)
             Zero == [i \in Words |-> ZeroWord]
             Put(m, k) == [m EXCEPT ![(k - 1) \div 8] =
                               MapByte(@, (k - 1) % 8, ImageFile[k], overshift)]
             Eq(f) == f = [n \in 0..N |-> IF n = 0 THEN Zero ELSE Put(f[n - 1], n)]
             up == CHOOSE f : Eq(f)
             step == [k \in 1..N |-> [x \in Contents |-> Put(x, k)]]
  <1>1. N \in Nat /\ \A k \in 1..N : ImageFile[k] \in Byte
    BY ImageAssumption
  <1>2. Zero \in Contents
    BY ZeroTyped DEF Contents
  <1>3. ASSUME NEW m \in Contents, NEW k \in 1..N PROVE Put(m, k) \in Contents
    <2>1. (k - 1) \div 8 \in Words => m[(k - 1) \div 8] \in Word
      BY DEF Contents
    <2>2. ASSUME NEW w \in Word
          PROVE  MapByte(w, (k - 1) % 8, ImageFile[k], overshift) \in Word
      BY <1>1, ByteAssumption DEF MapByte, Word
    <2>3. QED
      BY <2>1, <2>2, StoreTyped
  <1>4. step \in [1..N -> [Contents -> Contents]]
    BY <1>3
  <1>5. map(ImageFile, overshift) = up[N]
    BY DEF map
  <1> HIDE DEF N, Zero, Put
  <1>6. PICK g \in Runs(N, Contents, Zero, step) : TRUE
    <2> HIDE DEF step
    <2>1. Runs(N, Contents, Zero, step) # {}
      BY <1>1, <1>2, <1>4, Recursion
    <2>2. QED
      BY <2>1
  <1>7. g \in [0..N -> Contents] /\ g[0] = Zero /\ \A k \in 1..N : g[k] = step[k][g[k - 1]]
    <2> HIDE DEF step
    <2>1. QED
      BY <1>6 DEF Runs
  <1>8. ASSUME NEW k \in 1..N PROVE g[k] = Put(g[k - 1], k)
    <2>1. k - 1 \in 0..N /\ g[k - 1] \in Contents
      BY <1>1, <1>7
    <2>2. g[k] = [x \in Contents |-> Put(x, k)][g[k - 1]]
      BY <1>7
    <2>3. [x \in Contents |-> Put(x, k)][g[k - 1]] = Put(g[k - 1], k)
      BY <2>1
    <2>4. QED
      BY <2>2, <2>3
  <1>9. Eq(up)
    <2>1. Eq(g)
      BY <1>1, <1>7, <1>8
    <2> HIDE DEF Eq
    <2>2. QED
      BY <2>1
  <1> HIDE DEF up
  <1>10. ASSUME NEW k \in 1..N PROVE up[k] = Put(up[k - 1], k)
    <2>1. k \in 0..N /\ k # 0
      BY <1>1
    <2>2. QED
      BY <1>9, <2>1
  <1> DEFINE T == {n \in 0..N : up[n] \in Contents}
  <1>11. 0 \in T
    BY <1>1, <1>2, <1>9
  <1>12. ASSUME NEW n \in 0..(N - 1), n \in T PROVE n + 1 \in T
    <2>1. n + 1 \in 1..N /\ n + 1 \in 0..N /\ n + 1 # 0 /\ n + 1 - 1 = n /\ up[n] \in Contents
      BY <1>1, <1>12
    <2>2. up[n + 1] = Put(up[n + 1 - 1], n + 1)
      BY <1>10, <2>1
    <2>3. Put(up[n], n + 1) \in Contents
      BY <1>3, <2>1
    <2>4. QED
      BY <2>1, <2>2, <2>3
  <1>13. 0..N \subseteq T
    BY <1>1, <1>11, <1>12, UpTo
  <1>14. QED
    BY <1>1, <1>5, <1>13

\* What the write data w of a request r makes of the memory m, beat by beat.
Beat == [data: Word, strobe: SUBSET Lanes]

Put(m, r, w, k) ==
    [m EXCEPT ![BeatAddress(r.addr, r.size, r.len + 1, k - 1) \div 8] =
        Merge(@, w[k].data, w[k].strobe)]

Writes(m, r, w) ==
    CHOOSE f : f = [k \in 0..Len(w) |-> IF k = 0 THEN m ELSE Put(f[k - 1], r, w, k)]

Steps(r, w) == [k \in 1..Len(w) |-> [x \in Contents |-> Put(x, r, w, k)]]

\* A beat of write data makes a memory of a memory.
LEMMA PutTyped ==
    ASSUME NEW m \in Contents, NEW r, NEW w \in Seq(Beat), NEW k \in 1..Len(w)
    PROVE  Put(m, r, w, k) \in Contents
  <1> DEFINE i == BeatAddress(r.addr, r.size, r.len + 1, k - 1) \div 8
  <1>1. i \in Words => m[i] \in Word
    BY DEF Contents
  <1>2. w[k] \in Beat
    BY ElementOfSeq
  <1>3. w[k].data \in Word
    BY <1>2 DEF Beat
  <1>4. i \in Words => Merge(m[i], w[k].data, w[k].strobe) \in Word
    BY <1>1, <1>3, MergeTyped
  <1>5. QED
    BY <1>4 DEF Put, Contents

\* Writes is the run of the beats: it exists and obeys its recursion.
LEMMA WritesRun ==
    ASSUME NEW m \in Contents, NEW r, NEW w \in Seq(Beat)
    PROVE  /\ Writes(m, r, w) \in Runs(Len(w), Contents, m, Steps(r, w))
           /\ Writes(m, r, w) \in [0..Len(w) -> Contents] /\ Writes(m, r, w)[0] = m
           /\ \A k \in 1..Len(w) : Writes(m, r, w)[k] = Put(Writes(m, r, w)[k - 1], r, w, k)
  <1> DEFINE N == Len(w)
             Eq(f) == f = [k \in 0..N |-> IF k = 0 THEN m ELSE Put(f[k - 1], r, w, k)]
             up == CHOOSE f : Eq(f)
             step == Steps(r, w)
  <1>1. N \in Nat
    BY EmptyFacts
  <1>2. \A x \in Contents, k \in 1..N : Put(x, r, w, k) \in Contents
    BY PutTyped
  <1>3. up = Writes(m, r, w)
    BY DEF Writes
  <1>4. step = [k \in 1..N |-> [x \in Contents |-> Put(x, r, w, k)]]
    BY DEF Steps
  <1> HIDE DEF N, step
  <1>5. step \in [1..N -> [Contents -> Contents]]
    BY <1>2, <1>4
  <1>6. ASSUME NEW k \in 1..N, NEW x \in Contents PROVE step[k][x] = Put(x, r, w, k)
    <2>1. step[k] = [y \in Contents |-> Put(y, r, w, k)]
      BY <1>4
    <2>2. QED
      BY <2>1
  <1>7. PICK g \in Runs(N, Contents, m, step) : TRUE
    <2>1. Runs(N, Contents, m, step) # {}
      BY <1>1, <1>5, Recursion
    <2>2. QED
      BY <2>1
  <1>8. g \in [0..N -> Contents] /\ g[0] = m /\ \A k \in 1..N : g[k] = step[k][g[k - 1]]
    BY <1>7 DEF Runs
  <1>9. ASSUME NEW k \in 1..N PROVE g[k] = Put(g[k - 1], r, w, k)
    <2>1. k - 1 \in 0..N /\ g[k - 1] \in Contents
      BY <1>1, <1>8
    <2>2. QED
      BY <1>6, <1>8, <2>1
  <1>10. Eq(up)
    <2>1. Eq(g)
      BY <1>1, <1>8, <1>9
    <2> HIDE DEF Eq
    <2>2. QED
      BY <2>1
  <1> HIDE DEF up
  <1>11. up[0] = m /\ DOMAIN up = 0..N /\ up = [k \in 0..N |-> up[k]]
    BY <1>1, <1>10
  <1>12. ASSUME NEW k \in 1..N PROVE up[k] = Put(up[k - 1], r, w, k)
    <2>1. k \in 0..N /\ k # 0
      BY <1>1
    <2>2. QED
      BY <1>10, <2>1
  <1> DEFINE T == {n \in 0..N : up[n] \in Contents}
  <1>13. 0 \in T
    BY <1>1, <1>11
  <1>14. ASSUME NEW n \in 0..(N - 1), n \in T PROVE n + 1 \in T
    <2>1. n + 1 \in 1..N /\ n + 1 \in 0..N /\ n + 1 - 1 = n /\ up[n] \in Contents
      BY <1>1, <1>14
    <2>2. up[n + 1] = Put(up[n + 1 - 1], r, w, n + 1)
      BY <1>12, <2>1
    <2>3. Put(up[n], r, w, n + 1) \in Contents
      BY <1>2, <2>1
    <2>4. QED
      BY <2>1, <2>2, <2>3
  <1>15. 0..N \subseteq T
    BY <1>1, <1>13, <1>14, UpTo
  <1>16. up \in [0..N -> Contents]
    BY <1>11, <1>15
  <1>17. ASSUME NEW k \in 1..N PROVE up[k] = step[k][up[k - 1]]
    <2>1. k - 1 \in 0..N /\ up[k - 1] \in Contents
      BY <1>1, <1>16
    <2>2. QED
      BY <1>6, <1>12, <2>1
  <1>18. up \in Runs(N, Contents, m, step)
    BY <1>11, <1>16, <1>17 DEF Runs
  <1>19. \A k \in 1..N : up[k] = Put(up[k - 1], r, w, k)
    BY <1>12
  <1>20. QED
    BY <1>3, <1>11, <1>16, <1>18, <1>19 DEF N, step

\* One more beat of write data is one more word written.
LEMMA WritesAppend ==
    ASSUME NEW m \in Contents, NEW r, NEW w \in Seq(Beat), NEW e \in Beat
    PROVE  LET v == Append(w, e)
               n == Len(w)
           IN  Writes(m, r, v)[n + 1] = Put(Writes(m, r, w)[n], r, v, n + 1)
  <1> DEFINE v == Append(w, e)
             n == Len(w)
             f == Writes(m, r, w)
             g == Writes(m, r, v)
  <1>1. /\ v \in Seq(Beat) /\ Len(v) = n + 1 /\ n \in Nat /\ (\A k \in 1..n : v[k] = w[k])
    BY AppendFacts
  <1>2. f \in Runs(n, Contents, m, Steps(r, w))
    BY WritesRun
  <1>3. /\ g \in Runs(n + 1, Contents, m, Steps(r, v))
        /\ \A k \in 1..(n + 1) : g[k] = Put(g[k - 1], r, v, k)
    <2> HIDE DEF v, n
    <2>1. QED
      BY <1>1, WritesRun
  <1>4. ASSUME NEW k \in 1..n PROVE Steps(r, v)[k] = Steps(r, w)[k]
    <2>1. k \in 1..Len(v) /\ v[k] = w[k]
      BY <1>1
    <2> HIDE DEF v
    <2>2. Steps(r, v)[k] = [x \in Contents |-> Put(x, r, v, k)]
      BY <2>1 DEF Steps
    <2>3. Steps(r, w)[k] = [x \in Contents |-> Put(x, r, w, k)]
      BY DEF Steps
    <2>4. \A x : Put(x, r, v, k) = Put(x, r, w, k)
      BY <2>1 DEF Put
    <2>5. QED
      BY <2>2, <2>3, <2>4
  <1> HIDE DEF v, n, f, g
  <1>5. \A k \in 0..n : f[k] = g[k]
    <2>1. n \in Nat /\ n + 1 \in Nat /\ n <= n + 1
      BY <1>1
    <2>2. \A k \in 1..n : Steps(r, v)[k] = Steps(r, w)[k]
      BY <1>4
    <2>3. QED
      BY <1>2, <1>3, <2>1, <2>2, SameRecursion
  <1>6. n \in 0..n /\ n + 1 \in 1..(n + 1) /\ n + 1 - 1 = n
    BY <1>1
  <1>7. g[n + 1] = Put(g[n + 1 - 1], r, v, n + 1)
    BY <1>3, <1>6
  <1>8. g[n + 1] = Put(f[n], r, v, n + 1)
    BY <1>5, <1>6, <1>7
  <1>9. QED
    BY <1>8 DEF v, n, f, g

\* AfterWrites, written with the definitions above.
LEMMA AfterWritesIs ==
    ASSUME NEW m
    PROVE  AfterWrites(m) = Writes(m, saved_req, axi.wbuf)[Len(axi.wbuf)]
  BY DEF AfterWrites, Writes, Put

\* What the write data make of a memory is a memory.
LEMMA AfterWritesTyped ==
    ASSUME NEW m \in Contents, BridgeTypeOK
    PROVE  AfterWrites(m) \in Contents /\ (axi.wbuf = << >> => AfterWrites(m) = m)
  <1>1. axi.wbuf \in Seq(Beat)
    BY DEF BridgeTypeOK, Beat
  <1>2. /\ Len(axi.wbuf) \in 0..Len(axi.wbuf) /\ (axi.wbuf = << >> => Len(axi.wbuf) = 0)
    BY <1>1, EmptyFacts
  <1>3. /\ Writes(m, saved_req, axi.wbuf) \in [0..Len(axi.wbuf) -> Contents]
        /\ Writes(m, saved_req, axi.wbuf)[0] = m
    BY <1>1, WritesRun
  <1>4. QED
    BY <1>2, <1>3, AfterWritesIs

----------------------------------------------------------------------------
\* The characters on their way from the terminal to the program.

\* s is in increasing order, and its elements are the members of C.
Ordered(s, C) ==
    /\ \A i, j \in DOMAIN s : i < j => s[i] < s[j]
    /\ {s[i] : i \in DOMAIN s} = C

\* The elements of three sequences one after the other.
LEMMA Three ==
    ASSUME NEW S, NEW p \in Seq(S), NEW q \in Seq(S), NEW r \in Seq(S)
    PROVE  LET s == p \o q \o r
               a == Len(p)
               b == Len(q)
               c == Len(r)
           IN  /\ s \in Seq(S) /\ Len(s) = a + b + c /\ DOMAIN s = 1..(a + b + c)
               /\ a \in Nat /\ b \in Nat /\ c \in Nat
               /\ \A i \in 1..(a + b + c) :
                      s[i] = IF i <= a THEN p[i] ELSE IF i <= a + b THEN q[i - a]
                             ELSE r[i - (a + b)]
  <1> DEFINE t == p \o q
             a == Len(p)
             b == Len(q)
             c == Len(r)
  <1>1. /\ t \in Seq(S) /\ Len(t) = a + b /\ a \in Nat /\ b \in Nat /\ c \in Nat
        /\ \A i \in 1..(a + b) : t[i] = IF i <= a THEN p[i] ELSE q[i - a]
    BY ConcatProperties, LenProperties
  <1> HIDE DEF t
  <1>2. /\ t \o r \in Seq(S) /\ Len(t \o r) = a + b + c
        /\ \A i \in 1..(a + b + c) : (t \o r)[i] = IF i <= a + b THEN t[i] ELSE r[i - (a + b)]
    <2>1. /\ t \o r \in Seq(S) /\ Len(t \o r) = Len(t) + c
          /\ \A i \in 1..(Len(t) + c) : (t \o r)[i] = IF i <= Len(t) THEN t[i] ELSE r[i - Len(t)]
      <3>1. t \in Seq(S)
        BY <1>1
      <3>2. QED
        BY <3>1, ConcatProperties
    <2>2. QED
      BY <1>1, <2>1
  <1>3. DOMAIN (t \o r) = 1..(a + b + c)
    BY <1>2, LenProperties
  <1> HIDE DEF a, b, c
  <1>4. ASSUME NEW i \in 1..(a + b + c)
        PROVE  (t \o r)[i] = IF i <= a THEN p[i] ELSE IF i <= a + b THEN q[i - a]
                             ELSE r[i - (a + b)]
    <2>1. CASE i <= a + b
      <3>1. i \in 1..(a + b)
        BY <1>1, <2>1
      <3>2. t[i] = IF i <= a THEN p[i] ELSE q[i - a]
        BY <1>1, <3>1
      <3>3. QED
        BY <1>2, <2>1, <3>2
    <2>2. CASE ~(i <= a + b)
      <3>1. ~(i <= a)
        BY <1>1, <2>2
      <3>2. QED
        BY <1>2, <2>2, <3>1
    <2>3. QED
      BY <2>1, <2>2
  <1>5. QED
    BY <1>1, <1>2, <1>3, <1>4 DEF t, a, b, c

\* The thread puts the character in its hand at the end of the queue.
LEMMA Pushed ==
    ASSUME NEW S, NEW p \in Seq(S), NEW q \in Seq(S), NEW x \in S
    PROVE  p \o Append(q, x) \o << >> = p \o q \o <<x>>
  <1>1. <<x>> \in Seq(S) /\ << >> \in Seq(S) /\ Append(q, x) \in Seq(S)
    BY AppendFacts, EmptyFacts
  <1>2. Append(q, x) = q \o <<x>>
    BY AppendIsConcat
  <1>3. p \o Append(q, x) \in Seq(S)
    BY <1>1, ConcatProperties
  <1>4. p \o Append(q, x) \o << >> = p \o Append(q, x)
    BY <1>3, ConcatEmptySeq
  <1>5. p \o q \o <<x>> = p \o (q \o <<x>>)
    BY <1>1, ConcatAssociative
  <1>6. QED
    BY <1>2, <1>4, <1>5

\* The program takes the character at the front.
LEMMA Taken ==
    ASSUME NEW S, NEW p \in Seq(S), NEW q \in Seq(S), NEW r \in Seq(S), q # << >>
    PROVE  Append(p, Head(q)) \o Tail(q) \o r = p \o q \o r
  <1> DEFINE h == Head(q)
             t == Tail(q)
             u == Append(p, h)
  <1>1. h \in S /\ t \in Seq(S) /\ Len(t) = Len(q) - 1 /\ h = q[1] /\ Len(q) \in Nat /\ Len(q) >= 1
        /\ \A k \in 1..(Len(q) - 1) : t[k] = q[k + 1]
    BY TailFacts
  <1>2. u \in Seq(S) /\ Len(u) = Len(p) + 1 /\ Len(p) \in Nat /\ u[Len(p) + 1] = h
        /\ \A k \in 1..Len(p) : u[k] = p[k]
    BY <1>1, AppendFacts
  <1> HIDE DEF h, t, u
  <1>3. /\ u \o t \in Seq(S) /\ Len(u \o t) = Len(u) + Len(t)
        /\ \A i \in 1..(Len(u) + Len(t)) :
               (u \o t)[i] = IF i <= Len(u) THEN u[i] ELSE t[i - Len(u)]
    BY <1>1, <1>2, ConcatProperties
  <1>4. /\ p \o q \in Seq(S) /\ Len(p \o q) = Len(p) + Len(q)
        /\ \A i \in 1..(Len(p) + Len(q)) :
               (p \o q)[i] = IF i <= Len(p) THEN p[i] ELSE q[i - Len(p)]
    BY ConcatProperties
  <1> DEFINE a == Len(p)
             b == Len(q)
  <1>5. Len(u \o t) = a + b /\ Len(p \o q) = a + b /\ a \in Nat /\ b \in Nat /\ b >= 1
    <2>1. Len(u) = a + 1 /\ Len(t) = b - 1 /\ a \in Nat /\ b \in Nat /\ b >= 1
      BY <1>1, <1>2
    <2> HIDE DEF a, b
    <2>2. Len(u) + Len(t) = a + b
      BY <2>1
    <2>3. QED
      BY <1>3, <1>4, <2>1, <2>2 DEF a, b
  <1>6. ASSUME NEW i \in 1..(a + b) PROVE (u \o t)[i] = (p \o q)[i]
    <2>1. /\ Len(u) = a + 1 /\ Len(u) + Len(t) = a + b /\ Len(t) = b - 1
          /\ i \in 1..(Len(u) + Len(t)) /\ i \in 1..(Len(p) + Len(q))
      BY <1>1, <1>2, <1>3, <1>5
    <2>2. (p \o q)[i] = IF i <= a THEN p[i] ELSE q[i - a]
      BY <1>4, <2>1
    <2>3. (u \o t)[i] = IF i <= a + 1 THEN u[i] ELSE t[i - (a + 1)]
      BY <1>3, <2>1
    <2>4. CASE i <= a
      <3>1. i \in 1..a /\ i <= a + 1
        BY <1>5, <2>4
      <3>2. QED
        BY <1>2, <2>2, <2>3, <2>4, <3>1
    <2>5. CASE i = a + 1
      <3>1. ~(i <= a) /\ i - a = 1 /\ i <= a + 1
        BY <1>5, <2>5
      <3>2. QED
        BY <1>1, <1>2, <2>2, <2>3, <2>5, <3>1
    <2>6. CASE i > a + 1
      <3>1. ~(i <= a) /\ ~(i <= a + 1) /\ i - (a + 1) \in 1..(b - 1) /\ i - (a + 1) + 1 = i - a
        BY <1>5, <2>6
      <3>2. t[i - (a + 1)] = q[i - (a + 1) + 1]
        BY <1>1, <3>1
      <3>3. QED
        BY <2>2, <2>3, <3>1, <3>2
    <2>7. i <= a \/ i = a + 1 \/ i > a + 1
      BY <1>5
    <2>8. QED
      BY <2>4, <2>5, <2>6, <2>7
  <1> HIDE DEF a, b
  <1>7. u \o t = p \o q
    <2>1. Len(u \o t) = Len(p \o q) /\ \A i \in 1..Len(u \o t) : (u \o t)[i] = (p \o q)[i]
      BY <1>5, <1>6
    <2>2. QED
      BY <1>3, <1>4, <2>1, SeqEqual
  <1>8. QED
    BY <1>7 DEF u, t, h

\* A character typed is greater than those before it.
LEMMA Typed ==
    ASSUME NEW s \in Seq(Nat), NEW C, Ordered(s, C), NEW n \in Nat, C \subseteq 1..n
    PROVE  Ordered(Append(s, n + 1), C \cup {n + 1})
  <1> DEFINE t == Append(s, n + 1)
             a == Len(s)
  <1>1. /\ t \in Seq(Nat) /\ a \in Nat /\ DOMAIN t = 1..(a + 1) /\ DOMAIN s = 1..a
        /\ (\A k \in 1..a : t[k] = s[k]) /\ t[a + 1] = n + 1
    BY AppendFacts
  <1>2. \A i, j \in 1..a : i < j => s[i] < s[j]
    BY <1>1 DEF Ordered
  <1>3. {s[i] : i \in 1..a} = C
    BY <1>1 DEF Ordered
  <1> HIDE DEF t, a
  <1>4. \A i \in 1..a : s[i] \in 1..n
    BY <1>3
  <1>5. ASSUME NEW i \in 1..(a + 1), NEW j \in 1..(a + 1), i < j PROVE t[i] < t[j]
    <2>1. i \in 1..a
      BY <1>1, <1>5
    <2>2. CASE j \in 1..a
      BY <1>1, <1>2, <1>5, <2>1, <2>2
    <2>3. CASE j = a + 1
      BY <1>1, <1>4, <2>1, <2>3
    <2>4. QED
      BY <1>1, <2>2, <2>3
  <1>6. {t[i] : i \in 1..(a + 1)} = C \cup {n + 1}
    <2>1. ASSUME NEW i \in 1..(a + 1) PROVE t[i] \in C \cup {n + 1}
      <3>1. CASE i \in 1..a
        BY <1>1, <1>3, <3>1
      <3>2. CASE i = a + 1
        BY <1>1, <3>2
      <3>3. QED
        BY <1>1, <3>1, <3>2
    <2>2. ASSUME NEW x \in C \cup {n + 1} PROVE \E i \in 1..(a + 1) : t[i] = x
      <3>1. CASE x \in C
        <4>1. PICK i \in 1..a : s[i] = x
          BY <1>3, <3>1
        <4>2. i \in 1..(a + 1) /\ t[i] = x
          BY <1>1, <4>1
        <4>3. QED
          BY <4>2
      <3>2. CASE x = n + 1
        <4>1. a + 1 \in 1..(a + 1)
          BY <1>1
        <4>2. QED
          BY <1>1, <3>2, <4>1
      <3>3. QED
        BY <3>1, <3>2
    <2>3. QED
      BY <2>1, <2>2
  <1>7. QED
    BY <1>1, <1>5, <1>6 DEF Ordered, t

\* A reset throws away the queue and nothing else.
LEMMA Dropped ==
    ASSUME NEW p \in Seq(Nat), NEW q \in Seq(Nat), NEW r \in Seq(Nat), NEW C,
           Ordered(p \o q \o r, C)
    PROVE  Ordered(p \o << >> \o r, C \ {q[i] : i \in DOMAIN q})
  <1> DEFINE s == p \o q \o r
             z == p \o << >> \o r
             a == Len(p)
             b == Len(q)
             c == Len(r)
  <1>1. /\ s \in Seq(Nat) /\ DOMAIN s = 1..(a + b + c) /\ a \in Nat /\ b \in Nat /\ c \in Nat
        /\ \A i \in 1..(a + b + c) :
               s[i] = IF i <= a THEN p[i] ELSE IF i <= a + b THEN q[i - a] ELSE r[i - (a + b)]
    BY Three
  <1>2. << >> \in Seq(Nat) /\ Len(<< >>) = 0 /\ DOMAIN q = 1..b
    BY EmptySeq, LenProperties
  <1>3. p \o << >> = p
    BY ConcatEmptySeq
  <1>4. /\ z = p \o r /\ z \in Seq(Nat) /\ DOMAIN z = 1..(a + c)
        /\ \A i \in 1..(a + c) : z[i] = IF i <= a THEN p[i] ELSE r[i - a]
    BY <1>3, ConcatProperties, LenProperties
  <1>5. (\A i, j \in 1..(a + b + c) : i < j => s[i] < s[j]) /\ {s[i] : i \in 1..(a + b + c)} = C
    BY <1>1 DEF Ordered
  <1>6. \A i \in 1..(a + b + c) : s[i] \in Nat
    BY <1>1, ElementOfSeq, LenProperties
  <1> HIDE DEF s, z, a, b, c
  <1> DEFINE at(i) == IF i <= a THEN i ELSE i + b
  <1>7. ASSUME NEW i \in 1..(a + c) PROVE at(i) \in 1..(a + b + c) /\ z[i] = s[at(i)]
    <2>1. CASE i <= a
      <3>1. i \in 1..(a + b + c) /\ at(i) = i
        BY <1>1, <2>1
      <3>2. s[i] = p[i]
        BY <1>1, <2>1, <3>1
      <3>3. z[i] = p[i]
        BY <1>4, <2>1
      <3>4. QED
        BY <3>1, <3>2, <3>3
    <2>2. CASE ~(i <= a)
      <3>1. i + b \in 1..(a + b + c) /\ ~(i + b <= a) /\ ~(i + b <= a + b) /\ i + b - (a + b) = i - a
        <4>1. a \in Nat /\ b \in Nat /\ c \in Nat /\ i \in 1..(a + c)
          BY <1>1
        <4>2. QED
          BY ONLY <2>2, <4>1
      <3>2. s[i + b] = r[i + b - (a + b)]
        BY <1>1, <3>1
      <3>3. QED
        BY <1>4, <2>2, <3>1, <3>2
    <2>3. QED
      BY <2>1, <2>2
  <1>8. ASSUME NEW i \in 1..(a + c), NEW j \in 1..(a + c), i < j PROVE z[i] < z[j]
    <2>1. at(i) < at(j)
      BY <1>1, <1>8
    <2>2. QED
      BY <1>5, <1>7, <2>1
  <1>9. ASSUME NEW k \in 1..b PROVE k + a \in 1..(a + b + c) /\ q[k] = s[k + a]
    <2>1. k + a \in 1..(a + b + c) /\ ~(k + a <= a) /\ k + a <= a + b /\ k + a - a = k
      BY <1>1
    <2>2. s[k + a] = q[k + a - a]
      BY <1>1, <2>1
    <2>3. QED
      BY <2>1, <2>2
  <1>10. {z[i] : i \in 1..(a + c)} = C \ {q[i] : i \in 1..b}
    <2>1. ASSUME NEW i \in 1..(a + c) PROVE z[i] \in C /\ \A k \in 1..b : q[k] # z[i]
      <3>1. z[i] \in C
        BY <1>5, <1>7
      <3>2. ASSUME NEW k \in 1..b PROVE q[k] # z[i]
        <4>1. at(i) < k + a \/ k + a < at(i)
          BY <1>1
        <4>2. s[at(i)] < s[k + a] \/ s[k + a] < s[at(i)]
          BY <1>5, <1>7, <1>9, <4>1
        <4>3. s[at(i)] \in Nat /\ s[k + a] \in Nat
          BY <1>6, <1>7, <1>9
        <4>4. s[at(i)] # s[k + a]
          BY <4>2, <4>3
        <4>5. QED
          BY <1>7, <1>9, <4>4
      <3>3. QED
        BY <3>1, <3>2
    <2>2. ASSUME NEW x \in C, \A k \in 1..b : q[k] # x PROVE \E i \in 1..(a + c) : z[i] = x
      <3>1. PICK n \in 1..(a + b + c) : s[n] = x
        BY <1>5
      <3>2. ~(n > a /\ n <= a + b)
        <4>1. ASSUME n > a, n <= a + b PROVE FALSE
          <5>1. n - a \in 1..b /\ n - a + a = n
            BY <1>1, <4>1
          <5>2. q[n - a] = s[n - a + a]
            BY <1>9, <5>1
          <5>3. QED
            BY <2>2, <3>1, <5>1, <5>2
        <4>2. QED
          BY <4>1
      <3>3. CASE n <= a
        <4>1. n \in 1..(a + c) /\ at(n) = n
          BY <1>1, <3>3
        <4>2. QED
          BY <1>7, <3>1, <4>1
      <3>4. CASE n > a + b
        <4>1. n - b \in 1..(a + c) /\ at(n - b) = n
          BY <1>1, <3>4
        <4>2. QED
          BY <1>7, <3>1, <4>1
      <3>5. n <= a \/ n > a + b
        BY <1>1, <3>2
      <3>6. QED
        BY <3>3, <3>4, <3>5
    <2>3. QED
      BY <2>1, <2>2
  <1>11. QED
    BY <1>2, <1>4, <1>8, <1>10 DEF Ordered, z, b

----------------------------------------------------------------------------
\* The inductive invariant.

IInv ==
    /\ TypeOK
    /\ TasksRight /\ DbusRight /\ CacheRight
    /\ DeviceRight /\ BridgeRight
    /\ ConfregRight /\ CharsInOrder /\ dropped \subseteq 1..typed
    /\ OutputInOrder

\* CharsInOrder in terms of the lemmas above.
LEMMA Chars ==
    CharsInOrder <=> Ordered(rx \o ififo \o InHand, (1..typed) \ dropped)
  BY DEF CharsInOrder, Ordered

\* What the lemmas about the components ask for.
LEMMA InvParts ==
    ASSUME IInv
    PROVE  MasterRight /\ DeviceTypeOK /\ BridgeTypeOK /\ SimMemoryTypeOK /\ ConfregTypeOK
  BY DEF IInv, TypeOK, MasterRight

\* The invariant holds initially.
LEMMA InitHolds == Init => IInv
  <1> SUFFICES ASSUME Init PROVE IInv
    OBVIOUS
  <1>1. /\ ongoing = << >> /\ dbus = Quiet /\ dest = ZeroWord /\ aborted = FALSE
        /\ enable = TRUE /\ tx = Idle
        /\ in_issue = {} /\ saved_req = NoReq /\ count = 0 /\ axi = SlaveIdle
        /\ burst = NoReq /\ submitted = 0 /\ rx = << >>
        /\ put = [off \in OutputRegs |-> << >>]
        /\ master \in {"queue", "await", "cache"} /\ slave \in {"device", "axi"}
    BY DEF Init, PipelineInit, DeviceInit, BridgeInit
  <1>2. /\ ctx = NoFlags /\ ctx0 = None /\ kept = [off \in Kept |-> ZeroWord] /\ ififo = << >> /\ lock = "free"
        /\ reader = [at |-> "fgetc", c |-> None] /\ typed = 0
        /\ opty = << >> /\ printed = << >> /\ dropped = {}
    BY DEF Init, ConfregInit
  <1>3. mem \in Contents /\ saved_mem \in Contents
    BY MapTyped DEF Init, SimMemoryInit
  <1>4. \A S : << >> \in Seq(S)
    BY EmptyFacts
  <1>5. PipelineTypeOK /\ DeviceTypeOK
    <2>1. PipelineTypeOK
      BY <1>1, <1>4, ZeroTyped, QuietTyped DEF PipelineTypeOK
    <2>2. Idle \in Transaction
      BY DEF Idle, Transaction
    <2>3. QED
      BY <1>1, <2>1, <2>2 DEF DeviceTypeOK
  <1>6. BridgeTypeOK
    BY <1>1, <1>4, QuietTyped DEF BridgeTypeOK, SlaveIdle
  <1>7. ConfregTypeOK
    BY <1>2, <1>4, ZeroTyped, TypedAssumption DEF ConfregTypeOK, NoFlags
  <1>8. TypeOK
    BY <1>1, <1>3, <1>4, <1>5, <1>6, <1>7, QuietTyped, MaxOpsAssumption
       DEF TypeOK, SimMemoryTypeOK
  <1>9. TasksRight /\ DbusRight /\ CacheRight
    BY <1>1, EmptySeq DEF TasksRight, DbusRight, CacheRight, Front
  <1>10. DeviceRight /\ BridgeRight
    BY <1>1, <1>2 DEF DeviceRight, BridgeRight, Moving, Idle, NoFlags
  <1>11. ConfregRight
    BY <1>2 DEF ConfregRight, NoFlags
  <1>12. CharsInOrder /\ dropped \subseteq 1..typed
    <2>1. InHand = << >> /\ rx = << >> /\ ififo = << >>
      BY <1>1, <1>2 DEF InHand
    <2>2. << >> \o << >> \o << >> = << >>
      BY <1>4, ConcatEmptySeq
    <2>3. Ordered(<< >>, {})
      BY DEF Ordered
    <2>4. (1..typed) \ dropped = {}
      BY <1>2
    <2>5. QED
      BY <1>2, <2>1, <2>2, <2>3, <2>4, Chars
  <1>13. OutputInOrder
    BY <1>1, <1>2 DEF OutputInOrder, OutputRegs
  <1>14. QED
    BY <1>8, <1>9, <1>10, <1>11, <1>12, <1>13 DEF IInv

\* What keeps the parts of the invariant about the registers.
LEMMA ConfregSame ==
    ASSUME ConfregTypeOK, ConfregRight, CharsInOrder, dropped \subseteq 1..typed, OutputInOrder,
           UNCHANGED <<confregVars, rx, put>>
    PROVE  /\ ConfregTypeOK' /\ ConfregRight' /\ CharsInOrder' /\ (dropped \subseteq 1..typed)'
           /\ OutputInOrder' /\ ctx' = ctx
  <1>1. /\ UNCHANGED <<ctx, ctx0, kept, ififo, lock, reader, typed, opty, printed, dropped>>
        /\ UNCHANGED <<rx, put>>
    BY DEF confregVars
  <1>2. ConfregTypeOK'
    BY <1>1 DEF ConfregTypeOK
  <1>3. ConfregRight'
    BY <1>1 DEF ConfregRight
  <1>4. CharsInOrder'
    BY <1>1 DEF CharsInOrder, InHand
  <1>5. OutputInOrder'
    BY <1>1 DEF OutputInOrder
  <1>6. QED
    BY <1>1, <1>2, <1>3, <1>4, <1>5

----------------------------------------------------------------------------
\* The actions.

\* An access submitted to the queue keeps the invariant.
LEMMA SubmitAccessStep ==
    ASSUME IInv, NEW a \in Accesses, SubmitAccess(a)
    PROVE  IInv'
  <1> DEFINE t == TaskOf(a)
  <1>1. /\ ~aborted /\ submitted < MaxOps /\ Reachable(a.addr)
        /\ master \in {"queue", "await"} /\ (master = "await" => ongoing = << >>)
        /\ ongoing' = Append(ongoing, t) /\ dbus' = (IF busy THEN dbus ELSE issue(t))
        /\ dest' = dest /\ aborted' = aborted /\ submitted' = submitted + 1
    BY DEF SubmitAccess, submit
  <1>2. UNCHANGED <<deviceVars, bridgeVars, memoryVars, confregVars, master, slave, burst, rx, put>>
    BY DEF SubmitAccess
  <1>3. /\ MasterRight /\ DeviceTypeOK /\ BridgeTypeOK /\ SimMemoryTypeOK /\ ConfregTypeOK
        /\ ongoing \in Seq(Task) /\ TasksRight /\ burst = NoReq /\ dbus = Front(ongoing)
    BY <1>1, InvParts DEF MasterRight, PipelineTypeOK, DbusRight
  <1>4. Proper(a)
    BY <1>1, AccessesAssumption, MapAssumption DEF Proper
  <1>5. t \in Task /\ t.op = a /\ issue(t) \in DBusReq
    BY <1>4, TaskTyped, IssueTyped
  <1> HIDE DEF t
  <1>6. /\ ongoing' \in Seq(Task) /\ ongoing' # << >> /\ Len(ongoing) \in Nat
        /\ Len(ongoing') = Len(ongoing) + 1 /\ DOMAIN ongoing' = 1..(Len(ongoing) + 1)
        /\ DOMAIN ongoing = 1..Len(ongoing)
        /\ \A k \in 1..Len(ongoing) : ongoing'[k] = ongoing[k]
        /\ ongoing'[Len(ongoing) + 1] = t
        /\ Head(ongoing') = IF ongoing = << >> THEN t ELSE Head(ongoing)
    BY <1>1, <1>3, <1>5, AppendFacts
  <1>7. busy <=> ongoing # << >>
    BY <1>3 DEF busy, Front, Quiet, issue
  <1>8. dbus' = IF ongoing' = << >> THEN Quiet ELSE issue(Head(ongoing'))
    BY <1>1, <1>3, <1>6, <1>7 DEF Front
  <1>9. dbus' \in DBusReq
    BY <1>1, <1>3, <1>5 DEF MasterRight, PipelineTypeOK
  <1>10. PipelineTypeOK'
    BY <1>1, <1>3, <1>6, <1>9 DEF MasterRight, PipelineTypeOK
  <1>11. TasksRight'
    <2>1. ASSUME NEW k \in DOMAIN ongoing'
          PROVE  (Proper(ongoing[k].op) /\ ongoing[k] = TaskOf(ongoing[k].op))'
      <3>1. CASE k \in DOMAIN ongoing
        <4>1. Proper(ongoing[k].op) /\ ongoing[k] = TaskOf(ongoing[k].op)
          BY <1>3, <3>1 DEF TasksRight
        <4>2. (ongoing[k])' = ongoing[k]
          BY <1>6, <3>1
        <4>3. QED
          BY <1>2, <4>1, <4>2 DEF Proper, Reachable
      <3>2. CASE k = Len(ongoing) + 1
        <4>1. (ongoing[k])' = t /\ t.op = a /\ t = TaskOf(a)
          BY <1>5, <1>6, <3>2 DEF t
        <4>2. QED
          BY <1>2, <1>4, <4>1 DEF Proper, Reachable
      <3>3. QED
        BY <1>6, <3>1, <3>2
    <2>2. QED
      BY <2>1 DEF TasksRight
  <1>12. DbusRight' /\ CacheRight'
    <2>1. (dbus = Front(ongoing))'
      BY <1>8 DEF Front
    <2>2. master = "await" => Len(ongoing') <= 1
      <3>1. master = "await" => Len(ongoing) = 0
        BY <1>1, EmptySeq
      <3>2. QED
        BY <1>6, <3>1
    <2>3. QED
      BY <1>1, <1>2, <1>3, <2>1, <2>2 DEF DbusRight, CacheRight
  <1>13. ASSUME ongoing # << >>
         PROVE  req' = req /\ Head(ongoing') = Head(ongoing)
    <2>1. dbus' = dbus
      BY <1>1, <1>7, <1>13
    <2>2. QED
      BY <1>1, <1>2, <1>6, <1>13, <2>1 DEF req, CBusWrapper
  <1>14. /\ UNCHANGED <<enable, tx, in_issue, saved_req, count, axi, mem, saved_mem>>
         /\ UNCHANGED <<confregVars, rx, put>> /\ UNCHANGED <<master, slave, burst>>
    BY <1>2 DEF deviceVars, bridgeVars, memoryVars
  <1>15. DeviceTypeOK' /\ BridgeTypeOK' /\ SimMemoryTypeOK'
    BY <1>3, <1>14 DEF DeviceTypeOK, BridgeTypeOK, SimMemoryTypeOK
  <1>16. /\ ConfregTypeOK' /\ ConfregRight' /\ CharsInOrder' /\ (dropped \subseteq 1..typed)'
         /\ OutputInOrder' /\ ctx' = ctx
    BY <1>3, <1>14, ConfregSame DEF IInv
  <1>17. DeviceRight'
    <2>1. DeviceRight /\ master # "cache"
      BY <1>1 DEF IInv
    <2>2. QED
      BY <1>6, <1>13, <1>14, <2>1 DEF DeviceRight
  <1>18. BridgeRight'
    <2>1. BridgeRight /\ master # "cache"
      BY <1>1 DEF IInv
    <2>2. QED
      BY <1>6, <1>13, <1>14, <1>16, <2>1 DEF BridgeRight, Moving
  <1>19. TypeOK'
    <2>1. submitted' \in 0..MaxOps
      BY <1>1, MaxOpsAssumption DEF IInv, TypeOK
    <2>2. QED
      BY <1>10, <1>14, <1>15, <1>16, <2>1 DEF IInv, TypeOK
  <1>20. QED
    BY <1>11, <1>12, <1>16, <1>17, <1>18, <1>19 DEF IInv

\* The beats of a burst are proper accesses of its line.
LEMMA BeatsProper ==
    ASSUME NEW b \in Bursts, NEW k \in 1..Len(b.vals)
    PROVE  /\ Proper(Beats(b)[k]) /\ Beats(b)[k].kind = b.kind /\ Beats(b)[k].width = b.width
           /\ Beats(b)[k].addr = BeatAddress(b.addr, b.width, Len(b.vals), k - 1)
           /\ Beats(b)[k].val = b.vals[k]
           /\ LineInMemory(b.addr, b.width, Len(b.vals))
  <1> DEFINE n == Len(b.vals)
             addr == BeatAddress(b.addr, b.width, n, k - 1)
  <1>1. /\ b.kind \in {"get", "store"} /\ b.addr \in Nat /\ b.width \in Widths
        /\ b.vals \in Seq(Word) /\ n - 1 \in Lengths /\ b.addr % b.width = 0 /\ LineEnd(b) <= PageSize
    BY BurstsAssumption, MapAssumption DEF Burst
  <1>2. n \in 1..16 /\ n - 1 + 1 = n
    BY <1>1, EmptyFacts DEF Lengths
  <1>3. LineInMemory(b.addr, b.width, n)
    BY <1>1 DEF LineInMemory, LineEnd
  <1> HIDE DEF n
  <1>4. k \in 1..n
    BY DEF n
  <1>5. k - 1 \in 0..(n - 1)
    BY <1>2, <1>4
  <1>6. addr \in Nat /\ addr < PageSize /\ addr % b.width = 0
    <2>1. LineInMemory(b.addr, b.width, n - 1 + 1)
      BY <1>2, <1>3
    <2> HIDE DEF LineInMemory
    <2>2. /\ BeatAddress(b.addr, b.width, n - 1 + 1, k - 1) \in Nat
          /\ BeatAddress(b.addr, b.width, n - 1 + 1, k - 1) < PageSize
          /\ BeatAddress(b.addr, b.width, n - 1 + 1, k - 1) % b.width = 0
      BY <1>1, <1>5, <2>1, BeatInLine
    <2>3. QED
      BY <1>2, <2>2
  <1>7. Beats(b)[k] = [kind |-> b.kind, width |-> b.width, val |-> b.vals[k], addr |-> addr]
    BY <1>4 DEF Beats, n
  <1>8. b.vals[k] \in Word
    BY <1>1, ElementOfSeq DEF n
  <1> HIDE DEF addr
  <1>9. Beats(b)[k] \in Access
    BY <1>1, <1>6, <1>7, <1>8 DEF Access
  <1>10. addr \in Addresses
    BY <1>6, RamSizeAssumption DEF Addresses, PageSize
  <1>11. Proper(Beats(b)[k])
    BY <1>6, <1>7, <1>9, <1>10 DEF Proper, Reachable
  <1>12. QED
    BY <1>3, <1>7, <1>11 DEF n, addr

\* A burst that the cache starts keeps the invariant.
LEMMA SubmitBurstStep ==
    ASSUME IInv, NEW b \in Bursts, SubmitBurst(b)
    PROVE  IInv'
  <1> DEFINE n == Len(b.vals)
             T(k) == TaskOf(Beats(b)[k])
  <1>1. /\ submitted < MaxOps /\ master = "cache" /\ ~burst.valid
        /\ ongoing' = [k \in 1..n |-> T(k)]
        /\ burst' = [valid |-> TRUE, is_write |-> b.kind = "store", size |-> b.width,
                     addr |-> b.addr, len |-> n - 1,
                     strobe |-> ongoing'[1].strobe, data |-> ongoing'[1].data]
        /\ submitted' = submitted + 1
    BY DEF SubmitBurst
  <1>2. UNCHANGED <<dbus, dest, aborted, deviceVars, bridgeVars, memoryVars, confregVars,
                    master, slave, rx, put>>
    BY DEF SubmitBurst
  <1>3. /\ MasterRight /\ DeviceTypeOK /\ BridgeTypeOK /\ SimMemoryTypeOK /\ ConfregTypeOK
        /\ dbus = Quiet /\ ~aborted /\ ongoing = << >>
    BY <1>1, InvParts DEF MasterRight, CacheRight
  <1>4. /\ b.kind \in {"get", "store"} /\ b.addr \in Nat /\ b.width \in Widths
        /\ n - 1 \in Lengths /\ n \in 1..16
    BY BurstsAssumption, EmptyFacts DEF Burst, Lengths
  <1>5. ASSUME NEW k \in 1..n
        PROVE  /\ T(k) \in Task /\ T(k).op = Beats(b)[k] /\ T(k) = TaskOf(T(k).op)
               /\ Proper(Beats(b)[k]) /\ T(k).op.kind = b.kind /\ T(k).op.width = b.width
               /\ T(k).op.addr = BeatAddress(b.addr, b.width, n, k - 1)
               /\ LineInMemory(b.addr, b.width, n)
    BY BeatsProper, TaskTyped
  <1> HIDE DEF n, T
  <1>6. /\ ongoing' \in Seq(Task) /\ Len(ongoing') = n /\ DOMAIN ongoing' = 1..n
        /\ ongoing' # << >> /\ \A k \in 1..n : ongoing'[k] = T(k)
    <2>1. ongoing' \in [1..n -> Task]
      BY <1>1, <1>5
    <2>2. QED
      BY <1>1, <1>4, <2>1
  <1>7. Head(ongoing') = ongoing'[1] /\ 1 \in 1..n /\ ongoing'[1] = T(1)
    BY <1>4, <1>6, TailFacts
  <1>8. burst' \in CBusReq
    <2>1. T(1).strobe \in SUBSET Lanes /\ T(1).data \in Word
      BY <1>5, <1>7 DEF Task
    <2>2. QED
      BY <1>1, <1>4, <1>7, <2>1 DEF CBusReq
  <1>9. PipelineTypeOK'
    BY <1>2, <1>3, <1>6 DEF MasterRight, PipelineTypeOK
  <1>10. TasksRight'
    <2>1. ASSUME NEW k \in DOMAIN ongoing'
          PROVE  (Proper(ongoing[k].op) /\ ongoing[k] = TaskOf(ongoing[k].op))'
      <3>1. (ongoing[k])' = T(k) /\ T(k) = TaskOf(T(k).op) /\ Proper(T(k).op)
        BY <1>5, <1>6
      <3>2. QED
        BY <1>2, <3>1 DEF Proper, Reachable
    <2>2. QED
      BY <2>1 DEF TasksRight
  <1>11. Done' = 0
    <2>1. burst'.len = n - 1
      BY <1>1
    <2>2. burst'.len + 1 - Len(ongoing') = 0
      BY <1>4, <1>6, <2>1
    <2>3. QED
      BY <2>2 DEF Done
  <1>12. DbusRight' /\ CacheRight'
    <2>1. DbusRight'
      BY <1>1, <1>2 DEF DbusRight
    <2>2. /\ burst'.valid /\ burst'.is_write = (b.kind = "store") /\ burst'.size = b.width
          /\ burst'.addr = b.addr /\ burst'.len + 1 = n
          /\ burst'.strobe = Head(ongoing').strobe /\ burst'.data = Head(ongoing').data
      BY <1>1, <1>4, <1>7
    <2>3. (LineInMemory(burst.addr, burst.size, burst.len + 1))'
      BY <1>5, <1>7, <2>2 DEF LineInMemory
    <2>4. ASSUME NEW k \in DOMAIN ongoing'
          PROVE  (/\ ongoing[k].op.kind = (IF burst.is_write THEN "store" ELSE "get")
                  /\ ongoing[k].op.width = burst.size
                  /\ ongoing[k].op.addr
                        = BeatAddress(burst.addr, burst.size, burst.len + 1, Done + k - 1))'
      <3>1. k \in 1..n /\ ongoing'[k] = T(k)
        BY <1>6
      <3>2. Done' + k - 1 = k - 1
        BY <1>4, <1>11, <3>1
      <3>3. b.kind = IF b.kind = "store" THEN "store" ELSE "get"
        BY <1>4
      <3>4. BeatAddress(burst'.addr, burst'.size, burst'.len + 1, Done' + k - 1)
              = BeatAddress(b.addr, b.width, n, k - 1)
        BY <2>2, <3>2
      <3>5. (ongoing[k])' = T(k)
        BY <3>1
      <3>6. (ongoing[k].op.kind = (IF burst.is_write THEN "store" ELSE "get"))'
        <4>1. (ongoing[k].op.kind)' = b.kind
          BY <1>5, <3>1, <3>5
        <4>2. burst'.is_write = (b.kind = "store")
          BY <2>2
        <4>3. QED
          BY <3>3, <4>1, <4>2
      <3>7. (ongoing[k].op.width = burst.size)'
        BY <1>5, <2>2, <3>1, <3>5
      <3>8. (ongoing[k].op.addr
                = BeatAddress(burst.addr, burst.size, burst.len + 1, Done + k - 1))'
        <4>1. (ongoing[k].op.addr)' = BeatAddress(b.addr, b.width, n, k - 1)
          BY <1>5, <3>1, <3>5
        <4>2. QED
          BY <3>4, <4>1 DEF BeatAddress
      <3>9. QED
        BY <3>6, <3>7, <3>8
    <2>5. QED
      BY <1>2, <1>3, <1>6, <1>11, <2>1, <2>2, <2>3, <2>4 DEF CacheRight
  <1>13. /\ UNCHANGED <<enable, tx, in_issue, saved_req, count, axi, mem, saved_mem>>
         /\ UNCHANGED <<confregVars, rx, put>> /\ UNCHANGED <<master, slave>>
    BY <1>2 DEF deviceVars, bridgeVars, memoryVars
  <1>14. DeviceTypeOK' /\ BridgeTypeOK' /\ SimMemoryTypeOK'
    BY <1>3, <1>13 DEF DeviceTypeOK, BridgeTypeOK, SimMemoryTypeOK
  <1>15. /\ ConfregTypeOK' /\ ConfregRight' /\ CharsInOrder' /\ (dropped \subseteq 1..typed)'
         /\ OutputInOrder' /\ ctx' = ctx
    BY <1>3, <1>13, ConfregSame DEF IInv
  <1>16. DeviceRight'
    <2>1. DeviceRight
      BY DEF IInv
    <2>2. slave = "device" => ~tx.busy /\ tx = Idle
      BY <1>3, <2>1 DEF DeviceRight
    <2>3. QED
      BY <1>11, <1>13, <2>1, <2>2 DEF DeviceRight
  <1>17. BridgeRight'
    <2>1. BridgeRight
      BY DEF IInv
    <2>2. slave = "axi" => ~Moving
      BY <1>3, <2>1 DEF BridgeRight
    <2>3. QED
      BY <1>11, <1>13, <1>15, <2>1, <2>2 DEF BridgeRight, Moving
  <1>18. TypeOK'
    <2>1. submitted' \in 0..MaxOps
      BY <1>1, MaxOpsAssumption DEF IInv, TypeOK
    <2>2. QED
      BY <1>8, <1>9, <1>13, <1>14, <1>15, <2>1 DEF IInv, TypeOK
  <1>19. QED
    BY <1>10, <1>12, <1>15, <1>16, <1>17, <1>18 DEF IInv

----------------------------------------------------------------------------
\* A cycle with the simulated system on a chip.

\* The device works at the address of the front access.
LEMMA DeviceAt ==
    ASSUME MasterRight, DeviceRight, slave = "device", answers
    PROVE  /\ ongoing # << >> /\ Proper(Head(ongoing).op) /\ tx.addr = Head(ongoing).op.addr
           /\ tx.addr \in Addresses /\ tx.is_write = (Head(ongoing).op.kind = "store")
           /\ Head(ongoing).op \in Access
  <1>1. /\ ongoing # << >> /\ tx.addr = Head(ongoing).op.addr /\ tx.is_write = req.is_write
    BY DEF DeviceRight, answers
  <1>2. Proper(Head(ongoing).op)
    BY <1>1, HeadTask
  <1>3. req.is_write = (Head(ongoing).op.kind = "store")
    BY <1>1, RequestRight
  <1>4. QED
    BY <1>1, <1>2, <1>3 DEF Proper

\* A byte in the low bits is a word.
LEMMA LowByteTyped ==
    ASSUME NEW b \in Byte
    PROVE  LowByte(b) \in Word
  BY ByteAssumption DEF LowByte, ZeroWord, Word

\* A load of a register yields a word.
LEMMA LoadRegTyped ==
    ASSUME ConfregTypeOK, ConfregRight, NEW off
    PROVE  LoadReg(off) \in Word
  <1>1. ASSUME NEW b \in Byte PROVE LowByte(b) \in Word
    BY LowByteTyped
  <1>2. 0 \in Byte /\ kept \in [Kept -> Word] /\ ZeroWord \in Word
    BY ByteAssumption, ZeroTyped DEF ConfregTypeOK
  <1>3. ASSUME ctx.uart_avail PROVE Head(ififo) \in Byte /\ 1 \in Byte
    <2>1. ififo # << >> /\ ififo \in Seq(Char)
      BY <1>3 DEF ConfregTypeOK, ConfregRight
    <2>2. Head(ififo) \in Char
      BY <2>1, TailFacts
    <2>3. QED
      BY <2>2, TypedAssumption DEF Char
  <1>4. LowByte(IF ctx.uart_avail THEN 1 ELSE 0) \in Word
    BY <1>1, <1>2, <1>3
  <1>5. (IF fetches(off) THEN LowByte(Head(ififo)) ELSE ZeroWord) \in Word
    BY <1>1, <1>2, <1>3 DEF fetches
  <1>6. QED
    BY <1>2, <1>4, <1>5 DEF LoadReg

\* What the router loads for a transaction is a word.
LEMMA WordTyped ==
    ASSUME MasterRight, DeviceRight, slave = "device", answers,
           ConfregTypeOK, ConfregRight, SimMemoryTypeOK
    PROVE  WordAt(tx.addr) \in Word
  <1>1. tx.addr \in Addresses
    BY DeviceAt
  <1>2. CASE IsConf(tx.addr)
    BY <1>2, LoadRegTyped DEF WordAt
  <1>3. CASE ~IsConf(tx.addr)
    <2>1. translate(tx.addr) \div 8 \in Words
      BY <1>1, <1>3, Search
    <2>2. load(translate(tx.addr)) \in Word
      BY <2>1 DEF load, SimMemoryTypeOK, Contents
    <2>3. QED
      BY <1>3, <2>2 DEF WordAt
  <1>4. QED
    BY <1>2, <1>3

\* The device stores to a register exactly when a store to that register is answered, and
\* the character is on the low lane.
LEMMA SendsRight ==
    ASSUME MasterRight, DeviceRight, slave = "device", NEW off \in OutputRegs
    PROVE  /\ (ConfAccess = "store" /\ Off = off) <=> (answers /\ sends(Head(ongoing).op, off))
           /\ ConfAccess = "store" /\ Off = off => req.data[0] = Head(ongoing).op.val[0]
  <1> DEFINE a == Head(ongoing).op
  <1>1. CASE ~answers
    BY <1>1 DEF ConfAccess
  <1>2. CASE answers
    <2>1. /\ ongoing # << >> /\ Proper(a) /\ tx.addr = a.addr /\ tx.addr \in Addresses
          /\ tx.is_write = (a.kind = "store") /\ a \in Access
      BY <1>2, DeviceAt
    <2>2. IsConf(tx.addr) <=> IsDevice(a.addr)
      BY <2>1, Search
    <2>3. ConfAccess = "store" <=> (IsConf(tx.addr) /\ tx.is_write)
      BY <1>2 DEF ConfAccess
    <2>4. (ConfAccess = "store" /\ Off = off) <=> sends(a, off)
      BY <2>1, <2>2, <2>3 DEF sends, Off
    <2>5. ASSUME ConfAccess = "store", Off = off PROVE req.data[0] = a.val[0]
      <3>1. sends(a, off)
        BY <2>4, <2>5
      <3>2. a.kind = "store" /\ Head(ongoing) = TaskOf(a)
        BY <2>1, <3>1, HeadTask DEF sends
      <3>3. req.data = place(parse(a.width, a.addr), a.val)
        BY <2>1, <3>2, RequestRight, TaskTyped
      <3>4. a.addr % 8 = 0
        <4>1. 2 * RamSize <= a.addr
          BY <2>1, <3>1, Search DEF sends
        <4>2. a.addr - 2 * RamSize = off
          BY <2>1, <2>5, <4>1, PageCases DEF Off
        <4>3. off \in {0, 8}
          BY DEF OutputRegs, UART_TXD, VIRTUAL_UART
        <4>4. a.addr = off + 2 * RamSize
          BY <2>1, <4>2, <4>3, PageCases
        <4>5. QED
          BY <4>3, <4>4, RamSizeAssumption
      <3>5. parse(a.width, a.addr).lane = 0
        <4>1. a.width \in Widths /\ a.addr \in Nat /\ a.addr % a.width = 0
          BY <2>1 DEF Proper, Access
        <4>2. QED
          BY <3>4, <4>1, ParseTyped
      <3>6. 0 \in Lanes /\ 0 >= 0 /\ 0 - 0 = 0
        BY DEF Lanes
      <3>7. place(parse(a.width, a.addr), a.val)[0] = a.val[0]
        BY <3>5, <3>6 DEF place
      <3>8. QED
        BY <3>3, <3>7
    <2>6. QED
      BY <1>2, <2>4, <2>5
  <1>3. QED
    BY <1>1, <1>2

\* The registers in one cycle of the device, where s is what it is given.
LEMMA RegistersTick ==
    ASSUME ConfregTypeOK, ConfregRight, CharsInOrder, dropped \subseteq 1..typed,
           rx \in Seq(Char), NEW access, NEW off, NEW data \in Word,
           ConfregTick(access, off, data),
           rx' = IF access = "load" /\ fetches(off) THEN Append(rx, Head(ififo)) ELSE rx
    PROVE  /\ ConfregTypeOK' /\ ConfregRight' /\ CharsInOrder' /\ (dropped \subseteq 1..typed)'
           /\ rx' \in Seq(Char)
           /\ opty' = IF access = "store" /\ off = UART_TXD THEN Append(opty, data[0]) ELSE opty
           /\ printed' = IF access = "store" /\ off = VIRTUAL_UART THEN Append(printed, data[0])
                         ELSE printed
  <1> DEFINE fetched == access = "load" /\ fetches(off)
             c == IF access = "store" THEN Written(off, data) ELSE ctx
  <1>1. /\ ififo' = IF fetched THEN Tail(ififo) ELSE ififo
        /\ opty' = IF c.uart_written # None THEN Append(opty, c.uart_written) ELSE opty
        /\ ctx0' = c.vuart_written
        /\ ctx' = [NoFlags EXCEPT !.uart_avail = (ififo' # << >>)]
        /\ printed' = IF ctx0' # None THEN Append(printed, ctx0') ELSE printed
        /\ kept' = IF access = "store" /\ off \in Kept
                   THEN [kept EXCEPT ![off] = IF off = VIRTUAL_UART THEN LowByte(data[0])
                                              ELSE data]
                   ELSE kept
        /\ UNCHANGED <<lock, reader, typed, dropped>>
        /\ rx' = IF fetched THEN Append(rx, Head(ififo)) ELSE rx
    BY DEF ConfregTick, sync
  <1>2. /\ ctx \in [uart_avail: BOOLEAN, uart_written: Byte \cup {None},
                    vuart_written: Byte \cup {None}]
        /\ ctx.uart_written = None /\ ctx.vuart_written = None
        /\ ctx.uart_avail => ififo # << >>
        /\ ififo \in Seq(Char) /\ opty \in Seq(Byte) /\ printed \in Seq(Byte)
    BY DEF ConfregTypeOK, ConfregRight
  <1>3. data[0] \in Byte /\ None \notin Byte
    BY ByteAssumption DEF Word, Lanes, None
  <1>4. /\ c.uart_written = IF access = "store" /\ off = UART_TXD THEN data[0] ELSE None
        /\ c.vuart_written = IF access = "store" /\ off = VIRTUAL_UART THEN data[0] ELSE None
    <2>1. CASE access = "store"
      <3>1. /\ Written(off, data).uart_written
                 = IF off = UART_TXD THEN data[0] ELSE ctx.uart_written
            /\ Written(off, data).vuart_written
                 = IF off = VIRTUAL_UART THEN data[0] ELSE ctx.vuart_written
        <4>1. \A x, y : [ctx EXCEPT !.uart_written = x, !.vuart_written = y].uart_written = x
          BY <1>2
        <4>2. \A x, y : [ctx EXCEPT !.uart_written = x, !.vuart_written = y].vuart_written = y
          BY <1>2
        <4>3. QED
          BY <4>1, <4>2 DEF Written
      <3>2. QED
        BY <1>2, <2>1, <3>1
    <2>2. CASE access # "store"
      BY <1>2, <2>2
    <2>3. QED
      BY <2>1, <2>2
  <1> HIDE DEF c
  <1>5. fetched => ififo # << >>
    BY <1>2 DEF fetches
  <1> HIDE DEF fetched
  <1>6. /\ opty' = IF access = "store" /\ off = UART_TXD THEN Append(opty, data[0]) ELSE opty
        /\ printed' = IF access = "store" /\ off = VIRTUAL_UART THEN Append(printed, data[0])
                      ELSE printed
    BY <1>1, <1>3, <1>4
  <1>7. opty' \in Seq(Byte) /\ printed' \in Seq(Byte) /\ ctx0' \in Byte \cup {None}
    BY <1>1, <1>2, <1>3, <1>4, <1>6, AppendFacts
  <1>8. ififo' \in Seq(Char) /\ rx' \in Seq(Char)
    BY <1>1, <1>2, <1>5, AppendFacts, TailFacts
  <1>9. ctx' = [uart_avail |-> (ififo' # << >>), uart_written |-> None, vuart_written |-> None]
    BY <1>1 DEF NoFlags
  <1>10. ConfregTypeOK'
    <2>1. /\ kept' \in [Kept -> Word] /\ lock' = lock /\ reader' = reader /\ typed' = typed
          /\ dropped' = dropped
      <3>1. LowByte(data[0]) \in Word /\ kept \in [Kept -> Word]
        BY <1>3, LowByteTyped DEF ConfregTypeOK
      <3>2. QED
        BY <1>1, <3>1
    <2>2. ctx' \in [uart_avail: BOOLEAN, uart_written: Byte \cup {None},
                    vuart_written: Byte \cup {None}]
      BY <1>9
    <2>3. QED
      BY <1>7, <1>8, <2>1, <2>2 DEF ConfregTypeOK
  <1>11. ConfregRight'
    <2>1. ctx'.uart_written = None /\ ctx'.vuart_written = None /\ (ctx'.uart_avail => ififo' # << >>)
      BY <1>9
    <2>2. reader' = reader /\ typed' = typed
      BY <1>1
    <2>3. QED
      BY <2>1, <2>2 DEF ConfregRight
  <1>12. CharsInOrder'
    <2>1. Ordered(rx \o ififo \o InHand, (1..typed) \ dropped)
      BY Chars
    <2>2. InHand' = InHand /\ InHand \in Seq(Char)
      <3>1. reader.c \in Char \cup {None}
        BY DEF ConfregTypeOK
      <3>2. InHand \in Seq(Char)
        BY <3>1, EmptyFacts DEF InHand
      <3>3. QED
        BY <1>1, <3>2 DEF InHand
    <2>3. rx' \o ififo' \o InHand' = rx \o ififo \o InHand
      <3>1. CASE fetched
        <4>1. rx' = Append(rx, Head(ififo)) /\ ififo' = Tail(ififo) /\ ififo # << >>
          BY <1>1, <1>5, <3>1
        <4>2. rx \in Seq(Char) /\ ififo \in Seq(Char) /\ InHand \in Seq(Char) /\ InHand' = InHand
          BY <1>2, <2>2
        <4> HIDE DEF InHand
        <4>3. Append(rx, Head(ififo)) \o Tail(ififo) \o InHand = rx \o ififo \o InHand
          BY ONLY <4>1, <4>2, Taken
        <4>4. QED
          BY <4>1, <4>2, <4>3
      <3>2. CASE ~fetched
        BY <1>1, <2>2, <3>2
      <3>3. QED
        BY <3>1, <3>2
    <2>4. Ordered(rx' \o ififo' \o InHand', (1..typed') \ dropped')
      BY <1>1, <2>1, <2>3
    <2>5. (CharsInOrder <=> Ordered(rx \o ififo \o InHand, (1..typed) \ dropped))'
      BY Chars, PTL
    <2>6. QED
      BY <2>4, <2>5 DEF Ordered
  <1>13. QED
    BY <1>1, <1>6, <1>8, <1>10, <1>11, <1>12

\* A cycle of the simulated system on a chip keeps the invariant.
LEMMA SocTickStep ==
    ASSUME IInv, SocTick
    PROVE  IInv'
  <1>1. /\ slave = "device" /\ MasterTick(eval_resp(WordAt(tx.addr))) /\ DeviceTick(req)
        /\ ConfregTick(ConfAccess, Off, req.data)
        /\ rx' = (IF ConfAccess = "load" /\ fetches(Off) THEN Append(rx, Head(ififo)) ELSE rx)
        /\ put' = (IF ongoing' = ongoing THEN put
                   ELSE [off \in OutputRegs |->
                            IF sends(Head(ongoing).op, off)
                            THEN Append(put[off], Head(ongoing).op.val[0]) ELSE put[off]])
        /\ saved_mem' = saved_mem /\ UNCHANGED bridgeVars /\ master' = master /\ slave' = slave
        /\ submitted' = submitted
    BY DEF SocTick
  <1>2. /\ MasterRight /\ DeviceTypeOK /\ BridgeTypeOK /\ SimMemoryTypeOK /\ ConfregTypeOK
        /\ DeviceRight /\ ConfregRight /\ CharsInOrder /\ dropped \subseteq 1..typed
        /\ OutputInOrder /\ rx \in Seq(Char) /\ put \in [OutputRegs -> Seq(Byte)]
        /\ submitted \in 0..MaxOps
    BY InvParts DEF IInv, TypeOK
  <1>3. req \in CBusReq /\ req.data \in Word
    BY <1>2, RequestRight DEF CBusReq
  <1>4. /\ MasterRight' /\ DeviceTypeOK' /\ DeviceRight'
        /\ answers => ongoing' = Tail(ongoing) /\ ongoing' # ongoing
        /\ ~answers => ongoing' = ongoing
    <2> DEFINE word == WordAt(tx.addr)
    <2>1. answers => word \in Word
      BY <1>1, <1>2, WordTyped
    <2>2. MasterTick(eval_resp(word))
      BY <1>1
    <2> HIDE DEF word
    <2>3. QED
      BY <1>1, <1>2, <2>1, <2>2, DeviceStep
  <1>5. BridgeTypeOK' /\ BridgeRight'
    <2>1. BridgeTypeOK'
      BY <1>1, <1>2 DEF BridgeTypeOK, bridgeVars
    <2>2. BridgeRight'
      BY <1>1 DEF BridgeRight
    <2>3. QED
      BY <2>1, <2>2
  <1>6. SimMemoryTypeOK'
    <2>1. mem \in Contents /\ saved_mem \in Contents
      BY <1>2 DEF SimMemoryTypeOK
    <2>2. CASE stores /\ ~IsConf(tx.addr)
      <3> DEFINE i == translate(tx.addr) \div 8
      <3>1. mem' = [mem EXCEPT ![i] = Merge(mem[i], req.data, req.strobe)]
        BY <1>1, <2>2 DEF SocTick, store
      <3> HIDE DEF i
      <3>2. i \in Words => Merge(mem[i], req.data, req.strobe) \in Word
        BY <1>3, <2>1, MergeTyped DEF Contents
      <3>3. mem' \in Contents
        BY <2>1, <3>1, <3>2, StoreTyped
      <3>4. QED
        BY <1>1, <2>1, <3>3 DEF SimMemoryTypeOK
    <2>3. CASE ~(stores /\ ~IsConf(tx.addr))
      BY <1>1, <2>1, <2>3 DEF SocTick, SimMemoryTypeOK
    <2>4. QED
      BY <2>2, <2>3
  <1>7. /\ ConfregTypeOK' /\ ConfregRight' /\ CharsInOrder' /\ (dropped \subseteq 1..typed)'
        /\ rx' \in Seq(Char)
        /\ opty' = (IF ConfAccess = "store" /\ Off = UART_TXD THEN Append(opty, req.data[0]) ELSE opty)
        /\ printed' = (IF ConfAccess = "store" /\ Off = VIRTUAL_UART
                       THEN Append(printed, req.data[0]) ELSE printed)
    BY <1>1, <1>2, <1>3, RegistersTick
  <1>8. put' \in [OutputRegs -> Seq(Byte)] /\ OutputInOrder'
    <2>1. UART_TXD \in OutputRegs /\ VIRTUAL_UART \in OutputRegs
      BY DEF OutputRegs
    <2>2. opty = put[UART_TXD] /\ printed = put[VIRTUAL_UART]
      BY <1>2 DEF OutputInOrder
    <2>3. CASE ~answers
      <3>1. put' = put
        BY <1>1, <1>4, <2>3
      <3>2. ConfAccess # "store"
        BY <2>3 DEF ConfAccess
      <3>3. QED
        BY <1>2, <1>7, <2>2, <3>1, <3>2 DEF OutputInOrder
    <2>4. CASE answers
      <3> DEFINE a == Head(ongoing).op
      <3>1. put' = [off \in OutputRegs |->
                       IF sends(a, off) THEN Append(put[off], a.val[0]) ELSE put[off]]
        BY <1>1, <1>4, <2>4
      <3>2. a.val[0] \in Byte
        <4>1. a \in Access
          BY <1>1, <1>2, <2>4, DeviceAt
        <4>2. QED
          BY <4>1 DEF Access, Word, Lanes
      <3> HIDE DEF a
      <3>3. put' \in [OutputRegs -> Seq(Byte)]
        <4>1. ASSUME NEW off \in OutputRegs
              PROVE  (IF sends(a, off) THEN Append(put[off], a.val[0]) ELSE put[off]) \in Seq(Byte)
          <5>1. put[off] \in Seq(Byte)
            BY <1>2
          <5>2. Append(put[off], a.val[0]) \in Seq(Byte)
            BY <3>2, <5>1, AppendFacts
          <5>3. QED
            BY <5>1, <5>2
        <4>2. QED
          BY <3>1, <4>1
      <3>4. ASSUME NEW off \in OutputRegs
            PROVE  /\ (ConfAccess = "store" /\ Off = off) <=> sends(a, off)
                   /\ ConfAccess = "store" /\ Off = off => req.data[0] = a.val[0]
        BY <1>1, <1>2, <2>4, SendsRight DEF a
      <3>5. opty' = put'[UART_TXD]
        BY <1>7, <2>1, <2>2, <3>1, <3>4
      <3>6. printed' = put'[VIRTUAL_UART]
        BY <1>7, <2>1, <2>2, <3>1, <3>4
      <3>7. QED
        BY <3>3, <3>5, <3>6 DEF OutputInOrder
    <2>5. QED
      BY <2>3, <2>4
  <1>9. TypeOK'
    <2>1. MasterRight' => PipelineTypeOK' /\ burst' \in CBusReq /\ master' \in {"queue", "await", "cache"}
                          /\ slave' \in {"device", "axi"}
      BY DEF MasterRight
    <2>2. submitted' \in 0..MaxOps
      BY <1>1, <1>2
    <2>3. QED
      BY <1>4, <1>5, <1>6, <1>7, <1>8, <2>1, <2>2 DEF TypeOK
  <1>10. TasksRight' /\ DbusRight' /\ CacheRight'
    BY <1>4 DEF MasterRight
  <1>11. QED
    BY <1>4, <1>5, <1>7, <1>8, <1>9, <1>10 DEF IInv

\* The reset between tests keeps the invariant.
LEMMA ResetSocStep ==
    ASSUME IInv, ResetSoc
    PROVE  IInv'
  <1>1. /\ slave = "device" /\ ongoing = << >> /\ tx' = Idle /\ enable' = enable
        /\ mem' = saved_mem /\ saved_mem' = saved_mem
        /\ ctx' = NoFlags /\ ctx0' = None /\ ififo' = << >>
        /\ kept' = [off \in Kept |-> ZeroWord]
        /\ dropped' = dropped \cup {ififo[i] : i \in DOMAIN ififo}
        /\ UNCHANGED <<lock, reader, typed, opty, printed>>
        /\ UNCHANGED <<ongoing, dbus, dest, aborted>>
        /\ UNCHANGED <<in_issue, saved_req, count, axi>>
        /\ UNCHANGED <<master, slave, burst, submitted, rx, put>>
    BY DEF ResetSoc, DeviceReset, MemoryReset, ConfregReset, pipelineVars, bridgeVars
  <1>2. /\ PipelineTypeOK /\ DeviceTypeOK /\ BridgeTypeOK /\ SimMemoryTypeOK /\ ConfregTypeOK
        /\ rx \in Seq(Char) /\ Idle \in Transaction /\ burst \in CBusReq
    BY InvParts DEF IInv, TypeOK, MasterRight, Idle, Transaction
  <1>3. /\ rx \in Seq(Char) /\ ififo \in Seq(Char) /\ << >> \in Seq(Char)
        /\ InHand \in Seq(Char) /\ InHand' = InHand
    <2>1. reader.c \in Char \cup {None} /\ ififo \in Seq(Char)
      BY <1>2 DEF ConfregTypeOK
    <2>2. QED
      BY <1>1, <1>2, <2>1, EmptyFacts DEF InHand
  <1>4. \A i \in DOMAIN ififo : ififo[i] \in Char
    BY <1>3, ElementOfSeq
  <1>5. ConfregTypeOK'
    <2>1. ctx' \in [uart_avail: BOOLEAN, uart_written: Byte \cup {None},
                    vuart_written: Byte \cup {None}]
      BY <1>1 DEF NoFlags
    <2>2. dropped' \in SUBSET Char /\ kept' \in [Kept -> Word] /\ ctx0' \in Byte \cup {None}
      BY <1>1, <1>2, <1>4, ZeroTyped DEF ConfregTypeOK
    <2>3. QED
      BY <1>1, <1>2, <1>3, <2>1, <2>2 DEF ConfregTypeOK
  <1>6. ConfregRight'
    <2>1. ConfregRight
      BY DEF IInv
    <2>2. QED
      BY <1>1, <2>1 DEF ConfregRight, NoFlags
  <1>7. CharsInOrder' /\ (dropped \subseteq 1..typed)'
    <2> DEFINE D == {ififo[i] : i \in DOMAIN ififo}
               C == (1..typed) \ dropped
    <2>1. Ordered(rx \o ififo \o InHand, C)
      BY Chars DEF IInv
    <2>2. rx \in Seq(Nat) /\ ififo \in Seq(Nat) /\ InHand \in Seq(Nat) /\ Char \subseteq Nat
      <3>1. Char \subseteq Nat
        BY TypedAssumption DEF Char
      <3>2. ASSUME NEW s \in Seq(Char) PROVE s \in Seq(Nat)
        <4>1. Len(s) \in Nat /\ s \in [1..Len(s) -> Char]
          BY LenProperties
        <4>2. s \in [1..Len(s) -> Nat]
          BY <3>1, <4>1
        <4>3. QED
          BY <4>1, <4>2
      <3>3. QED
        BY <1>3, <3>1, <3>2
    <2>3. Ordered(rx \o << >> \o InHand, C \ D)
      BY <2>1, <2>2, Dropped
    <2>4. C \ D = ((1..typed) \ dropped)'
      BY <1>1
    <2>5. Ordered(rx' \o ififo' \o InHand', (1..typed') \ dropped')
      BY <1>1, <1>3, <2>3, <2>4
    <2>6. (CharsInOrder <=> Ordered(rx \o ififo \o InHand, (1..typed) \ dropped))'
      BY Chars, PTL
    <2>7. D \subseteq 1..typed
      <3>1. {(rx \o ififo \o InHand)[k] : k \in DOMAIN (rx \o ififo \o InHand)} = C
        BY <2>1 DEF Ordered
      <3> DEFINE a == Len(rx)
                 b == Len(ififo)
                 c == Len(InHand)
                 s == rx \o ififo \o InHand
      <3>2. /\ DOMAIN s = 1..(a + b + c) /\ a \in Nat /\ b \in Nat /\ c \in Nat
            /\ \A i \in 1..(a + b + c) :
                   s[i] = IF i <= a THEN rx[i] ELSE IF i <= a + b THEN ififo[i - a]
                          ELSE InHand[i - (a + b)]
        BY <1>3, Three
      <3>3. DOMAIN ififo = 1..b
        BY <1>3, EmptyFacts
      <3> HIDE DEF s, a, b, c
      <3>4. ASSUME NEW i \in DOMAIN ififo PROVE ififo[i] \in 1..typed
        <4>1. i \in 1..b
          BY <3>3
        <4> DEFINE j == a + i
        <4>2. j \in 1..(a + b + c) /\ ~(j <= a) /\ j <= a + b /\ j - a = i
          BY <3>2, <4>1
        <4> HIDE DEF j
        <4>3. s[j] = ififo[j - a]
          BY <3>2, <4>2
        <4>4. s[j] = ififo[i]
          BY <4>2, <4>3
        <4>5. s[j] \in C
          BY <3>1, <3>2, <4>2 DEF s
        <4>6. QED
          BY <4>4, <4>5
      <3>5. QED
        BY <3>4
    <2>8. dropped \subseteq 1..typed
      BY DEF IInv
    <2>9. QED
      BY <1>1, <2>5, <2>6, <2>7, <2>8 DEF Ordered
  <1>8. PipelineTypeOK' /\ BridgeTypeOK'
    BY <1>1, <1>2 DEF PipelineTypeOK, BridgeTypeOK
  <1>9. DeviceTypeOK' /\ SimMemoryTypeOK'
    BY <1>1, <1>2 DEF DeviceTypeOK, SimMemoryTypeOK
  <1>10. TypeOK'
    BY <1>1, <1>5, <1>8, <1>9 DEF IInv, TypeOK
  <1>11. OutputInOrder'
    BY <1>1 DEF IInv, OutputInOrder
  <1>12. TasksRight' /\ DbusRight' /\ CacheRight'
    <2>1. TasksRight /\ DbusRight /\ CacheRight
      BY DEF IInv
    <2>2. TasksRight'
      BY <1>1, <2>1 DEF TasksRight, Proper, Reachable
    <2>3. DbusRight'
      BY <1>1, <2>1 DEF DbusRight, Front
    <2>4. CacheRight'
      BY <1>1, <2>1 DEF CacheRight
    <2>5. QED
      BY <2>2, <2>3, <2>4
  <1>13. DeviceRight'
    <2>1. DeviceRight
      BY DEF IInv
    <2>2. ~Idle.busy
      BY DEF Idle
    <2>3. QED
      BY <1>1, <2>1, <2>2 DEF DeviceRight
  <1>14. BridgeRight'
    BY <1>1 DEF BridgeRight
  <1>15. QED
    BY <1>6, <1>7, <1>10, <1>11, <1>12, <1>13, <1>14 DEF IInv

----------------------------------------------------------------------------
\* The thread that reads the terminal.

\* A step that changes the registers only.
LEMMA RegistersOnly ==
    ASSUME IInv, UNCHANGED <<pipelineVars, deviceVars, bridgeVars, memoryVars,
                             master, slave, burst, submitted, rx, put>>,
           ctx' = ctx, opty' = opty, printed' = printed,
           ConfregTypeOK', ConfregRight', CharsInOrder', (dropped \subseteq 1..typed)'
    PROVE  IInv'
  <1>1. /\ UNCHANGED <<ongoing, dbus, dest, aborted>> /\ UNCHANGED <<enable, tx>>
        /\ UNCHANGED <<in_issue, saved_req, count, axi>> /\ UNCHANGED <<mem, saved_mem>>
        /\ UNCHANGED <<master, slave, burst, submitted, rx, put>>
    BY DEF pipelineVars, deviceVars, bridgeVars, memoryVars
  <1>2. /\ PipelineTypeOK /\ DeviceTypeOK /\ BridgeTypeOK /\ SimMemoryTypeOK
    BY DEF IInv, TypeOK
  <1>3. PipelineTypeOK' /\ BridgeTypeOK'
    BY <1>1, <1>2 DEF PipelineTypeOK, BridgeTypeOK
  <1>4. DeviceTypeOK' /\ SimMemoryTypeOK'
    BY <1>1, <1>2 DEF DeviceTypeOK, SimMemoryTypeOK
  <1>5. TypeOK'
    BY <1>1, <1>3, <1>4 DEF IInv, TypeOK
  <1>6. OutputInOrder'
    BY <1>1 DEF IInv, OutputInOrder
  <1>7. req' = req /\ Done' = Done /\ Moving' = Moving
    BY <1>1 DEF req, CBusWrapper, Done, Moving
  <1>8. TasksRight' /\ DbusRight' /\ CacheRight'
    <2>1. TasksRight /\ DbusRight /\ CacheRight
      BY DEF IInv
    <2>2. TasksRight'
      BY <1>1, <2>1 DEF TasksRight, Proper, Reachable
    <2>3. DbusRight'
      BY <1>1, <2>1 DEF DbusRight, Front
    <2>4. CacheRight'
      BY <1>1, <1>7, <2>1 DEF CacheRight, LineInMemory, BeatAddress
    <2>5. QED
      BY <2>2, <2>3, <2>4
  <1>9. DeviceRight'
    BY <1>1, <1>7 DEF IInv, DeviceRight
  <1>10. BridgeRight'
    BY <1>1, <1>7 DEF IInv, BridgeRight
  <1>11. QED
    BY <1>5, <1>6, <1>8, <1>9, <1>10 DEF IInv

\* The characters on their way to the program.
LEMMA CharsTyped ==
    ASSUME ConfregTypeOK, rx \in Seq(Char)
    PROVE  /\ rx \in Seq(Char) /\ ififo \in Seq(Char) /\ Char \subseteq Nat
           /\ reader \in [at: {"fgetc", "lock", "push", "unlock"}, c: Char \cup {None}]
           /\ typed \in Nat /\ dropped \in SUBSET Char /\ None \notin Char
           /\ rx \o ififo \in Seq(Nat)
  <1>1. /\ ififo \in Seq(Char) /\ typed \in Nat /\ dropped \in SUBSET Char
        /\ reader \in [at: {"fgetc", "lock", "push", "unlock"}, c: Char \cup {None}]
    BY TypedAssumption DEF ConfregTypeOK
  <1>2. Char \subseteq Nat /\ None \notin Char
    BY TypedAssumption DEF Char, None
  <1>3. rx \o ififo \in Seq(Char)
    BY <1>1, ConcatProperties
  <1>4. ASSUME NEW s \in Seq(Char) PROVE s \in Seq(Nat)
    <2>1. Len(s) \in Nat /\ s \in [1..Len(s) -> Char]
      BY LenProperties
    <2>2. s \in [1..Len(s) -> Nat]
      BY <1>2, <2>1
    <2>3. QED
      BY <2>1, <2>2
  <1>5. QED
    BY <1>1, <1>2, <1>3, <1>4

\* One step of the thread neither loses, repeats nor reorders a character.
LEMMA ReaderStep ==
    ASSUME ConfregTypeOK, ConfregRight, CharsInOrder, dropped \subseteq 1..typed,
           rx \in Seq(Char), rx' = rx, Reader
    PROVE  /\ ConfregTypeOK' /\ ConfregRight' /\ CharsInOrder' /\ (dropped \subseteq 1..typed)'
           /\ ctx' = ctx /\ opty' = opty /\ printed' = printed
  <1>1. /\ rx \in Seq(Char) /\ ififo \in Seq(Char) /\ Char \subseteq Nat
        /\ reader \in [at: {"fgetc", "lock", "push", "unlock"}, c: Char \cup {None}]
        /\ typed \in Nat /\ dropped \in SUBSET Char /\ None \notin Char
        /\ rx \o ififo \in Seq(Nat)
    BY CharsTyped
  <1>2. Ordered(rx \o ififo \o InHand, (1..typed) \ dropped)
    BY Chars
  <1>3. (CharsInOrder <=> Ordered(rx \o ififo \o InHand, (1..typed) \ dropped))'
    BY Chars, PTL
  <1>4. /\ ctx.uart_written = None /\ ctx.vuart_written = None
        /\ ctx.uart_avail => ififo # << >>
        /\ (reader.c # None) <=> (reader.at \in {"lock", "push"})
        /\ reader.c # None => reader.c = typed
    BY DEF ConfregRight
  <1>5. CASE ReaderGets
    <2>1. /\ reader.at = "fgetc" /\ typed < MaxTyped /\ typed' = typed + 1
          /\ reader' = [at |-> "lock", c |-> typed + 1]
          /\ UNCHANGED <<ctx, ctx0, kept, ififo, lock, opty, printed, dropped>>
      BY <1>5 DEF ReaderGets
    <2>2. typed + 1 \in Char /\ typed + 1 \in 0..MaxTyped
      BY <1>1, <2>1, TypedAssumption DEF Char
    <2>3. reader' \in [at: {"fgetc", "lock", "push", "unlock"}, c: Char \cup {None}]
      BY <2>1, <2>2
    <2>4. ConfregTypeOK'
      BY <2>1, <2>2, <2>3 DEF ConfregTypeOK
    <2>5. reader'.at = "lock" /\ reader'.c = typed' /\ reader'.c # None
      BY <1>1, <2>1, <2>2
    <2>6. ConfregRight'
      BY <1>4, <2>1, <2>5 DEF ConfregRight
    <2>7. CharsInOrder'
      <3> DEFINE s == rx \o ififo
                 C == (1..typed) \ dropped
      <3>1. InHand = << >> /\ InHand' = <<typed + 1>>
        BY <1>4, <2>1, <2>5 DEF InHand
      <3>2. s \o << >> = s /\ s \o <<typed + 1>> = Append(s, typed + 1)
        BY <1>1, ConcatEmptySeq, AppendIsConcat
      <3>3. Ordered(s, C) /\ C \subseteq 1..typed
        BY <1>2, <3>1, <3>2
      <3>4. Ordered(Append(s, typed + 1), C \cup {typed + 1})
        BY <1>1, <3>3, Typed
      <3>5. C \cup {typed + 1} = (1..(typed + 1)) \ dropped
        BY <1>1
      <3>6. Ordered(rx' \o ififo' \o InHand', (1..typed') \ dropped')
        BY <2>1, <3>1, <3>2, <3>4, <3>5
      <3>7. QED
        BY <1>3, <3>6 DEF Ordered
    <2>8. (dropped \subseteq 1..typed)'
      BY <1>1, <2>1
    <2>9. QED
      BY <2>1, <2>4, <2>6, <2>7, <2>8
  <1>6. CASE ReaderLocks
    <2>1. /\ reader.at = "lock" /\ lock' = "reader" /\ reader' = [reader EXCEPT !.at = "push"]
          /\ UNCHANGED <<ctx, ctx0, kept, ififo, typed, opty, printed, dropped>>
      BY <1>6 DEF ReaderLocks
    <2>2. /\ reader' \in [at: {"fgetc", "lock", "push", "unlock"}, c: Char \cup {None}]
          /\ reader'.at = "push" /\ reader'.c = reader.c
      BY <1>1, <2>1
    <2>3. ConfregTypeOK' /\ ConfregRight'
      BY <1>4, <2>1, <2>2 DEF ConfregTypeOK, ConfregRight
    <2>4. CharsInOrder'
      BY <2>1, <2>2 DEF CharsInOrder, InHand
    <2>5. QED
      BY <2>1, <2>3, <2>4
  <1>7. CASE ReaderPushes
    <2>1. /\ reader.at = "push" /\ ififo' = Append(ififo, reader.c)
          /\ reader' = [at |-> "unlock", c |-> None]
          /\ UNCHANGED <<ctx, ctx0, kept, lock, typed, opty, printed, dropped>>
      BY <1>7 DEF ReaderPushes
    <2>2. reader.c \in Char /\ reader.c # None
      BY <1>1, <1>4, <2>1
    <2>3. ififo' \in Seq(Char) /\ ififo' # << >>
      BY <1>1, <2>1, <2>2, AppendFacts
    <2>4. ConfregTypeOK'
      BY <2>1, <2>3 DEF ConfregTypeOK
    <2>5. ConfregRight'
      BY <1>4, <2>1, <2>3 DEF ConfregRight
    <2>6. CharsInOrder'
      <3>1. InHand = <<reader.c>> /\ InHand' = << >>
        BY <2>1, <2>2 DEF InHand
      <3>2. rx \o Append(ififo, reader.c) \o << >> = rx \o ififo \o <<reader.c>>
        BY <1>1, <2>2, Pushed
      <3>3. Ordered(rx' \o ififo' \o InHand', (1..typed') \ dropped')
        BY <1>2, <2>1, <3>1, <3>2
      <3>4. QED
        BY <1>3, <3>3 DEF Ordered
    <2>7. QED
      BY <2>1, <2>4, <2>5, <2>6
  <1>8. CASE ReaderUnlocks
    <2>1. /\ reader.at = "unlock" /\ lock' = "free" /\ reader' = [reader EXCEPT !.at = "fgetc"]
          /\ UNCHANGED <<ctx, ctx0, kept, ififo, typed, opty, printed, dropped>>
      BY <1>8 DEF ReaderUnlocks
    <2>2. /\ reader' \in [at: {"fgetc", "lock", "push", "unlock"}, c: Char \cup {None}]
          /\ reader'.at = "fgetc" /\ reader'.c = reader.c
      BY <1>1, <2>1
    <2>3. ConfregTypeOK' /\ ConfregRight'
      BY <1>4, <2>1, <2>2 DEF ConfregTypeOK, ConfregRight
    <2>4. CharsInOrder'
      BY <2>1, <2>2 DEF CharsInOrder, InHand
    <2>5. QED
      BY <2>1, <2>3, <2>4
  <1>9. QED
    BY <1>5, <1>6, <1>7, <1>8 DEF Reader

\* A step of the reader thread, at any time, keeps the invariant.
LEMMA TerminalStepStep ==
    ASSUME IInv, TerminalStep
    PROVE  IInv'
  <1>1. /\ ConfregTypeOK /\ ConfregRight /\ CharsInOrder /\ dropped \subseteq 1..typed
        /\ rx \in Seq(Char)
    BY DEF IInv, TypeOK
  <1>2. /\ Reader /\ UNCHANGED <<pipelineVars, deviceVars, bridgeVars, memoryVars,
                                 master, slave, burst, submitted, rx, put>>
    BY DEF TerminalStep
  <1>3. /\ ConfregTypeOK' /\ ConfregRight' /\ CharsInOrder' /\ (dropped \subseteq 1..typed)'
        /\ ctx' = ctx /\ opty' = opty /\ printed' = printed
    BY <1>1, <1>2, ReaderStep
  <1>4. QED
    BY <1>2, <1>3, RegistersOnly

----------------------------------------------------------------------------
\* A cycle with CBusToAXI and its memory.

\* While beats are moved the slave reads within the memory; a read beat is the front access.
LEMMA ReadAddressRight ==
    ASSUME MasterRight, BridgeTypeOK, BridgeRight, slave = "axi", Moving
    PROVE  /\ ReadAddress \in Nat /\ ReadAddress < PageSize /\ ReadAddress \div 8 \in Words
           /\ ~saved_req.is_write => ReadAddress = Head(ongoing).op.addr
  <1> DEFINE a == Head(ongoing).op
  <1>1. /\ ongoing # << >> /\ req.is_write = saved_req.is_write /\ req.size = saved_req.size
        /\ req.addr = saved_req.addr /\ req.len = saved_req.len /\ count <= saved_req.len
        /\ master = "cache" => Done = saved_req.len - count
    BY DEF BridgeRight
  <1>2. /\ in_issue # {}
        /\ ~saved_req.is_write => axi.read = saved_req.len - count
        /\ saved_req.is_write => axi.read = 0
    BY DEF BridgeRight, Moving
  <1>3. saved_req \in CBusReq /\ count \in 0..15
    BY DEF BridgeTypeOK
  <1>4. saved_req.len \in Lengths /\ saved_req.addr \in Nat /\ saved_req.size \in Widths
        /\ saved_req.is_write \in BOOLEAN /\ saved_req.len \in 0..15
    BY <1>3 DEF CBusReq, Lengths
  <1>5. Proper(a) /\ a.addr \in Nat /\ a.addr < PageSize
    <2>1. Proper(a)
      BY <1>1, HeadTask
    <2>2. QED
      BY <2>1, PageCases DEF Proper, Reachable
  <1> HIDE DEF a
  <1>6. ReadAddress = BeatAddress(saved_req.addr, saved_req.size, saved_req.len + 1, axi.read)
    BY DEF ReadAddress
  <1>7. axi.read = 0 => ReadAddress = saved_req.addr
    BY <1>6 DEF BeatAddress
  <1>8. CASE master # "cache"
    <2>1. req.len = 0 /\ req.addr = a.addr
      BY <1>1, <1>8, RequestRight DEF a
    <2>2. saved_req.len = 0 /\ count = 0
      BY <1>1, <1>3, <2>1
    <2>3. axi.read = 0
      BY <1>2, <1>4, <2>2
    <2>4. ReadAddress = a.addr
      BY <1>1, <1>7, <2>1, <2>3
    <2>5. QED
      BY <1>5, <2>4, RamSizeAssumption DEF a, Words, PageSize
  <1>9. CASE master = "cache"
    <2>1. /\ req.len = burst.len /\ req.addr = burst.addr /\ req.size = a.width
          /\ LineInMemory(burst.addr, burst.size, burst.len + 1)
          /\ a.addr = BeatAddress(req.addr, req.size, req.len + 1, Done)
      BY <1>1, <1>9, RequestRight DEF a
    <2>2. req.size = burst.size
      BY <1>9 DEF req
    <2>3. LineInMemory(saved_req.addr, saved_req.size, saved_req.len + 1)
      BY <1>1, <2>1, <2>2
    <2>4. CASE saved_req.is_write
      <3>1. ReadAddress = saved_req.addr
        BY <1>2, <1>7, <2>4
      <3>2. 0 \in 0..saved_req.len
        BY <1>4
      <3> HIDE DEF LineInMemory
      <3>3. BeatAddress(saved_req.addr, saved_req.size, saved_req.len + 1, 0) < PageSize
        BY <1>4, <2>3, <3>2, BeatInLine
      <3>4. ReadAddress < PageSize
        BY <3>1, <3>3 DEF BeatAddress
      <3>5. QED
        BY <1>4, <2>4, <3>1, <3>4, RamSizeAssumption DEF Words, PageSize
    <2>5. CASE ~saved_req.is_write
      <3>1. axi.read = Done
        BY <1>1, <1>2, <1>9, <2>5
      <3>2. ReadAddress = a.addr
        BY <1>1, <1>6, <2>1, <3>1
      <3>3. QED
        BY <1>5, <3>2, RamSizeAssumption DEF a, Words, PageSize
    <2>6. QED
      BY <1>4, <2>4, <2>5
  <1>10. QED
    BY <1>8, <1>9

\* The master does not look at the data of a response that is not ready.
LEMMA NotReady ==
    ASSUME NEW resp, NEW other, ~resp.ready, ~other.ready, MasterTick(resp)
    PROVE  MasterTick(other)
  BY DEF MasterTick, PipelineTick, AwaitTick, CacheTick

\* The master and the bridge move on together.
LEMMA AxiBeats ==
    ASSUME IInv, NEW shake \in SUBSET handshake(Offered), AxiTick(shake)
    PROVE  /\ MasterRight' /\ BridgeTypeOK' /\ BridgeRight'
           /\ shake \cap {"W", "R"} # {} => ongoing' = Tail(ongoing) /\ ongoing' # ongoing /\ Moving
           /\ shake \cap {"W", "R"} = {} => ongoing' = ongoing
  <1>1. /\ slave = "axi" /\ MasterTick(bridge_resp(shake, load(ReadAddress)))
        /\ BridgeTick(req, shake) /\ SlaveTick(req, shake)
        /\ master' = master /\ slave' = slave /\ tx' = tx /\ ctx' = ctx
    BY DEF AxiTick, deviceVars, confregVars
  <1>2. MasterRight /\ BridgeTypeOK /\ SimMemoryTypeOK /\ BridgeRight
    BY InvParts DEF IInv
  <1>3. CASE Moving
    <2> DEFINE word == load(ReadAddress)
    <2>1. word \in Word
      <3>1. ReadAddress \div 8 \in Words
        BY <1>1, <1>2, <1>3, ReadAddressRight
      <3>2. QED
        BY <1>2, <3>1 DEF load, SimMemoryTypeOK, Contents
    <2>2. MasterTick(bridge_resp(shake, word))
      BY <1>1
    <2> HIDE DEF word
    <2>3. QED
      BY <1>1, <1>2, <1>3, <2>1, <2>2, BridgeStep
  <1>4. CASE ~Moving
    <2>1. shake \cap {"W", "R"} = {}
      BY <1>1, <1>2, <1>4, ZeroTyped, BridgeFits
    <2>2. \A w : ~bridge_resp(shake, w).ready
      BY <2>1 DEF bridge_resp, CBusResp
    <2>3. MasterTick(bridge_resp(shake, ZeroWord))
      BY <1>1, <2>2, NotReady
    <2>4. QED
      BY <1>1, <1>2, <2>1, <2>3, ZeroTyped, BridgeStep
  <1>5. QED
    BY <1>3, <1>4

\* A cycle with CBusToAXI, whatever channels handshake, keeps the invariant.
LEMMA AxiStepStep ==
    ASSUME IInv, AxiStep
    PROVE  IInv'
  <1>1. PICK shake \in SUBSET handshake(Offered) : AxiTick(shake)
    BY DEF AxiStep
  <1>2. /\ slave = "axi" /\ MasterTick(bridge_resp(shake, load(ReadAddress)))
        /\ BridgeTick(req, shake) /\ SlaveTick(req, shake)
        /\ mem' = (IF commits(shake) THEN AfterWrites(mem) ELSE mem)
        /\ UNCHANGED <<saved_mem, deviceVars, confregVars, master, slave, submitted, rx, put>>
    BY <1>1 DEF AxiTick
  <1>3. /\ MasterRight /\ DeviceTypeOK /\ BridgeTypeOK /\ SimMemoryTypeOK /\ ConfregTypeOK
        /\ BridgeRight
    BY InvParts DEF IInv
  <1>4. UNCHANGED <<enable, tx>> /\ UNCHANGED confregVars /\ UNCHANGED <<rx, put>>
        /\ UNCHANGED <<master, slave, submitted, saved_mem>>
    BY <1>2 DEF deviceVars
  <1>5. /\ ConfregTypeOK' /\ ConfregRight' /\ CharsInOrder' /\ (dropped \subseteq 1..typed)'
        /\ OutputInOrder' /\ ctx' = ctx
    BY <1>3, <1>4, ConfregSame DEF IInv
  <1>6. MasterRight' /\ BridgeTypeOK' /\ BridgeRight'
    BY <1>1, AxiBeats
  <1>7. SimMemoryTypeOK'
    <2>1. mem \in Contents /\ saved_mem \in Contents
      BY <1>3 DEF SimMemoryTypeOK
    <2>2. AfterWrites(mem) \in Contents
      BY <1>3, <2>1, AfterWritesTyped
    <2>3. QED
      BY <1>2, <1>4, <2>1, <2>2 DEF SimMemoryTypeOK
  <1>8. DeviceTypeOK'
    BY <1>3, <1>4 DEF DeviceTypeOK
  <1>9. TypeOK'
    <2>1. PipelineTypeOK' /\ burst' \in CBusReq
      BY <1>6 DEF MasterRight
    <2>2. QED
      BY <1>4, <1>5, <1>6, <1>7, <1>8, <2>1 DEF IInv, TypeOK
  <1>10. TasksRight' /\ DbusRight' /\ CacheRight'
    BY <1>6 DEF MasterRight
  <1>11. DeviceRight'
    BY <1>2, <1>4 DEF DeviceRight
  <1>12. QED
    BY <1>5, <1>6, <1>9, <1>10, <1>11 DEF IInv

----------------------------------------------------------------------------
\* The invariant, and what follows from it.

\* The invariant holds in every reachable state.
LEMMA Invariance == Spec => []IInv
  <1>1. IInv /\ [Next]_vars => IInv'
    <2> SUFFICES ASSUME IInv, [Next]_vars PROVE IInv'
      OBVIOUS
    <2>1. ASSUME NEW a \in Accesses, SubmitAccess(a) PROVE IInv'
      BY <2>1, SubmitAccessStep
    <2>2. ASSUME NEW b \in Bursts, SubmitBurst(b) PROVE IInv'
      BY <2>2, SubmitBurstStep
    <2>3. CASE SocTick
      BY <2>3, SocTickStep
    <2>4. CASE ResetSoc
      BY <2>4, ResetSocStep
    <2>5. CASE TerminalStep
      BY <2>5, TerminalStepStep
    <2>6. CASE AxiStep
      BY <2>6, AxiStepStep
    <2>7. CASE UNCHANGED vars
      <3>1. /\ UNCHANGED <<pipelineVars, deviceVars, bridgeVars, memoryVars,
                           master, slave, burst, submitted, rx, put>>
            /\ UNCHANGED confregVars /\ UNCHANGED <<rx, put>> /\ opty' = opty /\ printed' = printed
        BY <2>7 DEF vars, confregVars
      <3>2. /\ ConfregTypeOK' /\ ConfregRight' /\ CharsInOrder' /\ (dropped \subseteq 1..typed)'
            /\ ctx' = ctx
        BY <3>1, ConfregSame DEF IInv, TypeOK
      <3>3. QED
        BY <3>1, <3>2, RegistersOnly
    <2>8. QED
      BY <2>1, <2>2, <2>3, <2>4, <2>5, <2>6, <2>7 DEF Next
  <1>2. QED
    BY <1>1, InitHolds, PTL DEF Spec

\* The types of the composed system: in particular the bridge's counter and the beats its
\* slave has seen stay within a burst, and so do the beats of the device.
THEOREM BusSystemTyped == Spec => []TypeOK
  <1>1. IInv => TypeOK
    BY DEF IInv
  <1>2. QED
    BY <1>1, Invariance, PTL

\* For every set of accesses and bursts within the address map, whatever the pauses of the
\* device: the assertions CBusDevice::eval_req makes about the request lines never fail.
THEOREM RequestHeld == Spec => []SanityChecksHold
  <1>1. IInv => SanityChecksHold
    <2> SUFFICES ASSUME IInv, slave = "device" PROVE sanity_checks(req)
      BY DEF SanityChecksHold
    <2>1. CASE answers
      <3>1. MasterRight /\ DeviceTypeOK /\ DeviceRight
        BY InvParts DEF IInv
      <3>2. QED
        BY <3>1, ZeroTyped, DeviceFits
    <2>2. CASE ~answers
      BY <2>2 DEF sanity_checks
    <2>3. QED
      BY <2>1, <2>2
  <1>2. QED
    BY <1>1, Invariance, PTL

\* The cache and what answers it agree on the last beat of every burst, whatever the length
\* of the line and the order of the handshakes: the request is gone exactly when no beat is left.
THEOREM LastBeatAgreed == Spec => []LastBeatEndsBurst
  <1>1. IInv => LastBeatEndsBurst
    <2> SUFFICES ASSUME IInv, master = "cache" PROVE burst.valid <=> ongoing # << >>
      BY DEF LastBeatEndsBurst
    <2>1. MasterRight
      BY InvParts
    <2>2. req = burst
      BY DEF req
    <2>3. QED
      BY <2>1, <2>2, RequestRight
  <1>2. QED
    BY <1>1, Invariance, PTL

\* The flag of the cycle before is safe to rely on: the thread only adds characters, so
\* Confreg::load and sync never take the front of an empty queue.
THEOREM FrontTaken == Spec => []FrontExists
  <1>1. IInv => FrontExists
    BY DEF IInv, ConfregRight, FrontExists
  <1>2. QED
    BY <1>1, Invariance, PTL

\* However the thread's steps, the cycles and the resets interleave, a program reads the
\* characters that were typed once each and in order, save those a reset throws away.
THEOREM CharactersInOrder == Spec => []CharsInOrder
  <1>1. IInv => CharsInOrder
    BY DEF IInv
  <1>2. QED
    BY <1>1, Invariance, PTL

\* The UART and the virtual UART show the characters of the stores that were answered,
\* once each and in order, although each goes through a flag that a later phase consumes.
THEOREM CharactersShown == Spec => []OutputInOrder
  <1>1. IInv => OutputInOrder
    BY DEF IInv
  <1>2. QED
    BY <1>1, Invariance, PTL

----------------------------------------------------------------------------
\* Words and bytes.

\* Within an aligned word the bytes stay in the word, and in the memory.
LEMMA SameWord ==
    ASSUME NEW R \in Nat, R % 8 = 0, NEW x \in Nat, x < R, NEW l \in Nat, (x % 8) + l < 8
    PROVE  /\ x + l < R /\ (x + l) \div 8 = x \div 8 /\ (x + l) % 8 = (x % 8) + l
  OBVIOUS

\* The bytes of an access to the memory lie side by side in one word of it.
LEMMA BytesOfAccess ==
    ASSUME NEW a, Proper(a), ~IsDevice(a.addr), NEW l \in 0..(a.width - 1)
    PROVE  LET p == ByteAt(a.addr)
           IN  /\ p \in 0..(RamSize - 1) /\ p % 8 = a.addr % 8 /\ p \div 8 \in Words
               /\ ByteAt(a.addr + l) = p + l /\ p + l \in 0..(RamSize - 1)
               /\ (p + l) \div 8 = p \div 8 /\ (p + l) % 8 = (a.addr % 8) + l
               /\ (a.addr % 8) + l \in Lanes /\ l \in Lanes
  <1> DEFINE x == a.addr
             p == ByteAt(x)
  <1>1. /\ x \in Addresses /\ x \in Nat /\ a.width \in Widths /\ x % a.width = 0
    BY DEF Proper, Access
  <1>2. /\ RamSize \in Nat /\ RamSize > 0 /\ RamSize % 8 = 0 /\ PageSize = RamSize
    BY RamSizeAssumption DEF PageSize
  <1>3. x < 2 * RamSize /\ ~IsConf(x)
    BY <1>1, <1>2, Search
  <1>4. p = translate(x) /\ p \in 0..(RamSize - 1) /\ p % 8 = x % 8 /\ p \div 8 \in Words
    BY <1>1, <1>3, Search
  <1>5. (x % 8) + a.width <= 8 /\ x % 8 \in Nat
    BY <1>1, ParseTyped
  <1>6. l \in Nat /\ (x % 8) + l < 8 /\ a.width \in 1..8
    BY <1>1, <1>5 DEF Widths
  <1> HIDE DEF x
  <1>7. ByteAt(x + l) = p + l
    <2>1. CASE x < RamSize
      <3>1. x + l < RamSize
        BY <1>1, <1>2, <1>6, <2>1, SameWord
      <3>2. x + l \in Addresses
        BY <1>1, <1>2, <1>6, <3>1 DEF Addresses
      <3>3. PageOf(x) = 0 /\ PageOf(x + l) = 0
        BY <1>1, <2>1, <3>1, <3>2, PageCases
      <3>4. QED
        BY <3>3 DEF ByteAt
    <2>2. CASE RamSize <= x
      <3> DEFINE R == 2 * RamSize
      <3>1. R \in Nat /\ R % 8 = 0 /\ x < R
        BY <1>2, <1>3
      <3> HIDE DEF R
      <3>2. x + l < R
        BY <1>1, <1>6, <3>1, SameWord
      <3>3. x + l \in Addresses /\ RamSize <= x + l /\ x + l < 2 * RamSize
        <4>1. x \in Nat /\ l \in Nat /\ RamSize \in Nat
          BY <1>1, <1>2, <1>6
        <4>2. RamSize <= x + l /\ x + l < 2 * RamSize /\ x + l \in 0..(3 * RamSize - 1)
          BY ONLY <2>2, <3>2, <4>1 DEF R
        <4>3. QED
          BY <1>2, <4>2 DEF Addresses
      <3>4. PageOf(x) = 1 /\ PageOf(x + l) = 1
        BY <1>1, <1>3, <2>2, <3>3, PageCases
      <3>5. ByteAt(x + l) = (x + l) - RamSize /\ p = x - RamSize
        <4>1. PageSize = RamSize
          BY <1>2
        <4>2. ByteAt(x + l) = (x + l) - PageSize /\ ByteAt(x) = x - PageSize
          <5> DEFINE y == x + l
          <5>1. PageOf(y) = 1 /\ PageOf(x) = 1
            BY <3>4
          <5> HIDE DEF y
          <5>2. ByteAt(y) = y - PageSize /\ ByteAt(x) = x - PageSize
            BY ONLY <5>1 DEF ByteAt
          <5>3. QED
            BY <5>2 DEF y
        <4>3. QED
          BY <4>1, <4>2
      <3>6. QED
        BY <1>1, <1>2, <1>6, <3>5
    <2>3. QED
      BY <1>1, <1>2, <2>1, <2>2
  <1> HIDE DEF p
  <1>8. /\ p + l < RamSize /\ (p + l) \div 8 = p \div 8 /\ (p + l) % 8 = (p % 8) + l
    <2>1. p \in Nat /\ p < RamSize /\ (p % 8) + l < 8
      BY <1>2, <1>4, <1>6
    <2>2. RamSize \in Nat /\ RamSize % 8 = 0 /\ l \in Nat
      BY <1>2, <1>6
    <2>3. QED
      BY ONLY <2>1, <2>2, SameWord
  <1>9. p + l \in 0..(RamSize - 1) /\ (x % 8) + l \in Lanes /\ l \in Lanes
    <2>1. p + l < RamSize /\ p \in Nat /\ l \in Nat /\ RamSize \in Nat
      BY <1>2, <1>4, <1>6, <1>8
    <2>2. (x % 8) + l < 8 /\ x % 8 \in Nat
      BY <1>5, <1>6
    <2> DEFINE y == x % 8
    <2>3. y + l < 8 /\ y \in Nat
      BY <2>2
    <2> HIDE DEF y
    <2>4. p + l \in 0..(RamSize - 1) /\ y + l \in 0..7 /\ l \in 0..7
      BY ONLY <2>1, <2>3
    <2>5. QED
      BY <2>4 DEF y, Lanes
  <1>10. QED
    BY <1>4, <1>7, <1>8, <1>9 DEF x, p

\* The lanes of an access: its bytes go to the lanes from the one its address selects on.
LEMMA LanesOfAccess ==
    ASSUME NEW a, Proper(a)
    PROVE  LET op == parse(a.width, a.addr)
               lo == a.addr % 8
           IN  /\ a.width \in 1..8 /\ lo \in 0..7 /\ op.size = a.width /\ op.lane = lo
               /\ strobe(op) = lo..(lo + a.width - 1)
               /\ \A l \in 0..(a.width - 1) :
                      lo + l \in strobe(op) /\ lo + l >= lo /\ (lo + l) - lo = l
               /\ \A x \in strobe(op) : x - lo \in 0..(a.width - 1) /\ lo + (x - lo) = x
  <1> DEFINE op == parse(a.width, a.addr)
             lo == a.addr % 8
             n == a.width
             lanes == strobe(op)
  <1>1. a.addr \in Nat /\ a.width \in Widths /\ a.addr % a.width = 0
    BY DEF Proper, Access
  <1>2. op.size = n /\ op.lane = lo /\ lanes = lo..(lo + n - 1)
    BY <1>1, ParseTyped
  <1>3. lo \in 0..7 /\ n \in 1..8
    BY <1>1 DEF Widths
  <1> HIDE DEF op, lo, n, lanes
  <1>4. /\ \A l \in 0..(n - 1) : lo + l \in lanes /\ lo + l >= lo /\ (lo + l) - lo = l
        /\ \A x \in lanes : x - lo \in 0..(n - 1) /\ lo + (x - lo) = x
    BY <1>2, <1>3
  <1>5. QED
    BY <1>2, <1>3, <1>4 DEF op, lo, n, lanes

\* Where a lane of a placed value comes from.
LEMMA PlacedAt ==
    ASSUME NEW op, NEW v, NEW x \in Lanes, x >= op.lane
    PROVE  place(op, v)[x] = v[x - op.lane]
  BY DEF place

\* The byte of a word that the memory m holds for an access.
LEMMA ByteOfWord ==
    ASSUME NEW m, NEW a, Proper(a), ~IsDevice(a.addr), NEW l \in 0..(a.width - 1)
    PROVE  BytesOf(m)[ByteAt(a.addr + l)] = m[ByteAt(a.addr) \div 8][(a.addr % 8) + l]
  BY BytesOfAccess DEF BytesOf

\* What a load of the word puts into d.
LEMMA LoadedRight ==
    ASSUME NEW m, NEW a, Proper(a), ~IsDevice(a.addr), NEW d
    PROVE  applyTo(parse(a.width, a.addr), m[ByteAt(a.addr) \div 8], d)
             = [l \in 0..7 |-> IF l \in 0..(a.width - 1) THEN BytesOf(m)[ByteAt(a.addr + l)]
                               ELSE d[l]]
  <1> DEFINE op == parse(a.width, a.addr)
             w  == m[ByteAt(a.addr) \div 8]
  <1>1. a.width \in 1..8
    BY LanesOfAccess
  <1>2. op.size = a.width /\ op.lane = a.addr % 8
    BY LanesOfAccess
  <1> HIDE DEF op, w
  <1>3. applyTo(op, w, d) = [l \in 0..7 |-> IF l < op.size THEN apply(op, w)[l] ELSE d[l]]
    BY DEF applyTo, Lanes
  <1>4. ASSUME NEW l \in 0..(a.width - 1)
        PROVE  apply(op, w)[l] = BytesOf(m)[ByteAt(a.addr + l)]
    <2>1. (a.addr % 8) + l \in Lanes /\ l \in Lanes
      BY BytesOfAccess
    <2>2. l + op.lane = (a.addr % 8) + l /\ op.size # 0
      <3> DEFINE lo == a.addr % 8
      <3>1. lo \in 0..7 /\ op.lane = lo /\ l \in Nat
        BY <1>1, <1>2, LanesOfAccess
      <3> HIDE DEF lo
      <3>2. l + op.lane = lo + l
        BY <3>1
      <3>3. op.size # 0
        BY <1>1, <1>2
      <3>4. QED
        BY <3>2, <3>3 DEF lo
    <2>3. apply(op, w)[l] = w[l + op.lane]
      BY <2>1, <2>2 DEF apply
    <2>4. QED
      BY <2>2, <2>3, ByteOfWord DEF w
  <1>5. ASSUME NEW l \in 0..7 PROVE (l < op.size) <=> (l \in 0..(a.width - 1))
    BY <1>1, <1>2
  <1>6. QED
    BY <1>3, <1>4, <1>5 DEF op, w

\* What an expectation of the word compares.
LEMMA ExpectedRight ==
    ASSUME NEW m, NEW a, Proper(a), ~IsDevice(a.addr), a.kind = "expect"
    PROVE  mismatch(TaskOf(a), m[ByteAt(a.addr) \div 8])
             <=> \E l \in 0..(a.width - 1) : BytesOf(m)[ByteAt(a.addr + l)] # a.val[l]
  <1> DEFINE op == parse(a.width, a.addr)
             w  == m[ByteAt(a.addr) \div 8]
             lo == a.addr % 8
  <1>1. op.lane = lo
    BY LanesOfAccess
  <1> HIDE DEF op
  <1>2. TaskOf(a).load_op = op /\ TaskOf(a).data = place(op, a.val)
    BY DEF TaskOf, op
  <1> HIDE DEF lo, w
  <1>3. ASSUME NEW l \in 0..(a.width - 1)
        PROVE  /\ lo + l \in strobe(op) /\ place(op, a.val)[lo + l] = a.val[l]
               /\ w[lo + l] = BytesOf(m)[ByteAt(a.addr + l)]
    <2>1. lo + l \in Lanes
      BY BytesOfAccess DEF lo
    <2>2. (lo + l) - op.lane = l /\ lo + l >= op.lane /\ lo + l \in strobe(op)
      BY LanesOfAccess DEF lo, op
    <2>3. place(op, a.val)[lo + l] = a.val[(lo + l) - op.lane]
      <3> DEFINE x == lo + l
      <3>1. x \in Lanes /\ x >= op.lane
        BY <2>1, <2>2
      <3> HIDE DEF x
      <3>2. place(op, a.val)[x] = a.val[x - op.lane]
        BY <3>1, PlacedAt
      <3>3. QED
        BY <3>2 DEF x
    <2>4. w[lo + l] = BytesOf(m)[ByteAt(a.addr + l)]
      BY ByteOfWord DEF w, lo
    <2>5. QED
      BY <2>2, <2>3, <2>4
  <1>4. ASSUME NEW x \in strobe(op) PROVE x - lo \in 0..(a.width - 1) /\ lo + (x - lo) = x
    BY LanesOfAccess DEF lo, op
  <1>5. mismatch(TaskOf(a), w) <=> \E x \in strobe(op) : place(op, a.val)[x] # w[x]
    BY <1>2 DEF mismatch
  <1>6. ASSUME NEW x \in strobe(op), place(op, a.val)[x] # w[x]
        PROVE  \E l \in 0..(a.width - 1) : BytesOf(m)[ByteAt(a.addr + l)] # a.val[l]
    <2> DEFINE l == x - lo
    <2>1. l \in 0..(a.width - 1) /\ lo + l = x
      BY <1>4
    <2> HIDE DEF l
    <2>2. BytesOf(m)[ByteAt(a.addr + l)] # a.val[l]
      BY <1>3, <1>6, <2>1
    <2>3. QED
      BY <2>1, <2>2
  <1>7. ASSUME NEW l \in 0..(a.width - 1), BytesOf(m)[ByteAt(a.addr + l)] # a.val[l]
        PROVE  \E x \in strobe(op) : place(op, a.val)[x] # w[x]
    BY <1>3, <1>7
  <1>8. QED
    BY <1>5, <1>6, <1>7 DEF w

\* What a store of the lanes of an access makes of the bytes.
StoredIn(b, a) ==
    [q \in DOMAIN b |->
        IF \E l \in 0..(a.width - 1) : ByteAt(a.addr + l) = q
        THEN a.val[CHOOSE l \in 0..(a.width - 1) : ByteAt(a.addr + l) = q]
        ELSE b[q]]

\* A merge of the lanes of an access stores the bytes of the access, and no other.
LEMMA StoredRight ==
    ASSUME NEW m \in Contents, NEW a, Proper(a), ~IsDevice(a.addr), NEW n,
           n = [m EXCEPT ![ByteAt(a.addr) \div 8] =
                   Merge(m[ByteAt(a.addr) \div 8], place(parse(a.width, a.addr), a.val),
                         strobe(parse(a.width, a.addr)))]
    PROVE  BytesOf(n) = StoredIn(BytesOf(m), a)
  <1> DEFINE op == parse(a.width, a.addr)
             p  == ByteAt(a.addr)
             lo == a.addr % 8
             hits(q) == \E l \in 0..(a.width - 1) : ByteAt(a.addr + l) = q
             chosen(q) == CHOOSE l \in 0..(a.width - 1) : ByteAt(a.addr + l) = q
             new == Merge(m[p \div 8], place(op, a.val), strobe(op))
  <1>1. a.width \in 1..8
    BY LanesOfAccess
  <1>2. op.lane = lo /\ lo \in 0..7
    BY LanesOfAccess
  <1>3. 0 \in 0..(a.width - 1)
    BY <1>1
  <1>4. p \in 0..(RamSize - 1) /\ p \div 8 \in Words /\ p % 8 = lo
    BY <1>3, BytesOfAccess
  <1>5. /\ n \in [Words -> {n[i] : i \in Words}] /\ n[p \div 8] = new
        /\ \A i \in Words : i # p \div 8 => n[i] = m[i]
    BY <1>4 DEF Contents
  <1>6. DOMAIN BytesOf(m) = 0..(RamSize - 1)
    BY DEF BytesOf
  <1>7. ASSUME NEW l \in 0..(a.width - 1)
        PROVE  /\ ByteAt(a.addr + l) = p + l /\ p + l \in 0..(RamSize - 1)
               /\ (p + l) \div 8 = p \div 8 /\ (p + l) % 8 = lo + l /\ lo + l \in Lanes
    BY BytesOfAccess
  <1>8. \A x \in Lanes : new[x] = IF x \in strobe(op) THEN place(op, a.val)[x] ELSE m[p \div 8][x]
    BY DEF Merge
  <1> HIDE DEF op, p, lo, new
  <1>9. ASSUME NEW q \in 0..(RamSize - 1)
         PROVE  n[q \div 8][q % 8] = IF hits(q) THEN a.val[chosen(q)] ELSE BytesOf(m)[q]
    <2>1. q \div 8 \in Words /\ q % 8 \in Lanes /\ q \in Nat /\ BytesOf(m)[q] = m[q \div 8][q % 8]
      BY RamSizeAssumption DEF Words, Lanes, BytesOf
    <2>2. CASE hits(q)
      <3> DEFINE l == chosen(q)
      <3>1. l \in 0..(a.width - 1) /\ ByteAt(a.addr + l) = q
        BY <2>2
      <3> HIDE DEF l
      <3>2. q = p + l /\ q \div 8 = p \div 8 /\ q % 8 = lo + l
        BY <1>7, <3>1
      <3>3. lo + l \in strobe(op) /\ lo + l >= op.lane /\ (lo + l) - op.lane = l /\ lo + l \in Lanes
        <4>1. lo + l \in strobe(op) /\ lo + l >= op.lane /\ (lo + l) - op.lane = l
          BY <3>1, LanesOfAccess DEF lo, op
        <4>2. QED
          BY <1>7, <3>1, <4>1
      <3>4. n[q \div 8][q % 8] = new[lo + l]
        BY <1>5, <3>2
      <3>5. new[lo + l] = place(op, a.val)[lo + l] /\ place(op, a.val)[lo + l] = a.val[(lo + l) - op.lane]
        <4>1. new[lo + l] = place(op, a.val)[lo + l]
          BY <1>8, <3>3
        <4>2. QED
          <5> DEFINE x == lo + l
          <5>1. x \in Lanes /\ x >= op.lane
            BY <3>3
          <5> HIDE DEF x
          <5>2. place(op, a.val)[x] = a.val[x - op.lane]
            BY <5>1, PlacedAt
          <5>3. QED
            BY <4>1, <5>2 DEF x
      <3>6. QED
        BY <2>2, <3>3, <3>4, <3>5 DEF l
    <2>3. CASE ~hits(q)
      <3>1. CASE q \div 8 = p \div 8
        <4>1. ASSUME q % 8 \in strobe(op) PROVE FALSE
          <5> DEFINE l == (q % 8) - lo
          <5>1. l \in 0..(a.width - 1) /\ lo + l = q % 8
            BY <4>1, LanesOfAccess DEF lo, op
          <5> HIDE DEF l
          <5>2. (p + l) \div 8 = q \div 8 /\ (p + l) % 8 = q % 8 /\ p + l \in Nat
            BY <1>7, <3>1, <5>1
          <5>3. p + l = q
            <6>1. \A y, z \in Nat : y \div 8 = z \div 8 /\ y % 8 = z % 8 => y = z
              OBVIOUS
            <6>2. QED
              BY <2>1, <5>2, <6>1
          <5>4. QED
            BY <1>7, <2>3, <5>1, <5>3
        <4>2. n[q \div 8][q % 8] = new[q % 8]
          BY <1>5, <3>1
        <4>3. new[q % 8] = m[p \div 8][q % 8]
          BY <1>8, <2>1, <4>1
        <4>4. QED
          BY <2>1, <2>3, <3>1, <4>2, <4>3
      <3>2. CASE q \div 8 # p \div 8
        BY <1>5, <2>1, <2>3, <3>2
      <3>3. QED
        BY <3>1, <3>2
    <2>4. QED
      BY <2>2, <2>3
  <1>10. BytesOf(n) = [q \in 0..(RamSize - 1) |-> n[q \div 8][q % 8]]
    BY DEF BytesOf
  <1> HIDE DEF hits, chosen
  <1>11. BytesOf(n) = [q \in DOMAIN BytesOf(m) |->
                          IF hits(q) THEN a.val[chosen(q)] ELSE BytesOf(m)[q]]
    BY <1>6, <1>9, <1>10
  <1>12. QED
    BY <1>11 DEF hits, chosen, StoredIn

----------------------------------------------------------------------------
\* The system is a memory of bytes (ByteMemory).

\* The memory with the write data that an AXI transaction still holds.
Held == IF slave = "axi" THEN Writes(mem, saved_req, axi.wbuf)[Len(axi.wbuf)] ELSE mem

\* The bytes that the refinement shows are those of what is held.
LEMMA BytesIs == Bytes = BytesOf(Held)
  BY AfterWritesIs DEF Bytes, Held

\* The accesses each kind of test makes.
KindsRight ==
    \A k \in DOMAIN ongoing :
        /\ master = "queue" => ongoing[k].op.kind # "get"
        /\ master = "await" => ongoing[k].op.kind \in {"get", "store"}

\* What the master does with the answer to the front access.
LEMMA MasterEffect ==
    ASSUME MasterRight, KindsRight, ~aborted, NEW resp, resp.ready, Fits(resp), MasterTick(resp)
    PROVE  LET a  == Head(ongoing).op
               op == parse(a.width, a.addr)
           IN  /\ a.kind = "load" => dest' = applyTo(op, resp.data, dest)
               /\ a.kind = "get" => dest' = applyTo(op, resp.data, ZeroWord)
               /\ a.kind \in {"store", "expect"} => dest' = dest
               /\ aborted' = (a.kind = "expect" /\ mismatch(TaskOf(a), resp.data))
  <1> DEFINE a == Head(ongoing).op
             op == parse(a.width, a.addr)
             u == Head(ongoing)
  <1>1. /\ ongoing # << >> /\ (master # "cache" => resp.last)
    BY DEF Fits
  <1>2. /\ u = TaskOf(a) /\ Proper(a) /\ u = ongoing[1] /\ 1 \in DOMAIN ongoing
    BY <1>1, HeadTask
  <1>3. a.kind \in {"load", "get", "store", "expect"} /\ aborted = FALSE
    BY <1>2 DEF Proper, Access, MasterRight, PipelineTypeOK
  <1>4. /\ u.dest = (a.kind \in {"load", "get"}) /\ (is_load(u) <=> a.kind # "store")
        /\ u.dest => u.load_op = op
    <2>1. is_load(u) <=> a.kind # "store"
      BY <1>2, TaskTyped
    <2>2. u.dest = (a.kind \in {"load", "get"}) /\ (a.kind # "store" => u.load_op = op)
      BY <1>2 DEF TaskOf
    <2>3. QED
      BY <2>1, <2>2
  <1>5. /\ master = "queue" => a.kind # "get"
        /\ master = "await" => a.kind \in {"get", "store"}
        /\ master = "cache" => a.kind \in {"get", "store"}
    <2>1. master \in {"queue", "await"} => /\ master = "queue" => a.kind # "get"
                                           /\ master = "await" => a.kind \in {"get", "store"}
      BY <1>2 DEF KindsRight
    <2>2. master = "cache" => a.kind \in {"get", "store"}
      BY <1>1, <1>2 DEF MasterRight, CacheRight
    <2>3. QED
      BY <2>1, <2>2
  <1>6. req.valid
    BY <1>1, RequestRight
  <1> HIDE DEF a, op, u
  <1>7. CASE master = "queue"
    <2>1. PipelineTick(resp) /\ busy
      BY <1>6, <1>7 DEF MasterTick, req, CBusWrapper, busy
    <2>2. dest' = applied(u, resp.data) /\ aborted' = failed(u, resp.data)
      BY <1>1, <1>7, <2>1 DEF PipelineTick, u
    <2>3. aborted' = (a.kind = "expect" /\ mismatch(u, resp.data))
      <3>1. failed(u, resp.data) = (a.kind = "expect" /\ mismatch(u, resp.data))
        BY <1>3, <1>4 DEF failed
      <3>2. QED
        BY <2>2, <3>1
    <2>4. QED
      BY <1>2, <1>3, <1>4, <1>5, <1>7, <2>2, <2>3 DEF applied, a, op
  <1>8. CASE master = "await"
    <2>1. AwaitTick(resp) /\ busy
      BY <1>6, <1>8 DEF MasterTick, req, CBusWrapper, busy
    <2>2. /\ dest' = (IF u.dest THEN applyTo(u.load_op, resp.data, ZeroWord) ELSE dest)
          /\ aborted' = FALSE
      BY <1>1, <1>3, <1>8, <2>1 DEF AwaitTick, u
    <2>3. QED
      BY <1>3, <1>4, <1>5, <1>8, <2>2 DEF a, op
  <1>9. CASE master = "cache"
    <2>1. CacheTick(resp) /\ burst.valid
      BY <1>6, <1>9 DEF MasterTick, req
    <2>2. /\ dest' = (IF u.dest THEN applyTo(u.load_op, resp.data, ZeroWord) ELSE dest)
          /\ aborted' = FALSE
      BY <1>3, <2>1 DEF CacheTick, u
    <2>3. QED
      BY <1>3, <1>4, <1>5, <1>9, <2>2 DEF a, op
  <1>10. QED
    BY <1>7, <1>8, <1>9 DEF MasterRight

\* Without an answer the master only waits.
LEMMA MasterWaits ==
    ASSUME NEW resp, ~resp.ready, MasterTick(resp), master \in {"queue", "await", "cache"}
    PROVE  dest' = dest /\ aborted' = aborted
  BY DEF MasterTick, PipelineTick, AwaitTick, CacheTick

\* The accesses to perform.
LEMMA TodoFacts ==
    ASSUME ongoing \in Seq(Task)
    PROVE  /\ Todo \in Seq(Access) /\ Len(Todo) = Len(ongoing)
           /\ (Todo = << >>) <=> (ongoing = << >>)
           /\ \A k \in DOMAIN ongoing : Todo[k] = ongoing[k].op
           /\ DOMAIN Todo = DOMAIN ongoing
  <1>1. DOMAIN ongoing = 1..Len(ongoing) /\ Len(ongoing) \in Nat
    BY LenProperties
  <1>2. ASSUME NEW k \in DOMAIN ongoing PROVE ongoing[k].op \in Access
    <2>1. ongoing[k] \in Task
      BY <1>1, ElementOfSeq
    <2>2. QED
      BY <2>1 DEF Task
  <1>3. Todo \in [1..Len(ongoing) -> Access]
    BY <1>1, <1>2 DEF Todo
  <1>4. Todo \in Seq(Access) /\ Len(Todo) = Len(ongoing)
    BY <1>1, <1>3
  <1>5. (Todo = << >>) <=> (ongoing = << >>)
    BY <1>4, EmptyFacts
  <1>6. QED
    BY <1>4, <1>5 DEF Todo

\* The answered access leaves the front of the accesses to perform.
LEMMA TodoTail ==
    ASSUME ongoing \in Seq(Task), ongoing # << >>, ongoing' = Tail(ongoing)
    PROVE  Todo # << >> /\ Head(Todo) = Head(ongoing).op /\ Todo' = Tail(Todo)
  <1>1. /\ Todo \in Seq(Access) /\ Len(Todo) = Len(ongoing) /\ Todo # << >>
        /\ \A k \in DOMAIN ongoing : Todo[k] = ongoing[k].op
    BY TodoFacts
  <1>2. /\ Head(ongoing) = ongoing[1] /\ Len(ongoing) \in Nat /\ Len(ongoing) >= 1
        /\ DOMAIN ongoing = 1..Len(ongoing) /\ DOMAIN Tail(ongoing) = 1..(Len(ongoing) - 1)
        /\ \A k \in 1..(Len(ongoing) - 1) : Tail(ongoing)[k] = ongoing[k + 1]
    BY TailFacts
  <1>3. /\ Head(Todo) = Todo[1] /\ DOMAIN Tail(Todo) = 1..(Len(ongoing) - 1)
        /\ \A k \in 1..(Len(ongoing) - 1) : Tail(Todo)[k] = Todo[k + 1]
        /\ Tail(Todo) \in Seq(Access)
    BY <1>1, TailFacts
  <1>4. Todo' = [k \in 1..(Len(ongoing) - 1) |-> ongoing[k + 1].op]
    BY <1>2 DEF Todo
  <1>5. \A k \in 1..(Len(ongoing) - 1) : Todo[k + 1] = ongoing[k + 1].op
    BY <1>1, <1>2
  <1>6. Tail(Todo) = [k \in 1..(Len(ongoing) - 1) |-> Tail(Todo)[k]]
    <2>1. Tail(Todo) \in [1..Len(Tail(Todo)) -> Access]
      BY <1>3, LenProperties
    <2>2. Tail(Todo) = [k \in DOMAIN Tail(Todo) |-> Tail(Todo)[k]]
      BY <2>1
    <2>3. QED
      BY <1>3, <2>2
  <1>7. QED
    BY <1>1, <1>2, <1>3, <1>4, <1>5, <1>6

\* The memory has a byte for each address in the boot window or below, and no other.
LEMMA MemoryBytes == Abs!Contents = [0..(RamSize - 1) -> Byte]
  <1>1. RamSize \in Nat /\ RamSize > 0
    BY RamSizeAssumption
  <1>2. ASSUME NEW x \in Addresses, ~IsDevice(x) PROVE ByteAt(x) \in 0..(RamSize - 1)
    BY <1>2, Search
  <1>3. ASSUME NEW p \in 0..(RamSize - 1) PROVE p \in Addresses /\ ~IsDevice(p) /\ ByteAt(p) = p
    <2>1. p \in Addresses /\ p < RamSize
      BY <1>1 DEF Addresses, PageSize
    <2>2. QED
      BY <1>1, <2>1, Search
  <1>4. {ByteAt(x) : x \in {y \in Addresses : ~IsDevice(y)}} = 0..(RamSize - 1)
    BY <1>2, <1>3
  <1>5. QED
    BY <1>4 DEF Abs!Contents

\* An answered access takes effect on the bytes as ByteMemory says.
LEMMA Performed ==
    ASSUME MasterRight, MasterRight', KindsRight, ~aborted, NEW resp, resp.ready, Fits(resp),
           MasterTick(resp), ongoing' = Tail(ongoing), saved_mem' = saved_mem, Held \in Contents,
           IsDevice(Head(ongoing).op.addr) => Held' = Held,
           ~IsDevice(Head(ongoing).op.addr) /\ Head(ongoing).op.kind # "store" =>
               /\ Held' = Held
               /\ resp.data = Held[ByteAt(Head(ongoing).op.addr) \div 8],
           ~IsDevice(Head(ongoing).op.addr) /\ Head(ongoing).op.kind = "store" =>
               LET a == Head(ongoing).op
                   p == ByteAt(a.addr) \div 8
                   op == parse(a.width, a.addr)
               IN  Held' = [Held EXCEPT ![p] = Merge(Held[p], place(op, a.val), strobe(op))]
    PROVE  Abs!Perform
  <1> DEFINE a == Head(ongoing).op
             op == parse(a.width, a.addr)
             At(l) == Bytes[ByteAt(a.addr + l)]
  <1>1. ongoing # << >> /\ ongoing \in Seq(Task) /\ aborted = FALSE /\ dest' \in [0..7 -> Byte]
    BY DEF Fits, MasterRight, PipelineTypeOK, Word, Lanes
  <1>2. Proper(a) /\ a.kind \in {"load", "get", "store", "expect"}
    BY <1>1, HeadTask DEF Proper, Access
  <1>3. Todo # << >> /\ Head(Todo) = a /\ Todo' = Tail(Todo)
    BY <1>1, TodoTail
  <1>4. /\ a.kind = "load" => dest' = applyTo(op, resp.data, dest)
        /\ a.kind = "get" => dest' = applyTo(op, resp.data, ZeroWord)
        /\ a.kind \in {"store", "expect"} => dest' = dest
        /\ aborted' = (a.kind = "expect" /\ mismatch(TaskOf(a), resp.data))
    BY MasterEffect
  <1>5. Bytes = BytesOf(Held)
    BY BytesIs
  <1>6. Bytes' = BytesOf(Held')
    <2>1. (Bytes = BytesOf(Held))'
      BY BytesIs, PTL
    <2>2. QED
      BY <2>1 DEF BytesOf
  <1>7. BytesOf(saved_mem)' = BytesOf(saved_mem)
    BY DEF BytesOf
  <1>8. /\ IsDevice(a.addr) => Held' = Held
        /\ ~IsDevice(a.addr) /\ a.kind # "store" =>
               Held' = Held /\ resp.data = Held[ByteAt(a.addr) \div 8]
        /\ ~IsDevice(a.addr) /\ a.kind = "store" =>
               Held' = [Held EXCEPT ![ByteAt(a.addr) \div 8] =
                           Merge(Held[ByteAt(a.addr) \div 8], place(op, a.val), strobe(op))]
    OBVIOUS
  <1>9. a.width \in 1..8
    BY <1>2, LanesOfAccess
  <1> HIDE DEF a, Held, Bytes
  <1>10. Abs!Load(a) \/ Abs!Store(a) \/ Abs!Expect(a) \/ Abs!AccessDevice(a)
    <2>1. CASE IsDevice(a.addr)
      <3>1. Bytes' = Bytes
        BY <1>5, <1>6, <1>8, <2>1
      <3>2. aborted' \in {FALSE, a.kind = "expect"}
        BY <1>4
      <3>3. op.size = a.width
        BY <1>2, LanesOfAccess
      <3>4. ASSUME NEW d, dest' = applyTo(op, resp.data, d),
                   NEW e, \A l \in 0..7 : e[l] = d[l]
            PROVE  dest' = [l \in 0..7 |-> IF l \in 0..(a.width - 1) THEN dest'[l] ELSE e[l]]
        <4>1. dest' = [l \in 0..7 |-> IF l < a.width THEN apply(op, resp.data)[l] ELSE d[l]]
          BY <3>3, <3>4 DEF applyTo, Lanes
        <4>2. \A l \in 0..7 : (l < a.width) <=> (l \in 0..(a.width - 1))
          BY <1>9
        <4>3. QED
          BY <3>4, <4>1, <4>2
      <3>5. a.kind = "load" => dest' = Abs!Arrived(a, dest')
        <4>1. a.kind = "load" => dest' = [l \in 0..7 |-> IF l \in 0..(a.width - 1) THEN dest'[l] ELSE dest[l]]
          BY <1>4, <3>4
        <4>2. QED
          BY <4>1 DEF Abs!Arrived, Abs!Offsets
      <3>6. a.kind = "get" => dest' = Abs!Arrived(a, dest')
        <4>1. \A l \in 0..7 : [x \in 0..7 |-> 0][l] = ZeroWord[l]
          BY DEF ZeroWord, Lanes
        <4>2. a.kind = "get" => dest' = [l \in 0..7 |-> IF l \in 0..(a.width - 1) THEN dest'[l]
                                                        ELSE [x \in 0..7 |-> 0][l]]
          BY <1>4, <3>4, <4>1
        <4>3. QED
          BY <4>2 DEF Abs!Arrived, Abs!Offsets
      <3>7. dest' = IF a.kind \in {"load", "get"} THEN Abs!Arrived(a, dest') ELSE dest
        BY <1>2, <1>4, <3>5, <3>6
      <3>8. Abs!AccessDevice(a)
        BY <1>1, <2>1, <3>1, <3>2, <3>7 DEF Abs!AccessDevice
      <3>9. QED
        BY <3>8
    <2>2. CASE ~IsDevice(a.addr) /\ a.kind \in {"load", "get"}
      <3>1. Bytes' = Bytes /\ resp.data = Held[ByteAt(a.addr) \div 8]
        BY <1>5, <1>6, <1>8, <2>2
      <3>2. \A d : applyTo(op, resp.data, d)
                     = [l \in 0..7 |-> IF l \in 0..(a.width - 1) THEN At(l) ELSE d[l]]
        BY <1>2, <1>5, <2>2, <3>1, LoadedRight
      <3>3. \A l \in 0..7 : ZeroWord[l] = 0
        BY DEF ZeroWord, Lanes
      <3>4. dest' = [l \in 0..7 |-> IF l \in 0..(a.width - 1) THEN At(l)
                                    ELSE IF a.kind = "load" THEN dest[l] ELSE 0]
        <4>1. CASE a.kind = "load"
          <5>1. dest' = [l \in 0..7 |-> IF l \in 0..(a.width - 1) THEN At(l) ELSE dest[l]]
            BY <1>4, <3>2, <4>1
          <5>2. QED
            BY <4>1, <5>1
        <4>2. CASE a.kind = "get"
          <5>1. dest' = [l \in 0..7 |-> IF l \in 0..(a.width - 1) THEN At(l) ELSE ZeroWord[l]]
            BY <1>4, <3>2, <4>2
          <5>2. a.kind # "load"
            BY <4>2
          <5>3. [l \in 0..7 |-> IF l \in 0..(a.width - 1) THEN At(l) ELSE ZeroWord[l]]
                  = [l \in 0..7 |-> IF l \in 0..(a.width - 1) THEN At(l)
                                    ELSE IF a.kind = "load" THEN dest[l] ELSE 0]
            BY <3>3, <5>2
          <5>4. QED
            BY <5>1, <5>3
        <4>3. QED
          BY <2>2, <4>1, <4>2
      <3>5. dest' = Abs!Arrived(a, [l \in Abs!Offsets(a) |-> Abs!At(a, l)])
        BY <3>4 DEF Abs!Arrived, Abs!Offsets, Abs!At
      <3>6. aborted' = aborted
        BY <1>1, <1>4, <2>2
      <3>7. Abs!Load(a)
        BY <2>2, <3>1, <3>5, <3>6 DEF Abs!Load
      <3>8. QED
        BY <3>7
    <2>3. CASE ~IsDevice(a.addr) /\ a.kind = "store"
      <3>1. Held' = [Held EXCEPT ![ByteAt(a.addr) \div 8] =
                        Merge(Held[ByteAt(a.addr) \div 8], place(op, a.val), strobe(op))]
        BY <1>8, <2>3
      <3>2. BytesOf(Held') = StoredIn(BytesOf(Held), a)
        BY <1>2, <2>3, <3>1, StoredRight
      <3>3. Bytes' = Abs!Stored(a)
        <4>1. Bytes' = StoredIn(Bytes, a)
          BY <1>5, <1>6, <3>2
        <4>2. QED
          BY <4>1 DEF StoredIn, Abs!Stored, Abs!Offsets
      <3>4. dest' = dest /\ aborted' = aborted
        BY <1>1, <1>4, <2>3
      <3>5. Abs!Store(a)
        BY <2>3, <3>3, <3>4 DEF Abs!Store
      <3>6. QED
        BY <3>5
    <2>4. CASE ~IsDevice(a.addr) /\ a.kind = "expect"
      <3>1. Bytes' = Bytes /\ resp.data = Held[ByteAt(a.addr) \div 8]
        BY <1>5, <1>6, <1>8, <2>4
      <3>2. mismatch(TaskOf(a), resp.data) <=> \E l \in 0..(a.width - 1) : At(l) # a.val[l]
        BY <1>2, <1>5, <2>4, <3>1, ExpectedRight
      <3>3. aborted' = \E l \in Abs!Offsets(a) : Abs!At(a, l) # a.val[l]
        <4>1. aborted' = mismatch(TaskOf(a), resp.data)
          BY <1>4, <2>4 DEF mismatch
        <4>2. mismatch(TaskOf(a), resp.data) = \E l \in 0..(a.width - 1) : At(l) # a.val[l]
          BY <3>2 DEF mismatch
        <4>3. QED
          BY <4>1, <4>2 DEF Abs!Offsets, Abs!At
      <3>4. dest' = dest
        BY <1>4, <2>4
      <3>5. Abs!Expect(a)
        BY <2>4, <3>1, <3>3, <3>4 DEF Abs!Expect
      <3>6. QED
        BY <3>5
    <2>5. QED
      BY <1>2, <2>1, <2>2, <2>3, <2>4
  <1>11. QED
    BY <1>1, <1>3, <1>7, <1>10 DEF Abs!Perform

\* What is held is a memory, and the memory itself without write data.
LEMMA HeldTyped ==
    ASSUME BridgeTypeOK, SimMemoryTypeOK
    PROVE  /\ Held \in Contents /\ (slave = "device" => Held = mem)
           /\ axi.wbuf = << >> => Held = mem
           /\ slave = "axi" => Held = AfterWrites(mem)
  <1>1. mem \in Contents
    BY DEF SimMemoryTypeOK
  <1>2. AfterWrites(mem) \in Contents /\ (axi.wbuf = << >> => AfterWrites(mem) = mem)
    BY <1>1, AfterWritesTyped
  <1>3. Held = IF slave = "axi" THEN AfterWrites(mem) ELSE mem
    BY AfterWritesIs DEF Held
  <1>4. QED
    BY <1>1, <1>2, <1>3

\* The initial states are those of a memory of bytes.
LEMMA InitAbs == Init => Abs!Init
  <1> SUFFICES ASSUME Init PROVE Abs!Init
    OBVIOUS
  <1>1. IInv
    BY InitHolds
  <1>2. BridgeTypeOK /\ SimMemoryTypeOK /\ ongoing \in Seq(Task)
    BY <1>1, InvParts DEF MasterRight, PipelineTypeOK
  <1>3. /\ ongoing = << >> /\ dest = ZeroWord /\ aborted = FALSE /\ axi = SlaveIdle
        /\ saved_mem = mem
    BY DEF Init, PipelineInit, BridgeInit, SimMemoryInit
  <1>4. Bytes = BytesOf(mem)
    <2>1. Held = mem
      BY <1>2, <1>3, HeldTyped DEF SlaveIdle
    <2>2. QED
      BY <2>1, BytesIs
  <1>5. Bytes \in Abs!Contents
    <2>1. mem \in Contents
      BY <1>2 DEF SimMemoryTypeOK
    <2>2. ASSUME NEW p \in 0..(RamSize - 1) PROVE mem[p \div 8][p % 8] \in Byte
      <3>1. p \div 8 \in Words /\ p % 8 \in Lanes
        BY RamSizeAssumption DEF Words, Lanes
      <3>2. QED
        BY <2>1, <3>1 DEF Contents, Word
    <2>3. BytesOf(mem) \in [0..(RamSize - 1) -> Byte]
      BY <2>2 DEF BytesOf
    <2>4. QED
      BY <1>4, <2>3, MemoryBytes
  <1>6. Todo = << >>
    BY <1>2, <1>3, TodoFacts
  <1>7. dest = [l \in 0..7 |-> 0]
    BY <1>3 DEF ZeroWord, Lanes
  <1>8. QED
    BY <1>3, <1>4, <1>5, <1>6, <1>7 DEF Abs!Init

\* What a step that leaves the memory and the queue alone is to ByteMemory.
LEMMA Unseen ==
    ASSUME Held' = Held, ongoing' = ongoing, UNCHANGED <<saved_mem, dest, aborted>>
    PROVE  UNCHANGED Abs!vars
  <1>1. Bytes = BytesOf(Held) /\ (Bytes = BytesOf(Held))'
    BY BytesIs, PTL
  <1> HIDE DEF Bytes, Held
  <1>2. Bytes' = Bytes
    BY <1>1 DEF BytesOf
  <1>3. Todo' = Todo
    BY DEF Todo
  <1>4. BytesOf(saved_mem)' = BytesOf(saved_mem)
    BY DEF BytesOf
  <1>5. QED
    BY <1>2, <1>3, <1>4 DEF Abs!vars

\* What a step that adds a batch to the queue is to ByteMemory.
LEMMA Queued ==
    ASSUME Held' = Held, ~aborted, UNCHANGED <<saved_mem, dest, aborted>>,
           NEW b \in {<<a>> : a \in Accesses} \cup {Beats(c) : c \in Bursts}, Todo' = Todo \o b
    PROVE  Abs!Submit
  <1>1. Bytes = BytesOf(Held) /\ (Bytes = BytesOf(Held))'
    BY BytesIs, PTL
  <1> HIDE DEF Bytes, Held, Todo
  <1>2. Bytes' = Bytes
    BY <1>1 DEF BytesOf
  <1>3. BytesOf(saved_mem)' = BytesOf(saved_mem)
    BY DEF BytesOf
  <1>4. QED
    BY <1>2, <1>3 DEF Abs!Submit

\* An access submitted is a batch of one.
LEMMA SubmitAccessAbs ==
    ASSUME IInv, NEW a \in Accesses, SubmitAccess(a)
    PROVE  Abs!Submit
  <1>1. /\ ~aborted /\ ongoing' = Append(ongoing, TaskOf(a)) /\ Reachable(a.addr)
        /\ UNCHANGED <<dest, aborted, saved_mem, mem, slave, saved_req, axi>>
    BY DEF SubmitAccess, submit, memoryVars, bridgeVars
  <1>2. ongoing \in Seq(Task)
    BY InvParts DEF MasterRight, PipelineTypeOK
  <1>3. TaskOf(a) \in Task /\ TaskOf(a).op = a
    <2>1. Proper(a)
      BY <1>1, AccessesAssumption, MapAssumption DEF Proper
    <2>2. QED
      BY <2>1, TaskTyped
  <1>4. Todo' = Todo \o <<a>>
    <2> DEFINE t == TaskOf(a)
               n == Len(ongoing)
    <2>1. /\ ongoing' \in Seq(Task) /\ n \in Nat /\ DOMAIN ongoing = 1..n
          /\ DOMAIN ongoing' = 1..(n + 1) /\ Len(ongoing') = n + 1
          /\ \A k \in 1..n : ongoing'[k] = ongoing[k]
          /\ ongoing'[n + 1] = t
      BY <1>1, <1>2, <1>3, AppendFacts
    <2>2. /\ Todo \in Seq(Access) /\ Len(Todo) = n
          /\ \A k \in 1..n : Todo[k] = ongoing[k].op
      BY <1>2, <2>1, TodoFacts
    <2>3. a \in Access
      BY AccessesAssumption
    <2>4. /\ Append(Todo, a) \in Seq(Access) /\ Len(Append(Todo, a)) = n + 1
          /\ \A k \in 1..n : Append(Todo, a)[k] = Todo[k]
          /\ Append(Todo, a)[n + 1] = a
      BY <2>2, <2>3, AppendFacts
    <2>5. Todo' = [k \in 1..(n + 1) |-> ongoing'[k].op]
      BY <2>1 DEF Todo
    <2> HIDE DEF t, n
    <2>6. \A k \in 1..(n + 1) : ongoing'[k].op = Append(Todo, a)[k]
      <3>1. ASSUME NEW k \in 1..(n + 1) PROVE ongoing'[k].op = Append(Todo, a)[k]
        <4>1. k \in 1..n \/ k = n + 1
          BY <2>1
        <4>2. QED
          BY <1>3, <2>1, <2>2, <2>4, <4>1 DEF t
      <3>2. QED
        BY <3>1
    <2>7. Append(Todo, a) = [k \in 1..(n + 1) |-> Append(Todo, a)[k]]
      <3>1. Append(Todo, a) \in [1..Len(Append(Todo, a)) -> Access]
        BY <2>4, LenProperties
      <3>2. QED
        BY <2>4, <3>1
    <2>8. Todo' = Append(Todo, a)
      BY <2>5, <2>6, <2>7
    <2>9. QED
      BY <2>2, <2>3, <2>8, AppendIsConcat
  <1>5. Held' = Held
    BY <1>1 DEF Held, Writes, Put, BeatAddress, Merge
  <1>6. QED
    BY <1>1, <1>4, <1>5, Queued

\* A burst is a batch of its beats.
LEMMA SubmitBurstAbs ==
    ASSUME IInv, NEW b \in Bursts, SubmitBurst(b)
    PROVE  Abs!Submit
  <1>1. /\ master = "cache" /\ ~burst.valid
        /\ ongoing' = [k \in 1..Len(b.vals) |-> TaskOf(Beats(b)[k])]
        /\ UNCHANGED <<dest, aborted, saved_mem, mem, slave, saved_req, axi>>
    BY DEF SubmitBurst, memoryVars, bridgeVars
  <1>2. ongoing \in Seq(Task) /\ ~aborted /\ ongoing = << >>
    BY <1>1, InvParts DEF MasterRight, PipelineTypeOK, CacheRight
  <1>3. Todo = << >>
    BY <1>2, TodoFacts
  <1> DEFINE n == Len(b.vals)
  <1>4. n \in Nat
    BY BurstsAssumption, EmptyFacts DEF Burst
  <1>5. ASSUME NEW k \in 1..n PROVE Beats(b)[k] \in Access /\ TaskOf(Beats(b)[k]).op = Beats(b)[k]
    <2>1. Proper(Beats(b)[k])
      BY BeatsProper
    <2>2. QED
      BY <2>1, TaskTyped DEF Proper
  <1>6. Beats(b) = [k \in 1..n |-> Beats(b)[k]]
    BY DEF Beats
  <1> HIDE DEF n
  <1>7. Beats(b) \in Seq(Access)
    <2>1. Beats(b) \in [1..n -> Access]
      BY <1>5, <1>6
    <2>2. QED
      BY <1>4, <2>1
  <1>8. Todo' = Beats(b)
    <2>1. Todo' = [k \in 1..n |-> TaskOf(Beats(b)[k]).op]
      BY <1>1 DEF Todo, n
    <2>2. QED
      BY <1>5, <1>6, <2>1
  <1>9. Todo' = Todo \o Beats(b)
    BY <1>3, <1>7, <1>8, ConcatEmptySeq
  <1>10. Held' = Held
    BY <1>1 DEF Held, Writes, Put, BeatAddress, Merge
  <1>11. QED
    BY <1>1, <1>2, <1>9, <1>10, Queued

\* Each kind of test keeps making its own accesses.
LEMMA KindsKept ==
    ASSUME MasterRight, KindsRight, ongoing' \in {ongoing, Tail(ongoing), << >>},
           master' = master, slave' = slave
    PROVE  KindsRight'
  <1>1. CASE ongoing' = ongoing
    BY <1>1 DEF KindsRight
  <1>2. CASE ongoing' = << >>
    BY <1>2 DEF KindsRight
  <1>3. CASE ongoing' = Tail(ongoing) /\ ongoing' # << >> /\ ongoing # << >>
    <2>1. \A k \in DOMAIN ongoing' : ongoing'[k] = ongoing[k + 1] /\ k + 1 \in DOMAIN ongoing
      BY <1>3, TasksTail
    <2>2. QED
      BY <2>1 DEF KindsRight
  <1>4. CASE ongoing = << >> /\ ongoing' = Tail(ongoing)
    <2>1. Tail(<< >>) = << >>
      OBVIOUS
    <2>2. QED
      BY <1>2, <1>4, <2>1
  <1>5. QED
    BY <1>1, <1>2, <1>3, <1>4

\* The kinds of access hold with the invariant.
LEMMA KindsStep ==
    ASSUME IInv, KindsRight, [Next]_vars
    PROVE  KindsRight'
  <1>1. MasterRight /\ DeviceTypeOK /\ BridgeTypeOK /\ SimMemoryTypeOK /\ ConfregTypeOK
        /\ DeviceRight /\ BridgeRight /\ ConfregRight
    BY InvParts DEF IInv
  <1>2. ASSUME NEW a \in Accesses, SubmitAccess(a) PROVE KindsRight'
    <2>1. /\ ongoing' = Append(ongoing, TaskOf(a)) /\ master' = master /\ Reachable(a.addr)
          /\ \/ master = "queue" /\ a.kind # "get"
             \/ master = "await" /\ a.kind \in {"get", "store"}
      BY <1>2 DEF SubmitAccess, submit
    <2>2. TaskOf(a) \in Task /\ TaskOf(a).op = a
      <3>1. Proper(a)
        BY <2>1, AccessesAssumption, MapAssumption DEF Proper
      <3>2. QED
        BY <3>1, TaskTyped
    <2> DEFINE n == Len(ongoing)
    <2>3. ongoing \in Seq(Task)
      BY <1>1 DEF MasterRight, PipelineTypeOK
    <2>4. /\ n \in Nat /\ DOMAIN ongoing = 1..n /\ DOMAIN ongoing' = 1..(n + 1)
          /\ \A k \in 1..n : ongoing'[k] = ongoing[k]
          /\ ongoing'[n + 1] = TaskOf(a)
      BY <2>1, <2>2, <2>3, AppendFacts
    <2> HIDE DEF n
    <2>5. ASSUME NEW k \in DOMAIN ongoing'
          PROVE  (k \in DOMAIN ongoing /\ ongoing'[k].op = ongoing[k].op) \/ ongoing'[k].op = a
      BY <2>2, <2>4
    <2>6. QED
      BY <2>1, <2>5 DEF KindsRight
  <1>3. ASSUME NEW b \in Bursts, SubmitBurst(b) PROVE KindsRight'
    BY <1>3 DEF SubmitBurst, KindsRight
  <1>4. ASSUME SocTick PROVE KindsRight'
    <2>1. /\ slave = "device" /\ MasterTick(eval_resp(WordAt(tx.addr))) /\ DeviceTick(req)
          /\ UNCHANGED bridgeVars /\ master' = master /\ slave' = slave
      BY <1>4 DEF SocTick
    <2>2. answers => WordAt(tx.addr) \in Word
      BY <1>1, <2>1, WordTyped
    <2>3. ongoing' = Tail(ongoing) \/ ongoing' = ongoing
      <3> DEFINE w == WordAt(tx.addr)
      <3>1. MasterTick(eval_resp(w)) /\ (answers => w \in Word)
        BY <2>1, <2>2
      <3> HIDE DEF w
      <3>2. (answers => ongoing' = Tail(ongoing)) /\ (~answers => ongoing' = ongoing)
        BY <1>1, <2>1, <3>1, DeviceStep
      <3>3. QED
        BY <3>2, Zenon
    <2>4. QED
      BY <1>1, <2>1, <2>3, KindsKept
  <1>5. ASSUME AxiStep PROVE KindsRight'
    <2>1. PICK shake \in SUBSET handshake(Offered) : AxiTick(shake)
      BY <1>5 DEF AxiStep
    <2>2. ongoing' = Tail(ongoing) \/ ongoing' = ongoing
      BY <2>1, AxiBeats
    <2>3. master' = master /\ slave' = slave
      BY <2>1 DEF AxiTick
    <2>4. QED
      BY <1>1, <2>2, <2>3, KindsKept
  <1>6. ASSUME ResetSoc \/ TerminalStep \/ UNCHANGED vars PROVE KindsRight'
    BY <1>6 DEF ResetSoc, TerminalStep, vars, pipelineVars, KindsRight
  <1>7. QED
    BY <1>2, <1>3, <1>4, <1>5, <1>6 DEF Next

\* A step in which memory and write data stay keeps what is held.
LEMMA HeldKept ==
    ASSUME UNCHANGED <<mem, slave, saved_req, axi>>
    PROVE  Held' = Held
  BY DEF Held, Writes, Put, BeatAddress, Merge

\* A cycle of the simulated system on a chip: an answer performs the front access.
LEMMA SocTickAbs ==
    ASSUME IInv, KindsRight, SocTick
    PROVE  Abs!Perform \/ UNCHANGED Abs!vars
  <1> DEFINE w == WordAt(tx.addr)
             a == Head(ongoing).op
  <1>1. MasterRight /\ DeviceTypeOK /\ BridgeTypeOK /\ SimMemoryTypeOK /\ ConfregTypeOK
        /\ DeviceRight /\ BridgeRight /\ ConfregRight
    BY InvParts DEF IInv
  <1>2. /\ ~aborted /\ slave = "device" /\ MasterTick(eval_resp(w)) /\ DeviceTick(req)
        /\ UNCHANGED bridgeVars /\ master' = master /\ slave' = slave /\ saved_mem' = saved_mem
        /\ IF stores /\ ~IsConf(tx.addr) THEN store(translate(tx.addr), req.data, req.strobe)
           ELSE UNCHANGED mem
    BY DEF SocTick
  <1>3. answers => w \in Word
    BY <1>1, <1>2, WordTyped
  <1>4. Held = mem /\ Held \in Contents
    BY <1>1, <1>2, HeldTyped
  <1>5. Held' = mem'
    BY <1>2 DEF Held
  <1>6. answers /\ ~IsConf(tx.addr) => w = load(translate(tx.addr))
    BY DEF WordAt
  <1> HIDE DEF w
  <1>7. /\ Fits(eval_resp(w)) /\ eval_resp(w).ready = answers /\ answers \in BOOLEAN
        /\ answers /\ ~tx.is_write => eval_resp(w).data = w
    BY <1>1, <1>2, <1>3, DeviceFits
  <1>8. /\ MasterRight'
        /\ answers => ongoing' = Tail(ongoing)
        /\ ~answers => ongoing' = ongoing
    BY <1>1, <1>2, <1>3, DeviceStep
  <1>9. CASE answers
    <2>1. /\ ongoing # << >> /\ Proper(a) /\ tx.addr = a.addr /\ a.addr \in Addresses
          /\ tx.is_write = (a.kind = "store")
      BY <1>1, <1>2, <1>9, DeviceAt
    <2>2. /\ IsConf(a.addr) <=> IsDevice(a.addr)
          /\ ~IsConf(a.addr) => translate(a.addr) = ByteAt(a.addr)
      BY <2>1, Search
    <2>3. /\ req.strobe = Head(ongoing).strobe
          /\ a.kind = "store" => req.data = Head(ongoing).data
      BY <1>1, <2>1, RequestRight
    <2>4. Head(ongoing) = TaskOf(a)
      BY <1>1, <2>1, HeadTask
    <2> HIDE DEF a
    <2>5. a.kind = "store" => /\ req.data = place(parse(a.width, a.addr), a.val)
                              /\ req.strobe = strobe(parse(a.width, a.addr))
      <3>1. a.kind = "store" => /\ TaskOf(a).data = place(parse(a.width, a.addr), a.val)
                                /\ TaskOf(a).strobe = strobe(parse(a.width, a.addr))
        BY <2>1, TaskTyped
      <3>2. QED
        BY <2>3, <2>4, <3>1
    <2>6. stores <=> a.kind = "store"
      BY <1>9, <2>1 DEF stores
    <2>7. IsDevice(a.addr) => Held' = Held
      BY <1>2, <1>4, <1>5, <2>1, <2>2
    <2>8. ~IsDevice(a.addr) /\ a.kind # "store" =>
              Held' = Held /\ eval_resp(w).data = Held[ByteAt(a.addr) \div 8]
      BY <1>2, <1>4, <1>5, <1>6, <1>7, <1>9, <2>1, <2>2, <2>6 DEF load
    <2>9. ~IsDevice(a.addr) /\ a.kind = "store" =>
              Held' = [Held EXCEPT ![ByteAt(a.addr) \div 8] =
                          Merge(Held[ByteAt(a.addr) \div 8], place(parse(a.width, a.addr), a.val),
                                strobe(parse(a.width, a.addr)))]
      BY <1>2, <1>4, <1>5, <2>1, <2>2, <2>5, <2>6 DEF store
    <2> DEFINE resp == eval_resp(w)
    <2>10. /\ resp.ready /\ Fits(resp) /\ MasterTick(resp) /\ ongoing' = Tail(ongoing)
      <3>1. resp.ready
        BY <1>7, <1>9
      <3>2. Fits(resp) /\ MasterTick(resp) /\ ongoing' = Tail(ongoing)
        BY <1>2, <1>7, <1>8, <1>9
      <3>3. QED
        BY <3>1, <3>2
    <2>11. ~IsDevice(a.addr) /\ a.kind # "store" =>
               Held' = Held /\ resp.data = Held[ByteAt(a.addr) \div 8]
      BY <2>8
    <2> HIDE DEF resp, Held
    <2>12. Abs!Perform
      <3>1. /\ MasterRight /\ MasterRight' /\ ~aborted /\ saved_mem' = saved_mem
            /\ Held \in Contents
        BY <1>1, <1>2, <1>4, <1>8
      <3>2. IsDevice(Head(ongoing).op.addr) => Held' = Held
        BY <2>7 DEF a
      <3>3. ~IsDevice(Head(ongoing).op.addr) /\ Head(ongoing).op.kind # "store" =>
                /\ Held' = Held
                /\ resp.data = Held[ByteAt(Head(ongoing).op.addr) \div 8]
        BY <2>11 DEF a
      <3>4. ~IsDevice(Head(ongoing).op.addr) /\ Head(ongoing).op.kind = "store" =>
                LET b == Head(ongoing).op
                    p == ByteAt(b.addr) \div 8
                    op == parse(b.width, b.addr)
                IN  Held' = [Held EXCEPT ![p] = Merge(Held[p], place(op, b.val), strobe(op))]
        BY <2>9 DEF a
      <3>5. QED
        BY <2>10, <3>1, <3>2, <3>3, <3>4, Performed
    <2>13. QED
      BY <2>12
  <1>10. CASE ~answers
    <2>1. ongoing' = ongoing /\ Held' = Held
      BY <1>2, <1>4, <1>5, <1>8, <1>10 DEF stores
    <2> DEFINE resp == eval_resp(w)
    <2>2. ~resp.ready /\ MasterTick(resp)
      BY <1>2, <1>7, <1>10
    <2> HIDE DEF resp
    <2>3. dest' = dest /\ aborted' = aborted
      BY <1>1, <2>2, MasterWaits DEF MasterRight
    <2>4. QED
      BY <1>2, <2>1, <2>3, Unseen
  <1>11. QED
    BY <1>9, <1>10

\* The reset between tests is the reset of the bytes.
LEMMA ResetSocAbs ==
    ASSUME IInv, ResetSoc
    PROVE  Abs!Reset
  <1>1. /\ slave = "device" /\ slave' = slave /\ ongoing = << >> /\ ongoing' = ongoing
        /\ mem' = saved_mem /\ UNCHANGED <<saved_mem, dest, aborted>>
    BY DEF ResetSoc, MemoryReset, pipelineVars
  <1>2. Bytes' = BytesOf(saved_mem)
    BY <1>1 DEF Bytes, BytesOf
  <1>3. Todo = << >>
    <2>1. ongoing \in Seq(Task)
      BY InvParts DEF MasterRight, PipelineTypeOK
    <2>2. QED
      BY <1>1, <2>1, TodoFacts
  <1>4. Todo' = Todo
    BY <1>1 DEF Todo
  <1>5. BytesOf(saved_mem)' = BytesOf(saved_mem)
    BY <1>1 DEF BytesOf
  <1>6. QED
    BY <1>1, <1>2, <1>3, <1>4, <1>5 DEF Abs!Reset

\* The reader thread, and a step that changes nothing, leave the memory alone.
LEMMA OthersAbs ==
    ASSUME TerminalStep \/ UNCHANGED vars
    PROVE  UNCHANGED Abs!vars
  <1>1. UNCHANGED <<mem, saved_mem, slave, saved_req, axi, ongoing, dest, aborted>>
    BY DEF TerminalStep, vars, pipelineVars, bridgeVars, memoryVars
  <1>2. Held' = Held
    BY <1>1, HeldKept
  <1>3. QED
    BY <1>1, <1>2, Unseen

\* What is held after a step.
LEMMA HeldAfter ==
    Held' = IF slave' = "axi" THEN Writes(mem', saved_req', axi'.wbuf)[Len(axi'.wbuf)] ELSE mem'
  BY DEF Held, Writes, Put, BeatAddress, Merge

\* The beat that the bridge sends next is the access in front of the queue.
LEMMA WriteAddressRight ==
    ASSUME MasterRight, BridgeTypeOK, BridgeRight, slave = "axi", Moving, saved_req.is_write
    PROVE  LET a == Head(ongoing).op IN
           /\ BeatAddress(saved_req.addr, saved_req.size, saved_req.len + 1, Len(axi.wbuf)) = a.addr
           /\ req.is_write /\ a.kind = "store" /\ Proper(a)
  <1> DEFINE a == Head(ongoing).op
             n == Len(axi.wbuf)
  <1>1. /\ ongoing # << >> /\ req.is_write = saved_req.is_write /\ req.size = saved_req.size
        /\ req.addr = saved_req.addr /\ req.len = saved_req.len /\ count <= saved_req.len
        /\ master = "cache" => Done = saved_req.len - count
    BY DEF BridgeRight
  <1>2. n = saved_req.len - count
    BY DEF BridgeRight, Moving
  <1>3. saved_req \in CBusReq /\ count \in 0..15
    BY DEF BridgeTypeOK
  <1>4. saved_req.len \in 0..15
    BY <1>3 DEF CBusReq, Lengths
  <1>5. Proper(a)
    BY <1>1, HeadTask
  <1>6. req.is_write = (a.kind = "store")
    BY <1>1, RequestRight
  <1> HIDE DEF a, n
  <1>7. BeatAddress(saved_req.addr, saved_req.size, saved_req.len + 1, n) = a.addr
    <2>1. CASE master # "cache"
      <3>1. req.len = 0 /\ req.addr = a.addr
        BY <1>1, <2>1, RequestRight DEF a
      <3>2. saved_req.len = 0 /\ saved_req.addr = a.addr
        BY <1>1, <3>1
      <3>3. n = 0
        BY <1>1, <1>2, <1>3, <3>2
      <3>4. QED
        BY <3>2, <3>3 DEF BeatAddress
    <2>2. CASE master = "cache"
      <3>1. a.addr = BeatAddress(req.addr, req.size, req.len + 1, Done)
        BY <1>1, <2>2, RequestRight DEF a
      <3>2. n = Done
        BY <1>1, <1>2, <2>2
      <3>3. QED
        BY <1>1, <3>1, <3>2
    <2>3. QED
      BY <2>1, <2>2
  <1>8. QED
    BY <1>1, <1>5, <1>6, <1>7 DEF a, n

\* What the AXI memory holds changes with each beat of write data, and then only.
LEMMA HeldStep ==
    ASSUME IInv, NEW shake \in SUBSET handshake(Offered), AxiTick(shake)
    PROVE  LET a == Head(ongoing).op
               i == BeatAddress(saved_req.addr, saved_req.size, saved_req.len + 1, Len(axi.wbuf))
           IN  /\ "W" \in shake =>
                      /\ saved_req.is_write
                      /\ Held' = [Held EXCEPT ![i \div 8] =
                                     Merge(Held[i \div 8], req.data, req.strobe)]
               /\ "W" \notin shake => Held' = Held
               /\ "R" \in shake => ~saved_req.is_write /\ Held = mem
  <1> DEFINE w == axi.wbuf
             n == Len(axi.wbuf)
             e == [data |-> req.data, strobe |-> req.strobe]
             fresh == [ar   |-> axi.ar \/ "AR" \in shake,
                       aw   |-> axi.aw \/ "AW" \in shake,
                       read |-> IF "R" \in shake THEN axi.read + 1 ELSE axi.read,
                       wbuf |-> IF "W" \in shake THEN Append(axi.wbuf, e) ELSE axi.wbuf]
  <1>1. MasterRight /\ BridgeTypeOK /\ SimMemoryTypeOK /\ BridgeRight
    BY InvParts DEF IInv
  <1>2. /\ slave = "axi" /\ slave' = slave /\ BridgeTick(req, shake)
        /\ axi' = IF "B" \in shake \/ ("R" \in shake /\ rlast) THEN SlaveIdle ELSE fresh
        /\ mem' = IF "B" \in shake THEN AfterWrites(mem) ELSE mem
    BY DEF AxiTick, SlaveTick, commits
  <1>3. mem \in Contents /\ AfterWrites(mem) \in Contents /\ w \in Seq(Beat)
    BY <1>1, AfterWritesTyped DEF SimMemoryTypeOK, BridgeTypeOK, Beat
  <1>4. req \in CBusReq
    BY <1>1, RequestRight
  <1>5. e \in Beat
    BY <1>4 DEF CBusReq, Beat
  <1>6. Held = Writes(mem, saved_req, w)[n]
    BY <1>2 DEF Held
  <1>7. Held' = Writes(mem', saved_req', axi'.wbuf)[Len(axi'.wbuf)]
    BY <1>2, HeldAfter
  <1>8. /\ shake \subseteq in_issue
        /\ in_issue # {} /\ ~saved_req.is_write => shake \in {{}, {"AR"}, {"R"}}
        /\ in_issue # {} /\ saved_req.is_write =>
               /\ "R" \notin shake
               /\ "B" \in shake => shake = {"B"}
    <2>1. /\ shake \subseteq in_issue
          /\ in_issue # {} /\ ~saved_req.is_write =>
                 \/ in_issue = {"AR", "R"} /\ shake \in {{}, {"AR"}}
                 \/ in_issue = {"R"} /\ shake \in {{}, {"R"}}
          /\ in_issue # {} /\ saved_req.is_write =>
                 /\ "R" \notin in_issue
                 /\ "B" \in shake => in_issue = {"B"} /\ shake = {"B"}
      BY <1>1, <1>2, Handshakes
    <2>2. QED
      BY <2>1
  <1>9. in_issue # {} => saved_req' = saved_req
    BY <1>2 DEF BridgeTick
  <1>10. w = << >> => Held = mem
    BY <1>1, HeldTyped
  <1>11. in_issue = {} => w = << >>
    BY <1>1, <1>2 DEF BridgeRight, SlaveIdle
  <1>12. in_issue # {} /\ ~saved_req.is_write => w = << >>
    BY <1>1, <1>2 DEF BridgeRight
  <1>13. ASSUME NEW m \in Contents, NEW r PROVE Writes(m, r, << >>)[Len(<< >>)] = m
    <2>1. << >> \in Seq(Beat) /\ Len(<< >>) = 0
      OBVIOUS
    <2>2. Writes(m, r, << >>)[0] = m
      BY <2>1, WritesRun
    <2>3. QED
      BY <2>1, <2>2
  <1>14. fresh.wbuf = IF "W" \in shake THEN Append(w, e) ELSE w
    OBVIOUS
  <1>15. SlaveIdle.wbuf = << >>
    BY DEF SlaveIdle
  <1> HIDE DEF e, fresh, Held, w, n
  <1>16. CASE "W" \in shake
    <2>1. in_issue # {} /\ saved_req.is_write /\ "R" \notin shake /\ "B" \notin shake
      <3>1. in_issue # {}
        BY <1>8, <1>16
      <3>2. saved_req.is_write
        BY <1>8, <1>16, <3>1
      <3>3. QED
        BY <1>8, <1>16, <3>1, <3>2
    <2>2. axi'.wbuf = Append(w, e) /\ mem' = mem /\ saved_req' = saved_req
      BY <1>2, <1>9, <1>14, <1>16, <2>1
    <2> DEFINE v == Append(w, e)
               i == BeatAddress(saved_req.addr, saved_req.size, saved_req.len + 1, n)
    <2>3. Len(v) = n + 1 /\ v[n + 1] = e /\ n \in Nat
      BY <1>3, <1>5, AppendFacts DEF n, w
    <2>4. Held' = Writes(mem, saved_req, v)[n + 1]
      BY <1>7, <2>2, <2>3
    <2>5. Writes(mem, saved_req, v)[n + 1] = Put(Held, saved_req, v, n + 1)
      BY <1>3, <1>5, <1>6, WritesAppend DEF n, w
    <2> HIDE DEF v
    <2>6. v[n + 1].data = req.data /\ v[n + 1].strobe = req.strobe
      BY <2>3 DEF e
    <2>7. Put(Held, saved_req, v, n + 1)
            = [Held EXCEPT ![i \div 8] = Merge(Held[i \div 8], req.data, req.strobe)]
      <3> DEFINE k == n + 1
      <3>1. k - 1 = n /\ v[k].data = req.data /\ v[k].strobe = req.strobe
        BY <2>3, <2>6
      <3> HIDE DEF k
      <3>2. Put(Held, saved_req, v, k)
              = [Held EXCEPT ![i \div 8] = Merge(Held[i \div 8], req.data, req.strobe)]
        BY <3>1 DEF Put
      <3>3. QED
        BY <3>2 DEF k
    <2>8. QED
      BY <1>16, <2>1, <2>4, <2>5, <2>7 DEF n, w
  <1>17. CASE "W" \notin shake
    <2>1. CASE "B" \in shake
      <3>1. axi'.wbuf = << >> /\ mem' = AfterWrites(mem)
        BY <1>2, <1>15, <2>1
      <3>2. Held' = AfterWrites(mem)
        BY <1>3, <1>7, <1>13, <3>1
      <3>3. Held = AfterWrites(mem)
        BY <1>1, <1>2, HeldTyped
      <3>4. saved_req.is_write
        BY <1>8, <2>1
      <3>5. "R" \notin shake
        BY <1>8, <2>1, <3>4
      <3>6. QED
        BY <1>17, <3>2, <3>3, <3>5
    <2>2. CASE "B" \notin shake
      <3>1. mem' = mem
        BY <1>2, <2>2
      <3>2. CASE w = << >>
        <4>1. axi'.wbuf = << >>
          BY <1>2, <1>14, <1>15, <1>17, <3>2
        <4>2. Held' = mem
          BY <1>3, <1>7, <1>13, <3>1, <4>1
        <4>3. Held' = Held /\ Held = mem
          BY <1>10, <3>2, <4>2
        <4>4. "R" \in shake => ~saved_req.is_write
          BY <1>8
        <4>5. QED
          BY <1>17, <4>3, <4>4
      <3>3. CASE w # << >>
        <4>1. in_issue # {} /\ saved_req.is_write
          BY <1>11, <1>12, <3>3
        <4>2. "R" \notin shake
          BY <1>8, <4>1
        <4>3. axi'.wbuf = w /\ saved_req' = saved_req
          BY <1>2, <1>9, <1>14, <1>17, <2>2, <4>1, <4>2
        <4>4. Held' = Held
          BY <1>6, <1>7, <3>1, <4>3 DEF n, w
        <4>5. QED
          BY <1>17, <4>2, <4>4
      <3>4. QED
        BY <3>2, <3>3
    <2>3. QED
      BY <2>1, <2>2
  <1>18. QED
    BY <1>16, <1>17

\* A cycle with CBusToAXI: a handshake on R or W performs the front access.
LEMMA AxiStepAbs ==
    ASSUME IInv, KindsRight, AxiStep
    PROVE  Abs!Perform \/ UNCHANGED Abs!vars
  <1> DEFINE a == Head(ongoing).op
             word == load(ReadAddress)
  <1>1. PICK shake \in SUBSET handshake(Offered) : AxiTick(shake)
    BY DEF AxiStep
  <1>2. MasterRight /\ BridgeTypeOK /\ SimMemoryTypeOK /\ BridgeRight
    BY InvParts DEF IInv
  <1>3. /\ ~aborted /\ slave = "axi" /\ MasterTick(bridge_resp(shake, word))
        /\ saved_mem' = saved_mem
    BY <1>1 DEF AxiTick
  <1>4. /\ MasterRight'
        /\ shake \cap {"W", "R"} # {} => ongoing' = Tail(ongoing) /\ Moving
        /\ shake \cap {"W", "R"} = {} => ongoing' = ongoing
    BY <1>1, AxiBeats
  <1> DEFINE i == BeatAddress(saved_req.addr, saved_req.size, saved_req.len + 1, Len(axi.wbuf))
  <1>5. /\ "W" \in shake =>
               /\ saved_req.is_write
               /\ Held' = [Held EXCEPT ![i \div 8] = Merge(Held[i \div 8], req.data, req.strobe)]
        /\ "W" \notin shake => Held' = Held
        /\ "R" \in shake => ~saved_req.is_write /\ Held = mem
    BY <1>1, HeldStep
  <1>6. Held \in Contents
    BY <1>2, HeldTyped
  <1> DEFINE resp == bridge_resp(shake, word)
  <1>7. CASE shake \cap {"W", "R"} # {}
    <2>1. /\ ongoing # << >> /\ req.is_write = saved_req.is_write
      BY <1>3, <1>2, <1>4, <1>7 DEF BridgeRight
    <2>2. Proper(a) /\ req.is_write = (a.kind = "store") /\ Head(ongoing) = TaskOf(a)
      BY <1>2, <2>1, HeadTask, RequestRight
    <2>3. ~IsDevice(a.addr) /\ ByteAt(a.addr) = a.addr
      <3>1. a.addr \in Addresses /\ a.addr < PageSize
        BY <1>3, <2>2 DEF Proper, Reachable
      <3> HIDE DEF a
      <3>2. a.addr \in Nat /\ RamSize \in Nat /\ RamSize > 0 /\ a.addr < RamSize
        BY <3>1, RamSizeAssumption DEF Addresses, PageSize
      <3>3. PageOf(a.addr) = 0
        BY <3>1, <3>2, PageCases
      <3>4. QED
        BY <3>3 DEF IsDevice, ByteAt
    <2>4. ReadAddress \div 8 \in Words /\ (~saved_req.is_write => ReadAddress = a.addr)
      BY <1>2, <1>3, <1>4, <1>7, ReadAddressRight
    <2>5. word \in Word
      BY <1>2, <2>4 DEF load, SimMemoryTypeOK, Contents
    <2> HIDE DEF word
    <2>6. Fits(resp) /\ resp.ready /\ resp.data = word
      <3>1. /\ Fits(resp) /\ resp.ready = (shake \cap {"W", "R"} # {}) /\ resp.data = word
        BY <1>2, <1>3, <2>5, BridgeFits
      <3>2. resp.ready
        BY <1>7, <3>1
      <3>3. QED
        BY <3>1, <3>2
    <2>7. MasterTick(resp)
      BY <1>3
    <2> HIDE DEF resp, a
    <2>8. CASE "W" \in shake
      <3>1. saved_req.is_write /\ a.kind = "store"
        BY <1>5, <2>1, <2>2, <2>8
      <3>2. i = a.addr
        BY <1>2, <1>3, <1>4, <1>7, <3>1, WriteAddressRight DEF a
      <3>3. req.data = place(parse(a.width, a.addr), a.val)
            /\ req.strobe = strobe(parse(a.width, a.addr))
        <4>1. req.data = Head(ongoing).data /\ req.strobe = Head(ongoing).strobe
          BY <1>2, <2>1, <3>1, RequestRight DEF a
        <4>2. QED
          BY <2>2, <3>1, <4>1, TaskTyped
      <3>4. Held' = [Held EXCEPT ![ByteAt(a.addr) \div 8] =
                        Merge(Held[ByteAt(a.addr) \div 8], place(parse(a.width, a.addr), a.val),
                              strobe(parse(a.width, a.addr)))]
        BY <1>5, <2>3, <2>8, <3>2, <3>3
      <3> HIDE DEF i, Held
      <3>5. LET b == Head(ongoing).op
                p == ByteAt(b.addr) \div 8
                op == parse(b.width, b.addr)
            IN  Held' = [Held EXCEPT ![p] = Merge(Held[p], place(op, b.val), strobe(op))]
        BY <3>4 DEF a
      <3>6. ~IsDevice(Head(ongoing).op.addr) /\ Head(ongoing).op.kind = "store"
        BY <2>3, <3>1 DEF a
      <3>7. ongoing' = Tail(ongoing)
        BY <1>4, <1>7
      <3>8. Abs!Perform
        BY <1>2, <1>3, <1>4, <1>6, <2>6, <2>7, <3>5, <3>6, <3>7, Performed
      <3>9. QED
        BY <3>8
    <2>9. CASE "W" \notin shake
      <3>1. "R" \in shake
        BY <1>7, <2>9
      <3>2. Held' = Held /\ Held = mem /\ ~saved_req.is_write
        BY <1>5, <2>9, <3>1
      <3>3. a.kind # "store"
        BY <2>1, <2>2, <3>2
      <3>4. resp.data = Held[ByteAt(a.addr) \div 8]
        BY <2>3, <2>4, <2>6, <3>2 DEF word, load
      <3> HIDE DEF i, Held
      <3>5. /\ Held' = Held /\ Head(ongoing).op.kind # "store"
            /\ resp.data = Held[ByteAt(Head(ongoing).op.addr) \div 8]
        BY <3>2, <3>3, <3>4 DEF a
      <3>6. ongoing' = Tail(ongoing)
        BY <1>4, <1>7
      <3>7. Abs!Perform
        BY <1>2, <1>3, <1>4, <1>6, <2>6, <2>7, <3>5, <3>6, Performed
      <3>8. QED
        BY <3>7
    <2>10. QED
      BY <2>8, <2>9
  <1>8. CASE shake \cap {"W", "R"} = {}
    <2>1. "W" \notin shake
      BY <1>8
    <2>2. Held' = Held /\ ongoing' = ongoing
      BY <1>4, <1>5, <1>8, <2>1
    <2>3. ~resp.ready
      BY <1>8 DEF bridge_resp, CBusResp
    <2>4. MasterTick(resp)
      BY <1>3
    <2> HIDE DEF resp
    <2>5. dest' = dest /\ aborted' = aborted
      BY <1>2, <2>3, <2>4, MasterWaits DEF MasterRight
    <2>6. QED
      BY <1>3, <2>2, <2>5, Unseen
  <1>9. QED
    BY <1>7, <1>8

\* Every step of the system is a step of the memory of bytes, or none.
LEMMA StepAbs ==
    ASSUME IInv, KindsRight, [Next]_vars
    PROVE  [Abs!Next]_Abs!vars
  <1>1. ASSUME NEW a \in Accesses, SubmitAccess(a) PROVE Abs!Next
    BY <1>1, SubmitAccessAbs DEF Abs!Next
  <1>2. ASSUME NEW b \in Bursts, SubmitBurst(b) PROVE Abs!Next
    BY <1>2, SubmitBurstAbs DEF Abs!Next
  <1>3. ASSUME SocTick PROVE Abs!Next \/ UNCHANGED Abs!vars
    BY <1>3, SocTickAbs DEF Abs!Next
  <1>4. ASSUME ResetSoc PROVE Abs!Next
    BY <1>4, ResetSocAbs DEF Abs!Next
  <1>5. ASSUME TerminalStep PROVE UNCHANGED Abs!vars
    BY <1>5, OthersAbs
  <1>6. ASSUME AxiStep PROVE Abs!Next \/ UNCHANGED Abs!vars
    BY <1>6, AxiStepAbs DEF Abs!Next
  <1>7. ASSUME UNCHANGED vars PROVE UNCHANGED Abs!vars
    BY <1>7, OthersAbs
  <1>8. QED
    BY <1>1, <1>2, <1>3, <1>4, <1>5, <1>6, <1>7 DEF Next

\* The simulated system on a chip, and CBusToAXI with its memory, are a memory of
\* bytes for every master: each access that a test queues or awaits, and each beat of
\* a cache's bursts, takes effect once and in order, on exactly its own bytes.
THEOREM MemoryOfBytes == Spec => ImplementsByteMemory
  <1>1. Init => KindsRight
    BY DEF Init, PipelineInit, KindsRight
  <1>2. KindsRight /\ IInv /\ [Next]_vars => KindsRight'
    BY KindsStep
  <1>3. Init => Abs!Init
    BY InitAbs
  <1>4. KindsRight /\ IInv /\ [Next]_vars => [Abs!Next]_Abs!vars
    BY StepAbs
  <1>5. QED
    BY <1>1, <1>2, <1>3, <1>4, Invariance, PTL DEF Spec, ImplementsByteMemory, Abs!Spec
=============================================================================
