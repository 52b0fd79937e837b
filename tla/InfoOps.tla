-------------------------------- MODULE InfoOps --------------------------------
(***************************************************************************)
(* The pure operations on infos of src/gossip/info.go and the hop bound    *)
(* maxToleratedHops of src/gossip/gossip.go.  Keys are sequences of       *)
(* characters from a small alphabet, so that the search for the last "."   *)
(* of infoPrefix is modelled by what it does.  An info value is a record  *)
(* of its dynamic Go type and its value: an integer for int64, float64 and *)
(* string, and for the Ordered type StoreAttributes of src/storage/        *)
(* config.go its capacity record, compared as Go compares float64.         *)
(***************************************************************************)
EXTENDS Integers, SequencesExt

Dot == "."

(* Mutant: the text before the first "." (strings.Index).                  *)
infoPrefixFirstDot(key) ==
    LET i == SelectInSeq(key, LAMBDA ch : ch = Dot)
    IN IF i = 0 THEN <<>> ELSE SubSeq(key, 1, i - 1)

(* infoPrefix: key[:strings.LastIndex(key, ".")], or "" when there is no  *)
(* ".".  Go's 0-based index i is the 1-based position i + 1.               *)
infoPrefix(key) ==
    LET i == SelectLastInSeq(key, LAMBDA ch : ch = Dot)
    IN IF i = 0 THEN <<>> ELSE SubSeq(key, 1, i - 1)

-----------------------------------------------------------------------------
(* The one Ordered value type, storage.StoreAttributes (storage/config.go), *)
(* whose Less reads only its StoreCapacity.  RocksDB.capacity fills that    *)
(* from Statfs: block size times total and available blocks.               *)
Capacity(bsize, blocks, bavail) ==
    [Capacity |-> bsize * blocks, Available |-> bsize * bavail]

(* float64(a) / float64(c) for a, c >= 0: NaN for 0/0, +Inf for a/0, else  *)
(* the exact ratio (rounding of large int64 values is not modelled).       *)
FloatQuo(a, c) ==
    CASE c # 0  -> [kind |-> "num", num |-> a, den |-> c]
      [] a = 0  -> [kind |-> "nan", num |-> 0, den |-> 1]
      [] OTHER  -> [kind |-> "inf", num |-> 1, den |-> 0]

(* Go's < on float64: false when either side is NaN; +Inf is above every  *)
(* number.                                                                  *)
FloatLt(x, y) ==
    CASE x.kind = "nan" \/ y.kind = "nan"  -> FALSE
      [] x.kind = "inf"                    -> FALSE
      [] y.kind = "inf"                    -> TRUE
      [] OTHER                             -> x.num * y.den < y.num * x.den

(* StoreCapacity.PercentAvail: float64(Available) / float64(Capacity).      *)
PercentAvail(sc) == FloatQuo(sc.Available, sc.Capacity)

(* StoreAttributes.Less(b): a's PercentAvail below b's.                     *)
StoreLess(a, b) == FloatLt(PercentAvail(a.Capacity), PercentAvail(b.Capacity))

-----------------------------------------------------------------------------
(* info.less: the type switch on i.Val; the assertion on b.Val panics when *)
(* b's type differs, and a type that is none of int64, float64, string or  *)
(* Ordered ends the process in log.Fatalf.                                 *)
LessTypes == {"int64", "float64", "string", "Ordered"}

less(i, b) ==
    CASE i.Val.type \notin LessTypes      -> "fatal"
      [] i.Val.type # b.Val.type          -> "panic"
      [] i.Val.type = "Ordered"           -> StoreLess(i.Val.v, b.Val.v)
      [] OTHER                            -> i.Val.v < b.Val.v

(* info.expired: the TTL stamp has passed.                                 *)
expired(i, now) == i.TTLStamp <= now

(* info.isFresh: newer than seq, and neither originated by nor passed     *)
(* through addr.                                                           *)
isFresh(i, addr, seq) ==
    /\ i.seq > seq
    /\ i.NodeAddr # addr
    /\ i.peerAddr # addr

-----------------------------------------------------------------------------
(* gossip.go defaultNodeCount.                                             *)
defaultNodeCount == 1000

(* math.Ceil(math.Log(n) / math.Log(b)) for n >= 1, b >= 2: the least k   *)
(* with b^k >= n (rounding of the float quotient is not modelled).        *)
ceilLog(n, b) == CHOOSE k \in 0..n : b^k >= n /\ (k = 0 \/ b^(k-1) < n)

(* maxToleratedHops with the node count read from the infostore           *)
(* (nodeCountInfo is {} when the KeyNodeCount info is absent, else the    *)
(* singleton of its int64 value) and fan-out MaxPeers:                     *)
(* uint32(ceil(log(n)/log(MaxPeers)))*2 + 1.  The logarithm of an int64   *)
(* is below 64, so the uint32 arithmetic never wraps.                      *)
maxToleratedHops(nodeCountInfo, maxPeers) ==
    LET nodeCount == IF nodeCountInfo = {} THEN defaultNodeCount
                     ELSE CHOOSE v \in nodeCountInfo : TRUE
    IN ceilLog(nodeCount, maxPeers) * 2 + 1

=============================================================================
