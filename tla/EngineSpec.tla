------------------------------- MODULE EngineSpec -------------------------------
(***************************************************************************)
(* The parsing of storage engine specifications in src/server/server.go:  *)
(* initEngines splits the -data_dirs flag on ",", and initEngine matches   *)
(* each entry against dataDirRE (mem= and digits at the start, or ssd= or *)
(* hdd= and the rest up to the end) and builds an in-memory or RocksDB     *)
(* engine.  Strings are sequences of one-character strings, so that the   *)
(* regular expression and the split are modelled by what they do.         *)
(***************************************************************************)
EXTENDS Naturals, SequencesExt

CONSTANT Readable   \* the data directories whose capacity Statfs can read

Digits == {"0", "1"}

Mem == <<"m", "e", "m">>
Ssd == <<"s", "s", "d">>
Hdd == <<"h", "h", "d">>

(* strings.Split(s, sep): the pieces between the separators; "" gives one  *)
(* empty piece.                                                            *)
RECURSIVE split(_, _)
split(s, sep) ==
    LET i == SelectInSeq(s, LAMBDA c : c = sep)
    IN IF i = 0 THEN <<s>>
       ELSE <<SubSeq(s, 1, i - 1)>> \o split(SubSeq(s, i + 1, Len(s)), sep)

(* The longest prefix of s made of digits: [\d]* is greedy.                *)
DigitRun(s) ==
    LET stop == SelectInSeq(s, LAMBDA c : c \notin Digits)
    IN IF stop = 0 THEN s ELSE SubSeq(s, 1, stop - 1)

(* The second alternative, ssd= or hdd= then any text to the end, matches *)
(* at position i: the dot-star takes the rest of the string, which holds   *)
(* no newline to stop it.                                                  *)
Alt2At(s, i) ==
    /\ i + 3 <= Len(s)
    /\ SubSeq(s, i, i + 2) \in {Ssd, Hdd}
    /\ s[i + 3] = "="

(* dataDirRE.FindStringSubmatch(spec), leftmost-first as Go's regexp: the   *)
(* leftmost match, the first alternative preferred at a position.  The     *)
(* first alternative is anchored at the start only, the second at the end  *)
(* only.  A match is the whole match and its four groups (an unmatched     *)
(* group is ""); no match is nil, here <<>>.                               *)
FindStringSubmatch(s) ==
    LET starts == {i \in 1..Len(s) : Alt2At(s, i)}
    IN IF Len(s) >= 4 /\ SubSeq(s, 1, 4) = Mem \o <<"=">>
       THEN LET d == DigitRun(SubSeq(s, 5, Len(s)))
            IN <<Mem \o <<"=">> \o d, Mem, d, <<>>, <<>>>>
       ELSE IF starts = {} THEN <<>>
       ELSE LET i == Min(starts)
            IN <<SubSeq(s, i, Len(s)), SubSeq(s, i, i + 2), <<>>,
                 SubSeq(s, i, i + 2), SubSeq(s, i + 4, Len(s))>>

(* strconv.ParseInt(digits, 10, 64); the empty string is an error.  Sizes  *)
(* here are far below 2^63.                                                *)
ParseInt(d) ==
    IF d = <<>> THEN [ok |-> FALSE, v |-> 0]
    ELSE [ok |-> TRUE, v |-> FoldLeft(LAMBDA acc, c : 10 * acc + (IF c = "1" THEN 1 ELSE 0), 0, d)]

(* An engine, or the error that took its place.                            *)
Engine(type, arg) == [ok |-> TRUE, type |-> type, arg |-> arg]
Failed == [ok |-> FALSE, type |-> "none", arg |-> <<>>]

(* storage.NewRocksDB: fails when the capacity of dir cannot be read       *)
(* (Statfs).                                                              *)
NewRocksDB(typ, dir) == IF dir \in Readable THEN Engine(typ, dir) ELSE Failed

(* initEngine(spec), with Go's matches[j] the sequence element j + 1.      *)
initEngine(spec) ==
    LET m == FindStringSubmatch(spec)
    IN IF m = <<>> \/ Len(m) # 3 THEN Failed
       ELSE IF m[2] = Mem
       THEN IF ParseInt(m[3]).ok THEN Engine("MEM", ParseInt(m[3]).v) ELSE Failed
       ELSE CASE m[3] = Hdd -> NewRocksDB("HDD", m[3])
              [] m[3] = Ssd -> NewRocksDB("SSD", m[3])
              [] OTHER      -> Failed

(* initEngines: one initEngine per comma-separated entry; a failed entry   *)
(* is logged and skipped, and the error result is always nil.              *)
initEngines(dataDirs) ==
    LET built == [i \in 1..Len(split(dataDirs, ",")) |->
                     initEngine(split(dataDirs, ",")[i])]
    IN SelectSeq(built, LAMBDA e : e.ok)

(* server/init.go runInit(args): usage unless there are two arguments;     *)
(* engine.Type() is called before err is checked, so a failed initEngine  *)
(* dereferences a nil engine.  An in-memory engine is only warned about:  *)
(* BootstrapCluster runs on it all the same.                               *)
runInit(args) ==
    CASE Len(args) # 2            -> "usage"
      [] ~initEngine(args[1]).ok  -> "panic"
      [] OTHER                    -> "initialized"

=============================================================================
