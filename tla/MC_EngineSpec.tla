------------------------------ MODULE MC_EngineSpec ------------------------------
(***************************************************************************)
(* The -data_dirs flag and the arguments of "cockroach init" over short    *)
(* strings built from the pieces a specification is made of.  The flag is *)
(* fixed for a run, so each initial state is one command line.             *)
(***************************************************************************)
EXTENDS EngineSpec

VARIABLE dataDirs

Slash == <<"/">>
Paths == {Slash, Slash \o <<"1">>}
MCReadable == Paths

Pieces == {Mem, Ssd, Hdd, <<"=">>, <<"1">>, <<"0">>, Slash}

(* Every concatenation of at most three pieces.                            *)
Entries == {<<>>} \cup {p \o q \o r : p, q, r \in Pieces \cup {<<>>}}

(* Flags of one entry, and of two entries joined by a comma.               *)
Flags == Entries \cup {e \o <<",">> \o f : e, f \in {Mem \o <<"=", "1">>, Ssd \o <<"=">> \o Slash}}

(* The forms the -data_dirs help text and "cockroach init" document:       *)
(* ssd=<path>, hdd=<path> and mem=<size in bytes>.                         *)
Documented ==
    {t \o <<"=">> \o p : t \in {Ssd, Hdd}, p \in Paths}
      \cup {Mem \o <<"=">> \o d : d \in {<<"1">>, <<"1", "0">>}}

Init == dataDirs \in Flags
Next == UNCHANGED dataDirs
Spec == Init /\ [][Next]_dataDirs

(* Every entry of -data_dirs written in a documented form, on a readable   *)
(* directory, becomes an engine for "cockroach start" (initEngines), and   *)
(* "cockroach init" on such a specification bootstraps the cluster rather *)
(* than dereferencing a nil engine (runInit).                              *)
DocumentedSpecsServe ==
    /\ (\A i \in 1..Len(split(dataDirs, ",")) : split(dataDirs, ",")[i] \in Documented)
         => Len(initEngines(dataDirs)) = Len(split(dataDirs, ","))
    /\ dataDirs \in Documented => runInit(<<dataDirs, <<"1">>>>) = "initialized"

=============================================================================
