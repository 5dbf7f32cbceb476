----------------------------- MODULE MCFlashing -----------------------------
(* Small instance of Flashing: two partitions, and images whose entries    *)
(* fit, do not fit, are cut short, name no partition or one twice.         *)
EXTENDS Flashing, FiniteSets, SequencesExt

MCPartitions ==
  [name \in {"boot", "super"} |->
     IF name = "boot" THEN [first |-> 1, last |-> 1] ELSE [first |-> 2, last |-> 4]]

Ch(type, n) == [type |-> type, n |-> n]
Regular(name, len) == [name |-> name, sparse |-> FALSE, len |-> len]
\* A well-formed sparse image: total is the sum of its chunks.
Sparse(block, chunks) ==
  [name |-> "super", sparse |-> TRUE, supported |-> TRUE, block |-> block, chunks |-> chunks,
   total |-> FoldLeft(LAMBDA sum, c : sum + block * c.n, 0, chunks)]

Parameter == Regular("parameter", 1)

\* Every well-formed sparse image of up to three chunks of up to two blocks.
Sparses ==
  {Sparse(1, chunks) :
     chunks \in UNION {[1..k -> {Ch(t, n) : t \in {"raw", "fill", "dontcare"}, n \in 1..2}]
                        : k \in 1..3}}
    \cup {Sparse(2, <<Ch("raw", 1), Ch("dontcare", 1), Ch("fill", 1)>>),
          Sparse(1, <<Ch("dontcare", 1), Ch("crc32", 0), Ch("raw", 2)>>),
          Sparse(1, <<Ch("raw", 1), Ch("unknown", 0), Ch("raw", 1)>>),
          Sparse(2, <<Ch("raw", 1), Ch("dontcare", 3)>>),
          [Sparse(1, <<Ch("raw", 1)>>) EXCEPT !.supported = FALSE]}

Images ==
  {<<Parameter, Regular("boot", n), s>> : n \in {1, 3}, s \in Sparses}
    \cup {<<s, Regular("boot", 2)>> : s \in Sparses}
    \cup {<<Regular("boot", 1), Regular("recovery", 1), s>> :
            s \in {Sparse(1, <<Ch("raw", 1)>>)}}
    \cup {<<Regular("boot", 0), Regular("super", 2)>>,
          <<Regular("boot", 2), Regular("boot", 1)>>}

MCCommands ==
  [op : {"read"}, name : {"boot", "super", "recovery"}]
    \cup [op : {"write"}, name : {"boot", "super", "recovery"}, len : 0..4]
    \cup [op : {"upgrade"}, image : Images]
=============================================================================
