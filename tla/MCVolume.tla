------------------------------ MODULE MCVolume ------------------------------
(* Small instances of Volume for TLC.  A block has 8 bytes, one of them the   *)
(* header, and holds two entries or 56 bits: the smallest file system has 40  *)
(* blocks, one of 60 blocks has a block map of two.  An extent can say 15.    *)
EXTENDS Volume

Line(cmd, opts, num, unit, p) ==
  [cmd |-> cmd, opts |-> opts, d |-> [num |-> num, unit |-> unit], p |-> p, i |-> 0, s |-> 0]

\* 40 blocks, and 60 blocks with a block map of two; tables of 2 and 3 blocks.
Smallest == Line("kfs", {"f", "d", "p"}, 1, "M", 15)
Larger   == Line("kfs", {"f", "d", "p"}, 480, "", 16)
\* Only what a file that exists already can be given, without and with a part.
NoSize   == Line("kfs", {"f", "p"}, 0, "", 20)
NoPart   == Line("kfs", {"f"}, 0, "", 0)
\* Two tables with the whole percentage each.
Meta     == Line("meta", {"f", "d", "p", "k"}, 1, "M", 30)
\* Refused: the size wraps around and is too small; no key.
Wraps    == Line("kfs", {"f", "d", "p"}, 4, "M", 20)
NoKey    == Line("meta", {"f", "d", "p"}, 1, "M", 20)

MCLines == {Smallest, Larger, NoSize, NoPart, Meta, Wraps, NoKey}

MCFiles == {[kind |-> "none", size |-> 0],
            [kind |-> "device", size |-> 355],
            [kind |-> "other", size |-> 0]}

Setting(name, value) == [name |-> name, value |-> value]
MCConfigs == {<<Setting("kfs_file", 1), Setting("cache_page_len", 4), Setting("max_clients", 16)>>,
              <<Setting("kfs_file", 1)>>,
              <<Setting("cache_page_len", 4)>>,
              <<Setting("kfs_fiel", 1), Setting("cache_page_len", 4)>>}
=============================================================================
