------------------------------- MODULE MCFileBatch -------------------------------
(***************************************************************************)
(* Blocks of four rows and room for two blocks.  A page of two rows never  *)
(* fills a block and begins another one, pages of four or six rows do.     *)
(* Keys have ties, row 3 does not pass, and the interval leaves out the    *)
(* last token of the longest table.                                        *)
(***************************************************************************)
EXTENDS FileBatch

Job(format, remote, top, rowsetSize, n) ==
  [format |-> format, remote |-> remote, top |-> top, rowsetSize |-> rowsetSize,
   tokens |-> [i \in 1..n |-> 10 * i]]

MCJobs ==
  {Job(format, remote, 0, 2, 6) : format \in {"csv", "parquet"}, remote \in BOOLEAN}
    \cup {Job("parquet", remote, 0, 2, 0) : remote \in BOOLEAN}
    \cup {Job("csv", FALSE, top, 4, 7) : top \in {2, 3, 5, 7}}
    \cup {Job("parquet", TRUE, 2, 2, 7), Job("csv", FALSE, 0, 2, 19),
          Job("csv", FALSE, 0, 4, 20), Job("csv", FALSE, 0, 6, 22)}

MCKeyOf == <<3, 1, 0, 2, 1, 3, 0, 2, 1, 1, 0, 2, 3, 1, 2, 0, 1, 3, 2, 0, 1, 2>>
MCPassing == 1..22 \ {3}
===============================================================================
