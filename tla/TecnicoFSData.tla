--------------------------- MODULE TecnicoFSData ---------------------------
(***************************************************************************)
(* TecnicoFS with the bytes in its blocks (fs_data of fs/state.c), and the *)
(* file store it implements.  A byte tells the file it was meant for, by   *)
(* its inode.  What is in a block of no file is Garbage, which stands for  *)
(* anything, and so is what nobody has written.                            *)
(***************************************************************************)
EXTENDS TecnicoFS, Sequences, FiniteSetsExt

CONSTANT Garbage

VARIABLE data   \* data[b]: the content of block b, BlockSize bytes from 0 on

dvars == <<vars, data>>

Cells == 0 .. BlockSize - 1
FileBlocks == {i_data_block[i] : i \in WithContent \ {ROOT_DIR_INUM}}
Unwritten == [k \in Cells |-> Garbage]

(* d, with nothing known of the blocks that belong to no file.             *)
Kept(d) == data' = [b \in Blocks |-> IF b \in FileBlocks' THEN d[b] ELSE Unwritten]

(* Mutant: the bytes are copied to the beginning of the block.             *)
CopiedToStart(h, len) == [k \in Cells |-> IF k < Fits(h, len) THEN of_inumber[h] ELSE data[i_data_block'[of_inumber[h]]][k]]

(* memcpy of tfs_write, into the block the inode has after the allocation. *)
Copied(h, len) ==
  [k \in Cells |-> IF k \in of_offset[h] .. of_offset[h] + Fits(h, len) - 1
                   THEN of_inumber[h] ELSE data[i_data_block'[of_inumber[h]]][k]]

WriteData(h, len) ==
  /\ tfs_write(h, len)
  /\ IF fs' = "aborted" THEN UNCHANGED data
                        ELSE Kept([data EXCEPT ![i_data_block'[of_inumber[h]]] = Copied(h, len)])

DataInit == Init /\ data = [b \in Blocks |-> Unwritten]

(* The steps of TecnicoFS.  Of a file that is found CREAT asks nothing, and*)
(* of one that is created the other modes, so these modes are enough.      *)
DataNext ==
  \/ tfs_init /\ Kept(data)
  \/ tfs_destroy /\ Kept(data)
  \/ \E n \in Names, mode \in SUBSET {"TRUNC", "APPEND"} : OpenFile(n, mode) /\ Kept(data)
  \/ \E n \in Names : CreateFile(n, {"CREAT"}) /\ Kept(data)
  \/ \E h \in Handles : tfs_close(h) /\ Kept(data)
  \/ \E h \in Handles, len \in 1 .. BlockSize : WriteData(h, len) \/ (tfs_read(h, len) /\ Kept(data))
  \/ \E n \in Names : tfs_unlink(n) /\ Kept(data)

DataSpec == DataInit /\ [][DataNext]_dvars

-----------------------------------------------------------------------------
Files == Inodes \ {ROOT_DIR_INUM}

Content(i) ==
  IF i \in WithContent
  THEN [k \in 1 .. i_size[i] |-> data[i_data_block[i]][k - 1]] ELSE <<>>

(* What a tfs_write copies.                                                *)
Writings == {[j \in 1 .. k |-> i] : k \in 1 .. BlockSize, i \in Files}

FileOf == [n \in Names |-> IF Linked(n) = {} THEN None ELSE d_inumber[Min(Linked(n))]]
ContentOf == [i \in Files |-> Content(i)]
CursorOf == [h \in Handles |-> IF h \in stale THEN <<None>>
                               ELSE IF h \in handles THEN <<of_inumber[h], of_offset[h]>>
                               ELSE <<>>]

(* Refinement: files are sequences and handles are cursors in them: what   *)
(* is written through one handle is in its file, where its cursor was, and *)
(* nowhere else, although blocks and inodes are given back and taken again.*)
(* Only handles whose file was unlinked or truncated while they were open  *)
(* can do harm, and that to one file.                                      *)
Store == INSTANCE FileStore WITH
  NoFile <- None, Closed <- <<>>, Loose <- <<None>>,
  file <- FileOf, content <- ContentOf, cursor <- CursorOf

ImplementsFileStore == Store!Spec
=============================================================================
