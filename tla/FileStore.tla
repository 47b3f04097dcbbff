----------------------------- MODULE FileStore -----------------------------
(***************************************************************************)
(* What a file system promises: a file is a sequence of bytes that changes *)
(* through the handles it is open by, at their cursors, and a handle stays *)
(* in its file.  TecnicoFSData implements this module.                     *)
(*                                                                         *)
(* Nothing is promised of a loose handle: one whose file was removed, or   *)
(* cut behind its cursor, while it was open.                               *)
(***************************************************************************)
EXTENDS Integers, Sequences

CONSTANTS
  Names, Files, Handles,
  Writings,   \* the sequences of bytes that are written
  NoFile, Closed, Loose

VARIABLES
  file,     \* file[n]: the file of that name, or NoFile
  content,  \* content[i]: the bytes of file i
  cursor    \* cursor[h]: file and offset, Closed or Loose

fvars == <<file, content, cursor>>

Init ==
  /\ file = [n \in Names |-> NoFile]
  /\ content = [i \in Files |-> <<>>]
  /\ cursor = [h \in Handles |-> Closed]

(* A handle is opened in c unless all are in use.                          *)
OpenIn(c, i, at) ==
  \/ \E h \in Handles : c[h] = Closed /\ cursor' = [c EXCEPT ![h] = <<i, at>>]
  \/ (\A h \in Handles : c[h] # Closed) /\ cursor' = c

In(c, i) == {h \in Handles : c[h] \notin {Closed, Loose} /\ c[h][1] = i}

Without(H) == [h \in Handles |-> IF h \in H THEN Loose ELSE cursor[h]]

Open(n) ==
  /\ file[n] # NoFile
  /\ OpenIn(cursor, file[n], 0) \/ OpenIn(cursor, file[n], Len(content[file[n]]))
  /\ UNCHANGED <<file, content>>

OpenTruncated(n) ==
  /\ file[n] # NoFile
  /\ content' = [content EXCEPT ![file[n]] = <<>>]
  /\ OpenIn(Without({h \in In(cursor, file[n]) : cursor[h][2] > 0}), file[n], 0)
  /\ UNCHANGED file

Create(n) ==
  /\ file[n] = NoFile
  /\ \E i \in Files :
       /\ \A m \in Names : file[m] # i
       /\ file' = [file EXCEPT ![n] = i]
       /\ OpenIn(cursor, i, 0)
  /\ UNCHANGED content

Close(h) ==
  /\ cursor' = [cursor EXCEPT ![h] = Closed]
  /\ UNCHANGED <<file, content>>

(* Over what the file holds at the cursor, and beyond its end.             *)
Overwritten(s, at, bytes) == SubSeq(s, 1, at) \o bytes \o SubSeq(s, at + Len(bytes) + 1, Len(s))

Write(h, bytes) ==
  /\ cursor[h] \notin {Closed, Loose}
  /\ LET i  == cursor[h][1]
         at == cursor[h][2]
     IN  /\ content' = [content EXCEPT ![i] = Overwritten(@, at, bytes)]
         /\ cursor' = [cursor EXCEPT ![h] = <<i, at + Len(bytes)>>]
  /\ UNCHANGED file

Read(h) ==
  /\ cursor[h] \notin {Closed, Loose}
  /\ \E at \in cursor[h][2] .. Len(content[cursor[h][1]]) :
       cursor' = [cursor EXCEPT ![h] = <<@[1], at>>]
  /\ UNCHANGED <<file, content>>

Remove(n) ==
  /\ file[n] # NoFile
  /\ file' = [file EXCEPT ![n] = NoFile]
  /\ content' = [content EXCEPT ![file[n]] = <<>>]
  /\ cursor' = Without(In(cursor, file[n]))

(* What is done through a loose handle may change one file.                *)
Disturb ==
  /\ \E h \in Handles : cursor[h] = Loose
  /\ \E i \in Files : \A j \in Files \ {i} : content'[j] = content[j]
  /\ UNCHANGED <<file, cursor>>

Destroy == file' = [n \in Names |-> NoFile] /\ content' = [i \in Files |-> <<>>]
           /\ cursor' = [h \in Handles |-> Closed]

Next ==
  \/ \E n \in Names : Open(n) \/ OpenTruncated(n) \/ Create(n) \/ Remove(n)
  \/ \E h \in Handles : Close(h) \/ Read(h)
  \/ \E h \in Handles, bytes \in Writings : Write(h, bytes)
  \/ Disturb
  \/ Destroy

Spec == Init /\ [][Next]_fvars
=============================================================================
