------------------------------ MODULE PageSink ------------------------------
(***************************************************************************)
(* The file being built (builder/sink.rs).                                 *)
(*                                                                         *)
(* Pages are appended through a buffer, fields written earlier are patched *)
(* in place, and the offset of each page is kept for the directory that    *)
(* ends the file, itself spilled to a temporary file when it grows.        *)
(*                                                                         *)
(* The file is a sequence of cells: a field, an entry of a page, or the    *)
(* entries a filter made one.  Offsets count cells from zero; a page is    *)
(* named by its ordinal, counted from one here, and None is no page.       *)
(***************************************************************************)
EXTENDS Naturals, SequencesExt, FiniteSetsExt

CONSTANTS
    BUFFER_CELLS,         \* capacity of the BufWriter
    DIRECTORY_THRESHOLD   \* page offsets kept in memory

None == 0

Cell(tag, n, entries) == [tag |-> tag, n |-> n, entries |-> entries]
Field(tag, n) == Cell(tag, n, <<>>)
Hole == Field("hole", 0)

\* cursor: the position of the open file.  pos: where the next byte belongs.
NewSink(filter) ==
    [file |-> <<>>, cursor |-> 0, buffer |-> <<>>, pos |-> 0, filter |-> filter,
     directory |-> [buffer |-> <<>>, spilled |-> <<>>, count |-> 0]]

\* write and seek of the file.
WriteAt(file, at, cells) ==
    LET gap == 1..(Max({at, Len(file)}) - Len(file))
    IN  SubSeq(file, 1, Min({at, Len(file)})) \o [i \in gap |-> Hole]
            \o cells \o SubSeq(file, at + Len(cells) + 1, Len(file))

Written(s, cells) ==
    [s EXCEPT !.file = WriteAt(@, s.cursor, cells), !.cursor = @ + Len(cells)]

flush_buffer(s) == [Written(s, s.buffer) EXCEPT !.buffer = <<>>]

\* BufWriter::write_all.
write_all(s, cells) ==
    LET room == IF Len(s.buffer) + Len(cells) > BUFFER_CELLS THEN flush_buffer(s) ELSE s
    IN  IF Len(cells) >= BUFFER_CELLS THEN Written(room, cells)
        ELSE [room EXCEPT !.buffer = @ \o cells]

write_raw(s, cells) == [write_all(s, cells) EXCEPT !.pos = @ + Len(cells)]

-----------------------------------------------------------------------------

\* DirectorySpool::push, and the spill of a buffer that is full.
DirectoryPush(d, offset) ==
    LET buffer == Append(d.buffer, offset)
    IN  IF Len(buffer) >= DIRECTORY_THRESHOLD
          THEN [buffer |-> <<>>, spilled |-> d.spilled \o buffer, count |-> d.count + 1]
          ELSE [d EXCEPT !.buffer = buffer, !.count = @ + 1]

begin_page(s) == [s EXCEPT !.directory = DirectoryPush(@, s.pos)]

PREFIX_CELLS == 3
RIGHT_SIBLING_OFFSET == 2

Encoded(s, entries) ==
    IF s.filter THEN <<Cell("packed", 0, entries)>>
    ELSE [i \in DOMAIN entries |-> Cell("entry", 0, <<entries[i]>>)]

\* The prefix says how long the page is as it is stored, and stays as it is.
write_page(s, kind, left, entries) ==
    LET payload == Encoded(s, entries)
    IN  write_raw(write_raw(s, <<Field(kind, PREFIX_CELLS + Len(payload)), Field("left", left), Field("right", None)>>),
                  payload)

\* Mutation: what is in the buffer is not written first.
patch_at_unflushed(s, offset, cells) == [s EXCEPT !.file = WriteAt(@, offset, cells)]

patch_at(s, offset, cells) ==
    LET patched == Written([flush_buffer(s) EXCEPT !.cursor = offset], cells)
    IN  [patched EXCEPT !.cursor = s.pos]

\* The directory section; its offset and the page count go into the header.
finish_directory(s) ==
    LET offsets == s.directory.spilled \o s.directory.buffer
        cells == [i \in DOMAIN offsets |-> Field("offset", offsets[i])]
    IN  [write_raw(s, cells) EXCEPT !.directory = [buffer |-> <<>>, spilled |-> <<>>, count |-> 0]]

-----------------------------------------------------------------------------
\* The file as a reader opens it.  What is not there reads as a hole.

PAGE_COUNT_FIELD == 0
DIRECTORY_FIELD == 1

CellAt(file, i) == IF i \in DOMAIN file THEN file[i] ELSE Hole

PageCount(file) == CellAt(file, PAGE_COUNT_FIELD + 1).n

PageAt(file, page) ==
    LET at == CellAt(file, CellAt(file, DIRECTORY_FIELD + 1).n + page).n
        prefix(i) == CellAt(file, at + i)
        cells == [i \in 1..Max({prefix(1).n - PREFIX_CELLS, 0}) |-> prefix(PREFIX_CELLS + i)]
    IN  [kind |-> prefix(1).tag, left |-> prefix(2).n, right |-> prefix(3).n,
         entries |-> FlattenSeq([i \in DOMAIN cells |-> cells[i].entries])]
=============================================================================
