------------------------------ MODULE DumpLoad ------------------------------
(***************************************************************************)
(* The tools mdbx_dump and mdbx_load: a database written as lines of text  *)
(* and read back.                                                          *)
(*                                                                         *)
(* A database is a function from the names of its tables, or of "" for the *)
(* main one, to [dup, seq, recs]: MDBX_DUPSORT, the sequence and the set   *)
(* of pairs of a key and a value, which are sequences of bytes.  A line of *)
(* a header is [hdr, val]; a line of data is [hdr |-> "", text] with the   *)
(* characters of the line.  Left out are the -T and -a modes of loading    *)
(* and the flags of tables other than MDBX_DUPSORT.                        *)
(***************************************************************************)
EXTENDS Codecs

CONSTANT MaxKeySize     \* a longer key is refused with MDBX_BAD_VALSIZE

MAIN == ""
NoTable == [dup |-> FALSE, seq |-> 0, recs |-> {}]

\* The order of keys and of values: memcmp, then the length.
RECURSIVE Less(_, _)
Less(a, b) ==
    IF a = <<>> \/ b = <<>> THEN a = <<>> /\ b # <<>>
    ELSE Head(a) < Head(b) \/ (Head(a) = Head(b) /\ Less(Tail(a), Tail(b)))

RecLess(r, s) == Less(r[1], s[1]) \/ (r[1] = s[1] /\ Less(r[2], s[2]))

-----------------------------------------------------------------------------
(* mdbx_dump.                                                              *)

isprint(c) == c \in 32 .. 126
BACKSLASH == 92
SPACE == 32

Hdr(item, val) == [hdr |-> item, val |-> val, text |-> <<>>]
Text(text) == [hdr |-> "", val |-> "", text |-> text]

\* Mutant: a backslash is printed as it is.
dumpvalBare(v, print) ==
    LET hex(c) == << HexDigit(c \div 16, FALSE), HexDigit(c % 16, FALSE) >>
    IN  <<SPACE>> \o FlattenSeq([i \in DOMAIN v |->
            IF ~print THEN hex(v[i])
            ELSE IF isprint(v[i]) THEN <<v[i]>> ELSE <<BACKSLASH>> \o hex(v[i])])

\* dumpval: a space, then the bytes; with -p the printable ones as they are.
dumpval(v, print) ==
    LET hex(c) == << HexDigit(c \div 16, FALSE), HexDigit(c % 16, FALSE) >>
        put(c) == IF ~print THEN hex(c)
                  ELSE IF isprint(c) /\ c # BACKSLASH THEN <<c>>
                  ELSE <<BACKSLASH>> \o hex(c)
    IN  <<SPACE>> \o FlattenSeq([i \in DOMAIN v |-> put(v[i])])

\* The header of a table; the canary is written before the first table only.
DumpHeader(t, name, o, canary) ==
    << Hdr("VERSION", 3) >>
    \o (IF canary # 0 THEN << Hdr("canary", canary) >> ELSE <<>>)
    \o << Hdr("format", IF o.print THEN "print" ELSE "bytevalue") >>
    \o (IF name # MAIN THEN << Hdr("database", name) >> ELSE <<>>)
    \o << Hdr("type", "btree"), Hdr("duplicates", t.dup) >>
    \o (IF t.dup THEN << Hdr("dupsort", TRUE) >> ELSE <<>>)
    \o (IF t.seq > 0 THEN << Hdr("sequence", t.seq) >> ELSE <<>>)
    \o << Hdr("HEADER", "END") >>

\* The records of a table.  In the concise mode the further values of a key go
\* without it, behind one more space.
DumpData(t, o) ==
    LET recs == SetToSortSeq(t.recs, RecLess)
        more(i) == o.concise /\ t.dup /\ i > 1 /\ recs[i - 1][1] = recs[i][1]
        lines(i) == IF more(i)
                    THEN << Text(<<SPACE>> \o dumpval(recs[i][2], o.print)) >>
                    ELSE << Text(dumpval(recs[i][1], o.print)),
                            Text(dumpval(recs[i][2], o.print)) >>
    IN  FlattenSeq([i \in DOMAIN recs |-> lines(i)])

dump_tbl(t, name, o, canary) ==
    DumpHeader(t, name, o, canary) \o DumpData(t, o) \o << Hdr("DATA", "END") >>

\* main of mdbx_dump: the main table, the one of -s, or with -a all the named
\* ones and the main one only if it has records and no table.
dump(db, canary, o) ==
    LET names == SetToSeq(DOMAIN db \ {MAIN})
        one(name, first) == dump_tbl(db[name], name, o, IF first THEN canary ELSE 0)
    IN  IF ~o.all THEN one(o.table, TRUE)
        ELSE IF names # <<>> THEN FlattenSeq([i \in DOMAIN names |-> one(names[i], i = 1)])
        ELSE IF db[MAIN].recs # {} THEN one(MAIN, TRUE)
        ELSE <<>>

-----------------------------------------------------------------------------
(* mdbx_load: reading.                                                     *)

NoHeader == [name |-> MAIN, dup |-> FALSE, seq |-> 0]

\* readhdr from line n on: keywords it does not know are skipped.
RECURSIVE readhdr(_, _, _, _, _)
readhdr(lines, n, h, print, canary) ==
    IF n > Len(lines)
    THEN [rc |-> "EOF", at |-> n, h |-> h, print |-> print, canary |-> canary]
    ELSE LET item == lines[n].hdr
             val == lines[n].val
         IN  CASE item = "HEADER" ->
                    [rc |-> "SUCCESS", at |-> n + 1, h |-> h, print |-> print,
                     canary |-> canary]
               [] item = "format" -> readhdr(lines, n + 1, h, val = "print", canary)
               [] item = "database" ->
                    readhdr(lines, n + 1, [h EXCEPT !.name = val], print, canary)
               [] item \in {"duplicates", "dupsort"} ->
                    readhdr(lines, n + 1, [h EXCEPT !.dup = val], print, canary)
               [] item = "sequence" ->
                    readhdr(lines, n + 1, [h EXCEPT !.seq = val], print, canary)
               [] item = "canary" -> readhdr(lines, n + 1, h, print, val)
               [] OTHER -> readhdr(lines, n + 1, h, print, canary)

unhex(a, b) == HexValue(a) * 16 + HexValue(b)

\* A line of "print" format; Codecs!Bad stands for badend.
RECURSIVE PlainText(_, _, _)
PlainText(s, r, out) ==
    IF r > Len(s) THEN Ok(out)
    ELSE IF s[r] # BACKSLASH THEN PlainText(s, r + 1, Append(out, s[r]))
    ELSE IF r < Len(s) /\ s[r + 1] = BACKSLASH
    THEN PlainText(s, r + 2, Append(out, BACKSLASH))
    ELSE IF r + 2 > Len(s) \/ ~isxdigit(s[r + 1]) \/ ~isxdigit(s[r + 2]) THEN Bad
    ELSE PlainText(s, r + 3, Append(out, unhex(s[r + 1], s[r + 2])))

ByteValue(s) ==
    IF Len(s) % 2 = 1 \/ \E i \in DOMAIN s : ~isxdigit(s[i]) THEN Bad
    ELSE Ok([i \in 1 .. Len(s) \div 2 |-> unhex(s[2 * i - 1], s[2 * i])])

\* readline from column at.col of line at.line on.  A second space says that
\* the value is the one before, and is left for the next call (ungetc).
readline(lines, at, before, print) ==
    LET line == lines[at.line]
        rest == SubSeq(line.text, at.col + 1, Len(line.text))
        got == IF print THEN PlainText(rest, 1, <<>>) ELSE ByteValue(rest)
        next == [line |-> at.line + 1, col |-> 1]
    IN  CASE at.line > Len(lines) -> [rc |-> "EOF", at |-> at, val |-> before]
          [] at.line <= Len(lines) /\ line.hdr = "DATA" ->
                [rc |-> "EOF", at |-> next, val |-> before]
          [] OTHER ->
                IF line.hdr # "" \/ at.col > Len(line.text) \/ line.text[at.col] # SPACE
                THEN [rc |-> "ENODATA", at |-> next, val |-> before]
                ELSE IF rest # <<>> /\ Head(rest) = SPACE
                THEN [rc |-> "SUCCESS", at |-> [at EXCEPT !.col = @ + 1], val |-> before]
                ELSE [rc |-> IF got.ok THEN "SUCCESS" ELSE "ENODATA", at |-> next,
                      val |-> got.bytes]

-----------------------------------------------------------------------------
(* mdbx_load: storing.                                                     *)

\* mdbx_cursor_put with the flags of the tool (external to it).
cursor_put(recs, dup, k, v, noover) ==
    IF Len(k) > MaxKeySize THEN [rc |-> "BAD_VALSIZE", recs |-> recs]
    ELSE IF noover /\ \E r \in recs : r[1] = k THEN [rc |-> "KEYEXIST", recs |-> recs]
    ELSE [rc |-> "SUCCESS",
          recs |-> {<<k, v>>} \cup IF dup THEN recs ELSE {r \in recs : r[1] # k}]

\* What follows mdbx_cursor_put.  A skipped record goes on with the error in rc,
\* which is what the condition of the loop tests.  safe is what a checkpoint has
\* made durable.
StoreRec(s, o, k, v, put) ==
    LET read == [s EXCEPT !.at = v.at, !.key = k.val, !.data = v.val, !.rc = put.rc,
                          !.recs = put.recs, !.count = @ + 1]
    IN  IF k.rc = "EOF" THEN [s EXCEPT !.at = k.at, !.rc = "EOF"]
        ELSE IF k.rc # "SUCCESS" THEN [s EXCEPT !.rc = k.rc, !.bail = TRUE]
        ELSE IF v.rc # "SUCCESS" THEN [s EXCEPT !.rc = v.rc, !.bail = TRUE]
        ELSE IF \/ put.rc = "KEYEXIST" /\ o.noover
                \/ put.rc = "BAD_VALSIZE" /\ o.rescue
        THEN [read EXCEPT !.count = s.count]
        ELSE IF put.rc # "SUCCESS" THEN [read EXCEPT !.bail = TRUE]
        ELSE IF o.batch > 0 /\ read.count >= o.batch
        THEN [read EXCEPT !.count = 0, !.saved = TRUE, !.safe = read.recs]
        ELSE read

StorePair(s, o, k, v) == StoreRec(s, o, k, v, cursor_put(s.recs, s.dup, k.val, v.val, o.noover))
ReadValue(lines, o, s, k) == StorePair(s, o, k, readline(lines, k.at, s.data, s.print))

\* The loop over the records of a table.
RECURSIVE LoadRecs(_, _, _)
LoadRecs(lines, o, s) ==
    IF s.rc # "SUCCESS" THEN s
    ELSE LoadRecs(lines, o,
            ReadValue(lines, o, s, readline(lines, s.at, s.key, s.print)))

\* dbi_bind with MDBX_CREATE: an empty table takes the flags asked for; the main
\* one is not empty if it has named ones.
HasRecords(db, name) == db[name].recs # {} \/ (name = MAIN /\ DOMAIN db # {MAIN})
OpenTable(db, h) ==
    IF h.name \notin DOMAIN db THEN [NoTable EXCEPT !.dup = h.dup]
    ELSE IF HasRecords(db, h.name) THEN db[h.name]
    ELSE [db[h.name] EXCEPT !.dup = h.dup]

\* The end of a table, with what its records left: the commit, or bailout.
EndTable(db, h, old, s) ==
    LET put(final) == [name \in DOMAIN db \cup {h.name} |->
                          IF name = h.name THEN [old EXCEPT !.seq = h.seq, !.recs = final]
                          ELSE IF name = MAIN THEN [db[MAIN] EXCEPT !.dup = FALSE]
                          ELSE db[name]]
    IN  IF ~s.bail THEN [rc |-> "SUCCESS", at |-> s.at.line, db |-> put(s.recs)]
        ELSE [rc |-> s.rc, at |-> s.at.line, db |-> IF s.saved THEN put(s.safe) ELSE db]

\* One table: mdbx_dbi_open_ex, the sequence, -p, the records and the commit.
LoadTable(lines, o, db, h, old, at, print) ==
    IF old.dup # h.dup \/ (h.name # MAIN /\ db[MAIN].dup /\ HasRecords(db, MAIN))
    THEN [rc |-> "INCOMPATIBLE", at |-> at, db |-> db]
    ELSE IF old.seq > h.seq THEN [rc |-> "RESULT_TRUE", at |-> at, db |-> db]
    ELSE EndTable(db, h, old, LoadRecs(lines, o,
            [at |-> [line |-> at, col |-> 1], key |-> <<>>, data |-> <<>>,
             recs |-> IF o.purge THEN {} ELSE old.recs, safe |-> {}, saved |-> FALSE,
             dup |-> old.dup, print |-> print, count |-> 0, rc |-> "SUCCESS",
             bail |-> FALSE]))

\* The loop over the tables: header, table, next header.
RECURSIVE NextTable(_, _, _, _, _)
LoadTables(lines, o, db, r, canary) ==
    IF r.rc = "EOF" THEN [rc |-> "SUCCESS", db |-> db, canary |-> canary]
    ELSE NextTable(lines, o, r, canary,
                   LoadTable(lines, o, db, r.h, OpenTable(db, r.h), r.at, r.print))
NextTable(lines, o, r, canary, t) ==
    IF t.rc # "SUCCESS" THEN [rc |-> t.rc, db |-> t.db, canary |-> canary]
    ELSE LoadTables(lines, o, t.db, readhdr(lines, t.at, NoHeader, r.print, 0), canary)

\* main of mdbx_load; the canary counts in the first header only.
LoadFrom(lines, o, db, first) ==
    IF first.rc # "SUCCESS" THEN [rc |-> "ENODATA", db |-> db, canary |-> 0]
    ELSE LoadTables(lines, o, db, first, first.canary)
load(lines, o, db) ==
    LoadFrom(lines, o, db, readhdr(lines, 1, NoHeader, FALSE, 0))

=============================================================================
