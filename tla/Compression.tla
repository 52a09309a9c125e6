------------------------------- MODULE Compression -------------------------------
(****************************************************************************)
(* A compressor and a decompressor of l_miniz.c, and the Lua code that hands *)
(* what one puts out to the other.                                           *)
(****************************************************************************)
EXTENDS Inflate
LOCAL INSTANCE SequencesExt
LOCAL INSTANCE Functions

CONSTANTS
    Chunks,     \* what is written at once
    Pieces,     \* how many bytes are handed over at once
    Headers,    \* whether the compressor was made with "zlib-header"
    MaxCalls    \* bound: of writes and flushes

VARIABLES
    lc, cbout,      \* the compressor, and its output: bits, in whole bytes
    ld, dbout,      \* the decompressor, and its output
    written,        \* all that was written, and how much of it was flushed
    flushed,
    handed,         \* what was read from the decompressor
    result,         \* of the last write to the decompressor
    calls

compressionVars == <<lc, cbout, ld, dbout, written, flushed, handed, result, calls>>

\* Its flags are read from the arguments, and not kept.
lua_miniz_decompressor == tinfl_init

CompressionInit ==
    /\ \E zlib \in Headers : lc = tdefl_init(zlib)
    /\ ld = lua_miniz_decompressor
    /\ cbout = <<>> /\ dbout = <<>> /\ written = <<>> /\ flushed = 0 /\ handed = <<>>
    /\ result = "none" /\ calls = 0

Compressed(r) ==
    /\ calls < MaxCalls /\ calls' = calls + 1
    /\ lc' = r.d /\ cbout' = cbout \o r.put
    /\ UNCHANGED <<ld, dbout, handed, result>>
Compress(s, flush, memory) == Compressed(tdefl_compress(lc, s, flush, memory))

Accepts == lc.status = "okay" /\ ~lc.wants

\* An error in Lua when nothing is compressed any more.
compressor_write(s, memory) ==
    /\ Compress(s, "none", memory)
    /\ written' = IF Accepts THEN written \o s ELSE written
    /\ UNCHANGED flushed

compressor_flush(flush, memory) ==
    /\ Compress(<<>>, flush, memory)
    /\ flushed' = IF Accepts /\ lc'.status \in {"okay", "done"} THEN Len(written) ELSE flushed
    /\ UNCHANGED written

\* compressor:read(n) and decompressor:write: n bytes, or all of them.  The flags with which the
\* decompressor was made are not kept, so no header is expected.
RECURSIVE decompressor_write(_, _, _, _), Rerun(_, _, _)
Rerun(out, e, more) ==
    LET moved == [e.r EXCEPT !.off = Ring(@)]
    IN IF e.status = "more output" THEN decompressor_write(moved, <<>>, more, out \o e.r.out)
       ELSE [r |-> moved, status |-> e.status, out |-> out \o e.r.out]
decompressor_write(r, b, more, out) ==
    Rerun(out, tinfl_decompress([r EXCEPT !.out = <<>>], b, more), more)

Received(e, n) ==
    /\ ld' = [e.r EXCEPT !.out = <<>>] /\ dbout' = dbout \o e.out /\ result' = e.status
    /\ cbout' = SubSeq(cbout, 8 * n + 1, Len(cbout))
    /\ UNCHANGED <<lc, written, flushed, handed, calls>>
Transfer(n, more) ==
    /\ n <= Whole(cbout) /\ n > 0
    /\ Received(decompressor_write(ld, SubSeq(cbout, 1, 8 * n), more, <<>>), n)

\* "final" is given with the rest of a stream that was finished.
Final(n) == lc.finished /\ n = Whole(cbout)

decompressor_read(n) ==
    /\ n <= Len(dbout) /\ n > 0
    /\ handed' = handed \o SubSeq(dbout, 1, n) /\ dbout' = SubSeq(dbout, n + 1, Len(dbout))
    /\ UNCHANGED <<lc, cbout, ld, written, flushed, result, calls>>

CompressionNext ==
    \/ \E memory \in BOOLEAN :
          \/ \E s \in Chunks : compressor_write(s, memory)
          \/ \E flush \in {"sync", "full", "finish"} : compressor_flush(flush, memory)
    \/ \E n \in Pieces \cup {Whole(cbout)} :
          Transfer(n, TRUE) \/ (Final(n) /\ Transfer(n, FALSE))
    \/ decompressor_read(Len(dbout))

----------------------------------------------------------------------------

\* By its definition.
Adler(s) ==
    LET sum(v(_)) == FoldFunctionOnSet(+, 0, [i \in DOMAIN s |-> v(i)], DOMAIN s)
        one(i) == s[i]
        two(i) == (Len(s) - i + 1) * s[i]
    IN <<(1 + sum(one)) % 65521, (Len(s) + sum(two)) % 65521>>

\* What comes out of the decompressor is what was written, in order; after a flush all of it,
\* once the compressed bytes have been handed over; and the end is reported just when the
\* stream was finished.  The checksum behind a header is that of all that was written.
GivesBackWhatWasWritten ==
    IF lc.zlib THEN lc.status = "okay" => lc.adler = Adler(written)
    ELSE /\ IsPrefix(handed \o dbout, written)
         /\ cbout = <<>> => Len(handed \o dbout) >= flushed
         /\ result = "done" <=> (lc.finished /\ cbout = <<>>)
         /\ result # "failed"
================================================================================
