---------------------------- MODULE HeaderTable ----------------------------
(***************************************************************************)
(* How parser_t records a message's target, headers and trailers.  The     *)
(* receive buffer is an array of cells; a cell holds the position of its   *)
(* byte in the peer's stream, so what a view resolves to can be compared   *)
(* with what was sent.  Headers are recorded as (offset, length) into the  *)
(* receive buffer, folded values and trailers are copied to the spill      *)
(* buffer.  llhttp (external) is the token stream: it reports the name,    *)
(* value and target bytes that lie together in the window as one run.      *)
(***************************************************************************)
EXTENDS Naturals, Sequences, SequencesExt

CONSTANTS HdWires,       \* streams of [t: token, line: 0..n]; lines grow along a stream
          HdField,       \* line -> the field its name spells
          HdForbidden,   \* field_forbidden_in_trailer
          HdCap, HdSpillCap, HdMaxHeaders, HdMaxTrailers,
          HdLenMax,      \* the largest uint16_t
          HdReads        \* bound: the numbers of bytes one receive may return

HdBlank == [off |-> 0, len |-> 0, spilled |-> FALSE]
HdNothing == [name |-> HdBlank, value |-> HdBlank, field |-> "Other", trailer |-> FALSE]

VARIABLES hdWire,    \* the stream of this behaviour
          hdSent,    \* bytes of it received
          hdMem,     \* the receive buffer
          hdW,       \* its write position, the end of the feed window
          hdPos,     \* feed_pos_
          hdMark,    \* where the header section of the message ended
          hdPhase,   \* "pick" -> "head" -> "body" -> "trailer" -> "done", or "error"
          hdSpill,   \* the spill buffer
          hdTab,     \* headers_
          hdPending, hdValid, hdSkip,   \* pending_, pending_valid_, skip_trailer_
          hdTarget,
          hdFirst    \* stream position at which the message began

hdVars == <<hdWire, hdSent, hdMem, hdW, hdPos, hdMark, hdPhase, hdSpill, hdTab,
            hdPending, hdValid, hdSkip, hdTarget, hdFirst>>

HdInit ==
  /\ hdWire = <<>> /\ hdSent = 0 /\ hdMem = [c \in 0..HdCap - 1 |-> 0]
  /\ hdW = 0 /\ hdPos = 0 /\ hdMark = 0 /\ hdPhase = "pick" /\ hdSpill = <<>> /\ hdTab = <<>>
  /\ hdPending = HdNothing /\ hdValid = FALSE /\ hdSkip = FALSE /\ hdTarget = HdBlank /\ hdFirst = 1

HdBegin ==
  /\ hdPhase = "pick" /\ hdWire' \in HdWires /\ hdPhase' = "head"
  /\ UNCHANGED <<hdSent, hdMem, hdW, hdPos, hdMark, hdSpill, hdTab, hdPending, hdValid, hdSkip, hdTarget, hdFirst>>

HdView(part) ==
  IF part.spilled THEN SubSeq(hdSpill, part.off + 1, part.off + part.len)
                  ELSE [k \in 1..part.len |-> hdMem[part.off + k - 1]]

\* A read into writable(); inside a body the spent tail is rewound first.
HdRead(n) ==
  LET base == IF hdPhase \in {"body", "trailer"} THEN hdMark ELSE hdW
  IN  /\ hdPhase \in {"head", "body", "trailer"} /\ hdPos = hdW
      /\ hdSent + n <= Len(hdWire)
      /\ \/ /\ base + n <= HdCap
            /\ hdMem' = [c \in DOMAIN hdMem |->
                           IF c \in base..(base + n - 1) THEN hdSent + 1 + c - base ELSE hdMem[c]]
            /\ hdW' = base + n /\ hdPos' = base /\ hdSent' = hdSent + n
            /\ UNCHANGED hdPhase
         \/ /\ base = HdCap
            /\ hdPhase' = "error"
            /\ UNCHANGED <<hdMem, hdW, hdPos, hdSent>>
      /\ UNCHANGED <<hdWire, hdMark, hdSpill, hdTab, hdPending, hdValid, hdSkip, hdTarget, hdFirst>>

\* Mutant of HdAdjoins: whatever comes next is taken for the rest of the view.
HdAdjoinsAlways(part, at) == ~part.spilled

\* A run that starts where the recorded view ends only makes it longer.
HdAdjoins(part, at) == ~part.spilled /\ part.off + part.len = at

\* Lengths are kept as uint16_t.
HdNarrow(n) == n % (HdLenMax + 1)

\* accumulate(): n bytes from cell `at` on join a name, a value or the target.  The
\* length of a first run is narrowed unchecked, that of a longer view is checked.
HdAccumulate(part, at, n, allowSpill, mustCopy) ==
  LET bytes == [k \in 1..n |-> hdMem[at + k - 1]]
      fails == [ok |-> FALSE, part |-> part, spill |-> hdSpill]
      copied(p, spill) == IF Len(spill) > HdSpillCap THEN fails
                          ELSE [ok |-> TRUE, part |-> p, spill |-> spill]
      grown(p, spill) == IF part.len + n > HdLenMax THEN fails ELSE copied(p, spill)
  IN  IF part.len = 0
        THEN IF part.spilled \/ mustCopy
               THEN copied([off |-> Len(hdSpill), len |-> HdNarrow(n), spilled |-> TRUE], hdSpill \o bytes)
               ELSE [ok |-> TRUE, part |-> [off |-> at, len |-> HdNarrow(n), spilled |-> FALSE], spill |-> hdSpill]
      ELSE IF HdAdjoins(part, at)
        THEN grown([part EXCEPT !.len = @ + n], hdSpill)
      ELSE IF part.spilled
        THEN grown([part EXCEPT !.len = @ + n], hdSpill \o bytes)
      ELSE IF ~allowSpill THEN fails
      ELSE grown([off |-> Len(hdSpill), len |-> part.len + n, spilled |-> TRUE],
                 hdSpill \o HdView(part) \o bytes)

HdTrailing == hdPhase = "trailer"

HdToken == hdWire[hdMem[hdPos]]

HdKeepsWindow == UNCHANGED <<hdWire, hdSent, hdMem, hdW, hdFirst>>

HdTakes(n) == hdPhase \in {"head", "body", "trailer"} /\ hdPos < hdW /\ hdPos' = hdPos + n

HdConsumes == HdTakes(1)

\* The bytes of one kind that lie together at the front of the window.
HdRun ==
  CHOOSE n \in 1..(hdW - hdPos) :
    /\ \A k \in hdPos..(hdPos + n - 1) : hdWire[hdMem[k]] = HdToken
    /\ hdPos + n < hdW => hdWire[hdMem[hdPos + n]] # HdToken

HdOnUrl ==
  LET r == HdAccumulate(hdTarget, hdPos, HdRun, TRUE, FALSE)
  IN  /\ HdTakes(HdRun) /\ HdToken.t = "url"
      /\ hdTarget' = r.part /\ hdSpill' = r.spill
      /\ hdPhase' = IF r.ok THEN hdPhase ELSE "error"
      /\ HdKeepsWindow /\ UNCHANGED <<hdMark, hdTab, hdPending, hdValid, hdSkip>>

\* must_copy: a trailer's bytes lie in the region the reader writes over.
HdCopies == HdTrailing

\* on_header_field() and on_header_value(); a trailer without room is dropped.
HdOnRun(token) ==
  LET old == IF token = "name" THEN hdPending.name ELSE hdPending.value
      r   == HdAccumulate(old, hdPos, HdRun, token = "value" \/ HdTrailing, HdCopies)
  IN  /\ HdTakes(HdRun) /\ HdToken.t = token
      /\ \/ /\ HdTrailing /\ (HdMaxTrailers = 0 \/ hdSkip)
            /\ UNCHANGED <<hdPending, hdValid, hdSkip, hdSpill, hdPhase>>
         \/ /\ ~(HdTrailing /\ (HdMaxTrailers = 0 \/ hdSkip)) /\ r.ok
            /\ hdPending' = IF token = "name" THEN [hdPending EXCEPT !.name = r.part, !.trailer = HdTrailing]
                                              ELSE [hdPending EXCEPT !.value = r.part]
            /\ hdValid' = (token = "name" \/ hdValid)
            /\ hdSpill' = r.spill
            /\ UNCHANGED <<hdSkip, hdPhase>>
         \/ /\ HdTrailing /\ HdMaxTrailers # 0 /\ ~hdSkip /\ ~r.ok
            /\ hdSkip' = TRUE /\ hdPending' = HdNothing /\ hdValid' = FALSE
            /\ UNCHANGED <<hdSpill, hdPhase>>
         \/ /\ ~HdTrailing /\ ~r.ok
            /\ hdPhase' = "error"
            /\ UNCHANGED <<hdPending, hdValid, hdSkip, hdSpill>>
      /\ HdKeepsWindow /\ UNCHANGED <<hdMark, hdTab, hdTarget>>

\* field_from_name() on what the recorded name resolves to.
HdFieldOf(bytes) ==
  LET lines == {hdWire[bytes[k]].line : k \in DOMAIN bytes}
  IN  IF \E l \in lines : bytes = SelectSeq([i \in DOMAIN hdWire |-> i], LAMBDA i : hdWire[i] = [t |-> "name", line |-> l])
        THEN HdField[CHOOSE l \in lines : TRUE] ELSE "Other"

HdOnFieldComplete ==
  /\ HdConsumes /\ HdToken.t = "colon"
  /\ hdPending' = IF hdValid THEN [hdPending EXCEPT !.field = HdFieldOf(HdView(hdPending.name))] ELSE hdPending
  /\ HdKeepsWindow /\ UNCHANGED <<hdMark, hdPhase, hdSpill, hdTab, hdValid, hdSkip, hdTarget>>

HdCount(trailer) == Len(SelectSeq(hdTab, LAMBDA e : e.trailer = trailer))

\* on_header_value_complete(), finish_header() and headers_t::add().
HdOnValueComplete ==
  LET e == hdPending
      full == HdCount(e.trailer) >= (IF e.trailer THEN HdMaxTrailers ELSE HdMaxHeaders)
      dropped == ~hdValid \/ (e.trailer /\ (full \/ e.field \in HdForbidden))
  IN  /\ HdConsumes /\ HdToken.t = "eol"
      /\ hdSkip' = FALSE /\ hdValid' = FALSE
      /\ hdPending' = IF hdValid THEN HdNothing ELSE hdPending
      /\ hdPhase' = IF ~dropped /\ full THEN "error" ELSE hdPhase
      /\ hdTab' = IF dropped \/ full THEN hdTab ELSE Append(hdTab, e)
      /\ HdKeepsWindow /\ UNCHANGED <<hdMark, hdSpill, hdTarget>>

\* on_headers_complete(): an HTTP/1.1 request names exactly one host.
HdOnHeadersComplete ==
  /\ HdConsumes /\ HdToken.t = "end"
  /\ hdPhase' = IF Len(SelectSeq(hdTab, LAMBDA e : ~e.trailer /\ e.field = "Host")) = 1 THEN "body" ELSE "error"
  /\ hdMark' = hdPos + 1
  /\ HdKeepsWindow /\ UNCHANGED <<hdSpill, hdTab, hdPending, hdValid, hdSkip, hdTarget>>

\* Body bytes and chunk framing are handed over and forgotten; separators and
\* folding white space reach no callback.
HdPasses ==
  /\ HdConsumes /\ HdToken.t \in {"body", "last", "space"}
  /\ hdPhase' = IF HdToken.t = "last" THEN "trailer" ELSE hdPhase
  /\ HdKeepsWindow /\ UNCHANGED <<hdMark, hdSpill, hdTab, hdPending, hdValid, hdSkip, hdTarget>>

HdOnMessageComplete ==
  /\ HdConsumes /\ HdToken.t = "done"
  /\ hdPhase' = "done"
  /\ HdKeepsWindow /\ UNCHANGED <<hdMark, hdSpill, hdTab, hdPending, hdValid, hdSkip, hdTarget>>

\* reset(), the buffer reclaimed when nothing is pipelined, and the next
\* on_message_begin().
HdReset ==
  LET spent == hdPos = hdW
  IN  /\ hdPhase = "done" /\ hdPhase' = "head"
      /\ hdSpill' = <<>> /\ hdTab' = <<>> /\ hdPending' = HdNothing /\ hdValid' = FALSE /\ hdSkip' = FALSE
      /\ hdTarget' = HdBlank
      /\ hdW' = IF spent THEN 0 ELSE hdW
      /\ hdPos' = IF spent THEN 0 ELSE hdPos
      /\ hdFirst' = hdSent - (hdW - hdPos) + 1
      /\ UNCHANGED <<hdWire, hdSent, hdMem, hdMark>>

HdNext ==
  \/ HdBegin \/ HdOnUrl \/ HdOnRun("name") \/ HdOnRun("value") \/ HdOnFieldComplete
  \/ HdOnValueComplete \/ HdOnHeadersComplete \/ HdPasses \/ HdOnMessageComplete \/ HdReset
  \/ \E n \in HdReads : HdRead(n)

-----------------------------------------------------------------------------
\* headers_t::get(field) and trailer(field): the first entry of the section.
HdGet(field, trailer) ==
  LET hits == SelectSeq(hdTab, LAMBDA e : e.trailer = trailer /\ e.field = field)
  IN  IF hits = <<>> THEN <<>> ELSE HdView(hits[1].value)

HdTypeOK ==
  /\ hdW \in 0..HdCap /\ hdPos \in 0..hdW /\ hdMark \in 0..HdCap
  /\ Len(hdSpill) <= HdSpillCap /\ hdTarget.len <= HdLenMax
  /\ hdPhase \in {"pick", "head", "body", "trailer", "done", "error"}

HdParsed == hdSent - (hdW - hdPos)

\* What the peer sent as token t of a line of the current message.
HdSentAs(t, line) ==
  SelectSeq([i \in 1..HdParsed |-> i], LAMBDA i : i >= hdFirst /\ hdWire[i] = [t |-> t, line |-> line])

\* The lines of the current message that are complete, in order.
HdLines(trailer) ==
  LET ends == SelectSeq([i \in 1..HdParsed |-> i], LAMBDA i : i >= hdFirst /\ hdWire[i].t = "eol")
      isTrailer(i) == \E j \in hdFirst..i : hdWire[j].t = "last"
  IN  SelectSeq(ends, LAMBDA i : isTrailer(i) = trailer)

\* However the message was cut into reads, and although body reads write over
\* the tail of the buffer: the header section has an entry for every line received, in
\* order, with name and value byte for byte as sent; each trailer kept is one the
\* peer sent whole, never a forbidden field, never more than the budget; and
\* the two never answer for each other.  Of a name, value or target longer than a
\* uint16_t, which a receive buffer over 64K can hold, the entry is there and the bytes
\* are not promised: a first run of that length is cut without an error.
HdEntriesIntact ==
  hdPhase # "error" =>
    LET same(view, sent) == Len(sent) <= HdLenMax => view = sent
        shows(e, i) == /\ same(HdView(e.name), HdSentAs("name", hdWire[i].line))
                       /\ same(HdView(e.value), HdSentAs("value", hdWire[i].line))
        heads == SelectSeq(hdTab, LAMBDA e : ~e.trailer)
        tails == SelectSeq(hdTab, LAMBDA e : e.trailer)
        lines == HdLines(FALSE)
    IN  /\ Len(heads) = Len(lines) /\ \A k \in DOMAIN heads : shows(heads[k], lines[k])
        /\ \A k \in DOMAIN tails : \E j \in DOMAIN HdLines(TRUE) : shows(tails[k], HdLines(TRUE)[j])
        /\ Len(tails) <= HdMaxTrailers /\ \A k \in DOMAIN tails : tails[k].field \notin HdForbidden
        /\ hdPhase \in {"body", "trailer", "done"} =>
             /\ same(HdView(hdTarget), HdSentAs("url", 0))
             /\ \E k \in DOMAIN lines :
                   /\ HdField[hdWire[lines[k]].line] = "Host"
                   /\ same(HdGet("Host", FALSE), HdSentAs("value", hdWire[lines[k]].line))
             /\ HdGet("Host", TRUE) = <<>>
=============================================================================
