---------------------------- MODULE SegmentFile -----------------------------
(***************************************************************************)
(* The segment file: posting lists in delta-coded, bit-packed blocks       *)
(* (lakesearch-core/src/posting.rs), written with the term dictionaries    *)
(* and tables by SegmentBuilder::build (segment/build.rs) and read back by *)
(* SegmentReader (segment/read.rs).                                        *)
(*                                                                         *)
(* A file is a sequence of slots, each of which says what kind of field it *)
(* holds, so that all offsets and lengths count slots: a number, a byte of *)
(* packed bits, a path, a key of an FST with its value.  Offsets count     *)
(* from 0 as in the code.  An Err is {}, and Ok(x) is {x}.                 *)
(***************************************************************************)
EXTENDS DocSets

CONSTANTS
  Chars,              \* Chars[t]: the characters of term t
  POSTING_BLOCK_SIZE, \* doc ids per block (128 in the code)
  Lz4MinBytes,        \* packed bytes from which on LZ4 is tried (32)
  U32_MAX,            \* the largest number of 32 bits
  Crc(_)              \* the checksum of a sequence of slots (CRC32)

\* The order of strings.
Before(a, b) ==
  \E n \in DOMAIN b :
    /\ n - 1 <= Len(a)
    /\ SubSeq(a, 1, n - 1) = SubSeq(b, 1, n - 1)
    /\ n > Len(a) \/ a[n] < b[n]

\* Terms are numbered in their order, and no two are spelled alike.
ASSUME SegmentFileAssumption ==
  /\ DOMAIN Chars \subseteq Nat /\ \A t \in DOMAIN Chars : Chars[t] \in Seq(Nat)
  /\ \A s, t \in DOMAIN Chars : s < t => Before(Chars[s], Chars[t])
  /\ POSTING_BLOCK_SIZE \in Nat \ {0}
  /\ Lz4MinBytes \in Nat

U(n) == <<"number", n>>
At(file, offset) == file[offset + 1][2]
Slice(file, offset, n) == SubSeq(file, offset + 1, offset + n)
-----------------------------------------------------------------------------
(***************************************************************************)
(* bitpack and bitunpack: little-endian bits, each value in bit_width bits *)
(* at bit i * bit_width.                                                   *)
(***************************************************************************)
Pow2[k \in Nat] == IF k = 0 THEN 1 ELSE 2 * Pow2[k - 1]
Bit(v, k) == (v \div Pow2[k]) % 2
FromBits(bits) == MapThenSumSet(LAMBDA k : bits[k] * Pow2[k], DOMAIN bits)
CeilDiv(n, d) == (n + d - 1) \div d

bitpack(values, bit_width) ==
  LET total_bits == Len(values) * bit_width
      bit(n) == IF n < total_bits THEN Bit(values[n \div bit_width + 1], n % bit_width) ELSE 0
  IN [j \in 1..CeilDiv(total_bits, 8) |-> FromBits([k \in 0..7 |-> bit(8 * (j - 1) + k)])]

bitunpack(bytes, count, bit_width) ==
  LET bit(n) == Bit(bytes[n \div 8 + 1], n % 8)
  IN [i \in 1..count |-> FromBits([k \in 0..bit_width - 1 |-> bit((i - 1) * bit_width + k)])]

\* The bits of a number without its leading zeros.
BitWidth[n \in Nat] == IF n = 0 THEN 0 ELSE 1 + BitWidth[n \div 2]

\* External: a compressor that gets any input down to a slot of its own.
Lz4(bytes) == <<<<"lz4", bytes>>>>
Raw(bytes) == [j \in DOMAIN bytes |-> <<"byte", bytes[j]>>]

\* encode_block.  The first delta is 0: the header has min_doc_id.
Deltas(doc_ids) ==
  [i \in DOMAIN doc_ids |-> IF i = 1 THEN 0 ELSE doc_ids[i] - doc_ids[i - 1]]

Block(doc_ids, bit_width, packed) ==
  LET compress == Len(packed) >= Lz4MinBytes /\ Len(Lz4(packed)) < Len(packed)
      data == IF compress THEN Lz4(packed) ELSE Raw(packed)
  IN <<U(Len(doc_ids)), U(doc_ids[1]), U(bit_width), U(IF compress THEN 1 ELSE 0),
       U(Len(data)), U(IF compress THEN Len(packed) ELSE 0)>> \o data

BlockOf(doc_ids, deltas, bit_width) == Block(doc_ids, bit_width, bitpack(deltas, bit_width))

encode_block(doc_ids) ==
  LET deltas == Deltas(doc_ids)
  IN BlockOf(doc_ids, deltas, BitWidth[Max(ToSet(deltas))])

BLOCK_HEADER_SIZE == 6

\* Chunks of a sequence, the last of which may be shorter.
Chunks(s, size) ==
  [n \in 1..CeilDiv(Len(s), size) |-> SubSeq(s, (n - 1) * size + 1, Min({n * size, Len(s)}))]

\* Mutant of encode: every block but the first starts with a delta.
encode_running(doc_ids) ==
  LET chunks == Chunks(doc_ids, POSTING_BLOCK_SIZE)
      block(n) == IF n = 1 THEN encode_block(chunks[1])
                  ELSE encode_block(<<Last(chunks[n - 1])>> \o chunks[n])
  IN FlattenSeq([n \in DOMAIN chunks |-> block(n)])

encode(doc_ids) ==
  LET chunks == Chunks(doc_ids, POSTING_BLOCK_SIZE)
  IN FlattenSeq([n \in DOMAIN chunks |-> encode_block(chunks[n])])

(***************************************************************************)
(* decode_block: an Err when a header or its data is cut off, or when      *)
(* decompressed data has another size than the header says.                *)
(***************************************************************************)
BlockDocs(data, offset) ==
  LET start == offset + BLOCK_HEADER_SIZE
      slots == Slice(data, start, At(data, offset + 4))
      bytes == IF At(data, offset + 3) = 1 THEN slots[1][2]
               ELSE [j \in DOMAIN slots |-> slots[j][2]]
      deltas == bitunpack(bytes, At(data, offset), At(data, offset + 2))
      doc[i \in 1..Len(deltas)] ==
        IF i = 1 THEN At(data, offset + 1) ELSE doc[i - 1] + deltas[i]
  IN IF At(data, offset + 3) = 1 /\ Len(bytes) # At(data, offset + 5)
     THEN {} ELSE {[i \in 1..Len(deltas) |-> doc[i]]}

decode_block(data, s) ==
  LET next == s.offset + BLOCK_HEADER_SIZE + At(data, s.offset + 4)
  IN IF s.docs = {} \/ s.offset >= Len(data) THEN s
     ELSE IF s.offset + BLOCK_HEADER_SIZE > Len(data) \/ next > Len(data)
     THEN [s EXCEPT !.docs = {}]
     ELSE [offset |-> next,
           docs |-> {p[1] \o p[2] : p \in s.docs \X BlockDocs(data, s.offset)}]

\* decode: block after block, of which there are fewer than slots.
decode(data) ==
  LET after[n \in 0..Len(data)] ==
        IF n = 0 THEN [offset |-> 0, docs |-> {<<>>}] ELSE decode_block(data, after[n - 1])
  IN after[Len(data)].docs
-----------------------------------------------------------------------------
(***************************************************************************)
(* build.  The number of keys before an FST is its length, from which the  *)
(* reader finds the term infos: the footer does not name their offset.     *)
(***************************************************************************)
Magic == <<"magic", "LKSR">>
Version == U(1)
FOOTER_SIZE == 8

\* Slots that take the same place in a file, of at most 32 bits.
Narrow(a, b) ==
  /\ a[1] = b[1]
  /\ \/ a[1] \in {"byte", "magic", "crc"}
     \/ a[1] = "number" /\ a[2] <= U32_MAX /\ b[2] <= U32_MAX

\* What a CRC32 does: it finds every change within 32 bits.  Two files that
\* differ in more may have the same.
FindsNarrowChanges ==
  \A slots, k, slot :
    k \in DOMAIN slots /\ Narrow(slots[k], slot) /\ slot # slots[k]
      => Crc([slots EXCEPT ![k] = slot]) # Crc(slots)

Counted(n, slots) == <<U(n)>> \o slots
FstKey(key, ordinal) == <<"key", [key |-> key, ordinal |-> ordinal]>>

write_file_table(files) ==
  Counted(Len(files), [n \in DOMAIN files |-> U(n - 1)]
                        \o [n \in DOMAIN files |-> <<"path", files[n]>>])

Ordered(keys) ==
  LET before(k) == {l \in ToSet(keys) : Before(l[2].key, k[2].key)}
  IN [n \in DOMAIN keys |-> CHOOSE k \in ToSet(keys) : Cardinality(before(k)) = n - 1]

\* Mutant of ReverseFst: the ordinals of the sorted keys.
ReverseFstRenumbered(terms) ==
  LET reversed == Ordered([n \in DOMAIN terms |-> FstKey(Reverse(Chars[terms[n]]), n - 1)])
  IN [n \in DOMAIN terms |-> FstKey(reversed[n][2].key, n - 1)]

ForwardFst(terms) == [n \in DOMAIN terms |-> FstKey(Chars[terms[n]], n - 1)]
ReverseFst(terms) ==
  Ordered([n \in DOMAIN terms |-> FstKey(Reverse(Chars[terms[n]]), n - 1)])

\* Where each posting list is, counted from the first, and its doc frequency.
TermInfos(segment, terms, encoded) ==
  [n \in DOMAIN terms |->
     <<U(Len(FlattenSeq(SubSeq(encoded, 1, n - 1)))), U(Len(encoded[n])),
       U(segment.doc_frequency[terms[n]])>>]

DocTable(entries) ==
  [d \in DOMAIN entries |->
     <<U(entries[d].file_ordinal), U(entries[d].row_group),
       U(entries[d].first_row_index), U(entries[d].row_count)>>]

Sections(segment, files, terms, encoded) ==
  <<<<Magic, Version>>, write_file_table(files), FlattenSeq(encoded),
    Counted(Len(terms), ForwardFst(terms)), Counted(Len(terms), ReverseFst(terms)),
    Counted(Len(terms), FlattenSeq(TermInfos(segment, terms, encoded))),
    Counted(Len(segment.doc_table), FlattenSeq(DocTable(segment.doc_table))),
    <<U(segment.total_rows), U(segment.total_tokens)>>>>

\* The offsets of six sections; all of it is covered by the checksum.
WithOffsets(sections) ==
  FlattenSeq(sections)
    \o [n \in 1..6 |-> LET section == <<2, 7, 4, 5, 3, 8>>[n]
                       IN U(Len(FlattenSeq(SubSeq(sections, 1, section - 1))))]

Checked(slots) == slots \o <<Crc(slots), Magic>>

BuildWith(segment, files, terms) ==
  Checked(WithOffsets(Sections(segment, files, terms,
            [n \in DOMAIN terms |-> encode(segment.postings[terms[n]])])))

build(segment, files) ==
  BuildWith(segment, files, Ascending(DOMAIN segment.postings))

(***************************************************************************)
(* open, and what a reader then finds.                                     *)
(***************************************************************************)

\* Mutant of opens: the checksum is not compared.
opens_unchecked(file) ==
  /\ Len(file) >= FOOTER_SIZE
  /\ file[1] = Magic /\ file[2] = Version /\ Last(file) = Magic

opens(file) ==
  /\ Len(file) >= FOOTER_SIZE
  /\ file[1] = Magic /\ file[2] = Version /\ Last(file) = Magic
  /\ file[Len(file) - 1] = Crc(SubSeq(file, 1, Len(file) - 2))

FooterField(file, n) == At(file, Len(file) - FOOTER_SIZE + n - 1)
file_table_offset(file) == FooterField(file, 1)
doc_table_offset(file) == FooterField(file, 2)
forward_fst_offset(file) == FooterField(file, 3)
reverse_fst_offset(file) == FooterField(file, 4)
posting_offset(file) == FooterField(file, 5)
corpus_stats_offset(file) == FooterField(file, 6)

parse_fst(file, offset) ==
  [n \in 1..At(file, offset) |-> At(file, offset + n)]

term_info_start(file) ==
  reverse_fst_offset(file) + 1 + At(file, reverse_fst_offset(file))

term_info(file, ordinal) ==
  LET base == term_info_start(file) + 1 + 3 * ordinal
  IN [posting_offset |-> At(file, base), posting_length |-> At(file, base + 1),
      doc_frequency |-> At(file, base + 2)]

posting_list(file, ordinal) ==
  LET info == term_info(file, ordinal)
  IN decode(Slice(file, posting_offset(file) + info.posting_offset, info.posting_length))

parse_doc_table(file) ==
  LET field(d, k) == At(file, doc_table_offset(file) + 1 + 4 * (d - 1) + k)
  IN [d \in 1..At(file, doc_table_offset(file)) |->
        [file_ordinal |-> field(d, 0), row_group |-> field(d, 1),
         first_row_index |-> field(d, 2), row_count |-> field(d, 3)]]

parse_file_table(file) ==
  LET offset == file_table_offset(file)
      num_files == At(file, offset)
  IN [n \in 1..num_files |-> At(file, offset + 1 + num_files + At(file, offset + n))]

\* Pairs of a key that starts with prefix and its ordinal, in the order of the keys.
KeysFrom(fst, prefix) == Chosen(fst, {n \in DOMAIN fst : IsPrefix(prefix, fst[n].key)})
prefix_terms(file, prefix) == KeysFrom(parse_fst(file, forward_fst_offset(file)), prefix)
suffix_terms(file, suffix) ==
  LET found == KeysFrom(parse_fst(file, reverse_fst_offset(file)), Reverse(suffix))
  IN [n \in DOMAIN found |-> [found[n] EXCEPT !.key = Reverse(@)]]

\* term_ordinal
term_ordinal(file, t) ==
  {k.ordinal : k \in {l \in ToSet(parse_fst(file, forward_fst_offset(file))) : l.key = Chars[t]}}

\* All that a reader can be asked, for all terms: the segment it was built from.
open(file) ==
  LET known == {t \in DOMAIN Chars : term_ordinal(file, t) # {}}
      ordinal(t) == CHOOSE o \in term_ordinal(file, t) : TRUE
  IN IF opens(file)
     THEN {[files |-> parse_file_table(file),
            doc_table |-> parse_doc_table(file),
            postings |-> [t \in known |-> CHOOSE docs \in posting_list(file, ordinal(t)) : TRUE],
            doc_frequency |-> [t \in known |-> term_info(file, ordinal(t)).doc_frequency],
            total_rows |-> At(file, corpus_stats_offset(file)),
            total_tokens |-> At(file, corpus_stats_offset(file) + 1)]}
     ELSE {}
=============================================================================
