------------------------------ MODULE Packets ------------------------------
(***************************************************************************)
(* Packets as the trace sees them (Packet and Element, src/net/mod.rs): a  *)
(* sequence of elements, each with its size in bytes and the label of its  *)
(* type, NoLabel when it was written without one.                          *)
(***************************************************************************)
EXTENDS Naturals, Sequences, SequencesExt, Folds

CONSTANTS
  Label,          \* the labels a protocol may write
  NoLabel,        \* Option::None of an element's label
  UnknownElem     \* "unknown elem."

ASSUME NoLabel # UnknownElem

Element == [bytes : Nat, label : Label \cup {NoLabel}]

Empty == <<>>

WriteLabeled(packet, bytes, label) ==
  Append(packet, [bytes |-> bytes, label |-> label])

Write(packet, bytes) == WriteLabeled(packet, bytes, NoLabel)

\* The values become elements of their own, in the order of the slice.
WriteManyLabeled(packet, sizes, label) ==
  packet \o [i \in DOMAIN sizes |-> [bytes |-> sizes[i], label |-> label]]

WriteMany(packet, sizes) == WriteManyLabeled(packet, sizes, NoLabel)

\* size: headers and lengths of the elements are not counted.
Size(packet) == FoldLeft(LAMBDA total, element : total + element.bytes, 0, packet)

LabelOf(element) == IF element.label = NoLabel THEN UnknownElem ELSE element.label

\* composition: how many elements carry each label, by first appearance.
Counted(parts, element) ==
  LET label == LabelOf(element)
  IN  IF \E k \in DOMAIN parts : parts[k][1] = label
        THEN [k \in DOMAIN parts |->
                IF parts[k][1] = label THEN <<label, parts[k][2] + 1>> ELSE parts[k]]
        ELSE Append(parts, <<label, 1>>)

Composition(packet) == FoldLeft(Counted, <<>>, packet)

=============================================================================
