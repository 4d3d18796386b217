---------------------------- MODULE MCProtocols ----------------------------
(***************************************************************************)
(* Small instances of Protocols: three parties, the least number for which *)
(* a share of a slow party can be replaced by one of a fast party.         *)
(***************************************************************************)
EXTENDS Protocols

MCPartyOrder == <<1, 0, 2>>

MCSorted == <<0, 1, 2>>

\* Protocols whose receives name the sender, every party playing every role.
Directed ==
  {[protocol |-> name, who |-> p] : name \in {"Deal", "OpenToKing"}, p \in Party}
    \cup {[protocol |-> name, who |-> 0] : name \in {"RandShr", "RandDoubleShr"}}

\* Openings, which receive from any party.
AnySource ==
  {[protocol |-> "Open", who |-> 0]}
    \cup {[protocol |-> "OpenToParty", who |-> p] : p \in Party}

\* The sessions of the repository's tests and more: any two protocols with named
\* senders, then an opening.
OpeningLast ==
  {<<a, b, c>> : a \in Directed, b \in Directed, c \in AnySource}

\* Any two protocols, an opening first.
OpeningFirst == {<<a, b>> : a \in AnySource, b \in Directed \cup AnySource}

\* Two openings in a row.
TwoOpenings ==
  {<<[protocol |-> "Open", who |-> 0], [protocol |-> "Open", who |-> 0]>>}
=============================================================================
