---------------------------- MODULE EvidenceProofs ----------------------------
(***************************************************************************)
(* What is read call by call, and what is made of it.                      *)
(*                                                                         *)
(* The walk over a paged listing is complete, for every server, page size  *)
(* and listing: what the walk has asked for so far it has collected, and   *)
(* items that come in at the front only move the others further down.      *)
(*                                                                         *)
(* A week's code evidence spends its budget on the largest commits, and    *)
(* no outage becomes a signal that is kept, for every history of commits,  *)
(* every set of limits and every answer of the model: what is shown is     *)
(* larger than what is queued, and what is neither has its reason.         *)
(*                                                                         *)
(* CI submissions: one assessment a commit unless requests overlap, and a  *)
(* model's proposal that can make the engine's assessment worse and never  *)
(* better.                                                                 *)
(***************************************************************************)
EXTENDS PageWalk, SignalJudge, CiAssessment, DataLemmas

-------------------------------------------------------------------------------
(* The page walk *)

Size == Least(PageSize, server.cap)

\* The page that is asked for next, and the items on the pages before it.
Cursor == IF next # 0 THEN next ELSE page
BeforePage(n) == (n - 1) * Size
Before == BeforePage(Cursor)

PageTypes ==
    /\ server \in Servers
    /\ \E n \in Nat : listing = Newest(n)
    /\ \E n \in 0..Len(listing) : atStart = 1..n
    /\ collected \in Seq(Nat) /\ page \in Nat \ {0} /\ next \in Nat /\ requests \in Nat
    /\ walk \in {"going", "done", "failed"}
    /\ server.style # "link" => next = 0

\* The items the walk began with that are on a page before the cursor are collected.
SoFarComplete ==
    walk # "failed" =>
        \A x \in atStart : walk = "done" \/ Len(listing) - x + 1 <= Before => x \in Range(collected)

\* As long as nothing came in and the walk did not start over, each item of those
\* pages was collected once.
SoFarOnce ==
    Len(listing) = Cardinality(atStart) /\ ~LinkedLastPageIsFull =>
        /\ walk = "going" => Len(collected) = Least(Before, Len(listing))
        /\ walk = "done" => Len(collected) = Len(listing)

PageInv == PageTypes /\ SoFarComplete /\ SoFarOnce

-------------------------------------------------------------------------------

LEMMA NewestFacts ==
    ASSUME NEW n \in Nat
    PROVE  /\ Newest(n) \in Seq(Nat) /\ Len(Newest(n)) = n /\ \A i \in 1..n : Newest(n)[i] = n - i + 1
           /\ Newest(n + 1) = <<n + 1>> \o Newest(n)
<1>1. \A m \in Nat : Newest(m) \in [1..m -> Nat]
  BY DEF Newest
<1>2. \A m \in Nat : Newest(m) \in Seq(Nat) /\ Len(Newest(m)) = m
  <2> SUFFICES ASSUME NEW m \in Nat PROVE Newest(m) \in Seq(Nat) /\ Len(Newest(m)) = m
    OBVIOUS
  <2>1. Newest(m) \in [1..m -> Nat]
    BY <1>1
  <2> HIDE DEF Newest
  <2>2. QED BY <2>1
<1>3. \A m \in Nat : \A i \in 1..m : Newest(m)[i] = m - i + 1
  BY DEF Newest
<1>4. Newest(n + 1) = <<n + 1>> \o Newest(n)
  <2>1. <<n + 1>> \in Seq(Nat) /\ Newest(n) \in Seq(Nat) /\ Newest(n + 1) \in Seq(Nat)
    BY <1>2
  <2>2. Len(<<n + 1>> \o Newest(n)) = n + 1 /\ Len(Newest(n + 1)) = n + 1
    BY <1>2, <2>1
  <2>3. \A i \in 1..(n + 1) : (<<n + 1>> \o Newest(n))[i] = Newest(n + 1)[i]
    <3> DEFINE old == Newest(n)
               new == Newest(n + 1)
    <3>1. /\ Len(old) = n /\ old \in Seq(Nat) /\ \A i \in 1..n : old[i] = n - i + 1
          /\ \A i \in 1..(n + 1) : new[i] = n + 1 - i + 1
      BY <1>2, <1>3
    <3> HIDE DEF old, new
    <3>2. \A i \in 1..(n + 1) : (<<n + 1>> \o old)[i] = IF i = 1 THEN n + 1 ELSE old[i - 1]
      BY <3>1
    <3>3. \A i \in 1..(n + 1) : (<<n + 1>> \o old)[i] = new[i]
      BY <3>1, <3>2
    <3>4. QED BY <3>3 DEF old, new
  <2>4. <<n + 1>> \o Newest(n) \in Seq(Nat)
    BY <2>1
  <2>5. QED BY <2>1, <2>2, <2>3, <2>4, SeqEqual
<1>5. QED BY <1>2, <1>3, <1>4

LEMMA SizeIsPositive ==
    ASSUME PageTypes
    PROVE  /\ Size \in Nat \ {0} /\ Size <= PageSize /\ PageSize \in Nat \ {0} /\ server.cap \in Nat \ {0}
           /\ server.style \in {"link", "flag", "header", "none"}
           /\ server.style = "none" => Size = PageSize
<1>1. server \in [style: {"link", "flag", "header", "none"}, cap: Nat \ {0}] /\ PageSize \in Nat \ {0}
  BY PageAssumption DEF PageTypes
<1>2. server.style = "none" => PageSize <= server.cap
  BY PageAssumption DEF PageTypes
<1>3. QED BY <1>1, <1>2 DEF Size, Least

\* The n-th page of a listing of so many items comes after so many.
PageOf(n, before, total) == before = BeforePage(n) /\ total = Len(listing)

\* A page holds the items that follow those of the pages before it, down to its size.
LEMMA ResponseFacts ==
    ASSUME PageTypes, NEW n \in Nat \ {0}, NEW before \in Nat, NEW total \in Nat, PageOf(n, before, total)
    PROVE  /\ Response(n).items \in Seq(Nat)
           /\ Len(Response(n).items) = Least(before + Size, total) - Least(before, total)
           /\ \A x \in 1..total : before < total - x + 1 /\ total - x + 1 <= before + Size =>
                 x \in Range(Response(n).items)
           /\ Response(n).link = IF server.style = "link" /\ before + Size < total THEN n + 1 ELSE 0
           /\ Response(n).flag <=> (server.style = "flag" /\ before + Size < total)
           /\ Response(n).header <=> (server.style = "header" /\ before + Size < total)
<1>1. Size \in Nat \ {0}
  BY SizeIsPositive
<1>2. n * Size = before + Size /\ before = (n - 1) * Size
  BY <1>1 DEF PageOf, BeforePage
<1>3. listing = Newest(total) /\ listing \in Seq(Nat) /\ \A i \in 1..total : listing[i] = total - i + 1
  <2>1. PICK m \in Nat : listing = Newest(m)
    BY DEF PageTypes
  <2>2. m = total
    BY <2>1, NewestFacts DEF PageOf
  <2>3. QED BY <2>1, <2>2, NewestFacts
<1>4. PICK last : last = Least(before + Size, total) /\ last \in 0..total
  BY <1>1 DEF Least
<1> DEFINE items == SubSeq(listing, before + 1, last)
<1>5. items \in Seq(Nat) /\ Len(items) = (IF before + 1 <= last THEN last - before ELSE 0)
      /\ \A i \in 1..Len(items) : items[i] = listing[before + i]
  <2>1. \A i \in (before + 1)..last : listing[i] \in Nat
    BY <1>3, <1>4
  <2>2. before + 1 \in Int /\ last \in Int
    BY <1>4
  <2>3. /\ SubSeq(listing, before + 1, last) \in Seq(Nat)
        /\ Len(SubSeq(listing, before + 1, last)) = (IF before + 1 <= last THEN last - (before + 1) + 1 ELSE 0)
        /\ \A i \in 1..(last - (before + 1) + 1) :
              SubSeq(listing, before + 1, last)[i] = listing[before + 1 + i - 1]
    BY <2>1, <2>2, SubSeqProperties
  <2> HIDE DEF items
  <2>4. /\ items \in Seq(Nat) /\ Len(items) = (IF before + 1 <= last THEN last - (before + 1) + 1 ELSE 0)
        /\ \A i \in 1..(last - (before + 1) + 1) : items[i] = listing[before + 1 + i - 1]
    BY <2>3 DEF items
  <2>5. \A i \in 1..Len(items) : before + 1 + i - 1 = before + i /\ i \in 1..(last - (before + 1) + 1)
    BY <1>4, <2>4
  <2>6. QED BY <1>4, <2>4, <2>5
<1> HIDE DEF items
<1>6. Len(items) = last - Least(before, total)
  BY <1>1, <1>4, <1>5 DEF Least
<1>7. ASSUME NEW x \in 1..total, before < total - x + 1, total - x + 1 <= before + Size
      PROVE  x \in Range(items)
  <2>0. PICK i \in Int : i = total - x + 1 - before /\ x \in Nat /\ x <= total /\ 1 <= x
    OBVIOUS
  <2>1. i \in 1..Len(items) /\ before + i \in 1..total
    <3>1. 1 <= i /\ before + i <= total /\ before + i <= before + Size
      BY <1>1, <1>7, <2>0
    <3>2. before + i <= last
      BY <1>1, <1>4, <2>0, <3>1 DEF Least
    <3>3. Len(items) = last - before
      BY <1>1, <1>4, <1>5, <2>0, <3>1, <3>2
    <3>4. QED BY <1>4, <2>0, <3>1, <3>2, <3>3
  <2>2. items[i] = x
    <3>1. items[i] = listing[before + i]
      BY <1>5, <2>1
    <3>2. listing[before + i] = total - (before + i) + 1
      BY <1>3, <2>1
    <3>3. total - (before + i) + 1 = x
      BY <2>0
    <3>4. QED BY <3>1, <3>2, <3>3
  <2>3. QED BY <1>5, <2>1, <2>2 DEF Range
<1> DEFINE link == IF server.style = "link" /\ before + Size < total THEN n + 1 ELSE 0
           flag == server.style = "flag" /\ before + Size < total
           header == server.style = "header" /\ before + Size < total
<1>8. Response(n) = [items |-> items, link |-> link, flag |-> flag, header |-> header]
  BY <1>2, <1>4 DEF Response, Size, items, PageOf
<1> HIDE DEF link, flag, header
<1>9. Response(n).items = items /\ Response(n).link = link /\ (Response(n).flag <=> flag) /\ (Response(n).header <=> header)
  BY <1>8
<1>10. /\ Response(n).link = IF server.style = "link" /\ before + Size < total THEN n + 1 ELSE 0
       /\ Response(n).flag <=> (server.style = "flag" /\ before + Size < total)
       /\ Response(n).header <=> (server.style = "header" /\ before + Size < total)
  BY <1>9 DEF link, flag, header
<1>11. QED BY <1>4, <1>5, <1>6, <1>7, <1>9, <1>10

\* Where the walk is, in numbers.
LEMMA WalkFacts ==
    ASSUME PageTypes
    PROVE  /\ Cursor \in Nat \ {0} /\ Before \in Nat /\ Len(listing) \in Nat
           /\ BeforePage(Cursor + 1) = Before + Size
           /\ atStart \subseteq 1..Len(listing) /\ Cardinality(atStart) \in 0..Len(listing)
           /\ \A m \in Nat \ {0} : BeforePage(m) \in Nat /\ BeforePage(m + 1) >= Size
<1>1. Size \in Nat \ {0}
  BY SizeIsPositive
<1>2. Len(listing) \in Nat
  BY NewestFacts DEF PageTypes
<1>3. PICK n \in 0..Len(listing) : atStart = 1..n
  BY DEF PageTypes
<1>4. Cardinality(atStart) = n
  BY <1>2, <1>3, FS_Interval
<1>5. Cursor \in Nat \ {0}
  BY DEF PageTypes, Cursor
<1>6. \A m \in Nat \ {0} : BeforePage(m) \in Nat /\ BeforePage(m + 1) = BeforePage(m) + Size
  <2> SUFFICES ASSUME NEW m \in Nat \ {0} PROVE BeforePage(m) \in Nat /\ BeforePage(m + 1) = BeforePage(m) + Size
    OBVIOUS
  <2>1. (m - 1) * Size \in Nat /\ m * Size = (m - 1) * Size + Size
    BY <1>1
  <2>2. QED BY <2>1 DEF BeforePage
<1>7. \A m \in Nat \ {0} : BeforePage(m + 1) >= Size
  <2> SUFFICES ASSUME NEW m \in Nat \ {0} PROVE BeforePage(m + 1) >= Size
    OBVIOUS
  <2>1. PICK b \in Nat, size \in Nat : b = BeforePage(m) /\ size = Size /\ BeforePage(m + 1) = b + size
    BY <1>1, <1>6
  <2>2. b + size >= size
    OBVIOUS
  <2>3. QED BY <2>1, <2>2
<1>8. Before \in Nat /\ BeforePage(Cursor + 1) = Before + Size
  BY <1>5, <1>6 DEF Before
<1>9. atStart \subseteq 1..Len(listing)
  BY <1>2, <1>3
<1>10. QED BY <1>2, <1>3, <1>4, <1>5, <1>6, <1>7, <1>8, <1>9

\* A request answered by a page that is not the last, or that is.
LEMMA RequestFacts ==
    ASSUME PageTypes, Request, NEW before \in Nat, NEW total \in Nat, PageOf(Cursor, before, total)
    PROVE  /\ UNCHANGED <<server, listing, atStart>> /\ walk = "going"
           /\ collected' \in Seq(Nat)
           /\ Len(collected') = Len(collected) + (Least(before + Size, total) - Least(before, total))
           /\ Range(collected) \subseteq Range(collected')
           /\ \A x \in 1..total : before < total - x + 1 /\ total - x + 1 <= before + Size => x \in Range(collected')
           /\ page' \in Nat \ {0} /\ next' \in Nat /\ requests' \in Nat /\ walk' \in {"going", "done"}
           /\ server.style # "link" => next' = 0
           /\ before + Size < total => walk' = "going" /\ Cursor' = Cursor + 1
           /\ before + Size >= total /\ walk' = "going" =>
                 /\ Cursor' = page + 1 /\ PageSize <= Least(before + Size, total) - Least(before, total)
<1> DEFINE got == Response(Cursor)
<1>1. /\ Cursor \in Nat \ {0} /\ Size \in Nat \ {0} /\ PageSize \in Nat \ {0}
      /\ server.style \in {"link", "flag", "header", "none"} /\ (server.style = "none" => Size = PageSize)
  BY WalkFacts, SizeIsPositive
<1>2. /\ got.items \in Seq(Nat)
      /\ Len(got.items) = Least(before + Size, total) - Least(before, total)
      /\ \A x \in 1..total : before < total - x + 1 /\ total - x + 1 <= before + Size => x \in Range(got.items)
      /\ got.link = (IF server.style = "link" /\ before + Size < total THEN Cursor + 1 ELSE 0)
      /\ got.flag <=> (server.style = "flag" /\ before + Size < total)
      /\ got.header <=> (server.style = "header" /\ before + Size < total)
  BY <1>1, ResponseFacts
<1>3. /\ walk = "going" /\ UNCHANGED <<server, listing, atStart>>
      /\ collected' = collected \o got.items /\ next' = got.link /\ requests' = requests + 1
      /\ IF got.link # 0 THEN UNCHANGED <<page, walk>>
         ELSE IF HasMore(got) \/ Len(got.items) >= PageSize THEN page' = page + 1 /\ UNCHANGED walk
         ELSE walk' = "done" /\ UNCHANGED page
  BY DEF Request, Cursor
<1>4. HasMore(got) <=> got.flag \/ (got.items # <<>> /\ got.header)
  BY DEF HasMore
<1>5. page \in Nat \ {0} /\ requests \in Nat /\ collected \in Seq(Nat) /\ (server.style # "link" => next = 0)
  BY DEF PageTypes
<1> HIDE DEF got
<1>6. collected' \in Seq(Nat) /\ Len(collected') = Len(collected) + Len(got.items)
      /\ Range(collected') = Range(collected) \cup Range(got.items)
  <2>1. SomeSeq(collected) /\ SomeSeq(got.items)
    BY <1>2, <1>5 DEF SomeSeq
  <2>2. QED BY <1>2, <1>3, <1>5, <2>1, ConcatIsASeq
<1>7. ASSUME before + Size < total PROVE got.items # <<>> /\ Len(got.items) = Size
  <2>1. PICK size \in Nat \ {0} : size = Size
    BY <1>1
  <2>2. Least(before + size, total) = before + size /\ Least(before, total) = before
    BY <1>7, <2>1 DEF Least
  <2>3. Len(got.items) = size
    BY <1>2, <2>1, <2>2
  <2>4. QED BY <2>1, <2>3
<1>8. next' \in Nat /\ (server.style # "link" => next' = 0) /\ page' \in Nat \ {0} /\ walk' \in {"going", "done"}
  BY <1>1, <1>2, <1>3, <1>5
<1>9. ASSUME before + Size < total PROVE walk' = "going" /\ Cursor' = Cursor + 1
  <2>1. CASE server.style = "link"
    BY <1>1, <1>2, <1>3, <1>9, <2>1 DEF Cursor
  <2>2. CASE server.style # "link"
    <3>1. got.link = 0 /\ (HasMore(got) \/ Len(got.items) >= PageSize)
      BY <1>1, <1>2, <1>4, <1>7, <1>9, <2>2
    <3>2. next' = 0 /\ page' = page + 1 /\ walk' = "going" /\ Cursor = page
      BY <1>3, <1>5, <2>2, <3>1 DEF Cursor
    <3>3. QED BY <3>2 DEF Cursor
  <2>3. QED BY <2>1, <2>2
<1>10. ASSUME before + Size >= total, walk' = "going" PROVE Cursor' = page + 1 /\ PageSize <= Len(got.items)
  <2>1. got.link = 0 /\ ~HasMore(got)
    BY <1>1, <1>2, <1>4, <1>10
  <2>2. next' = 0 /\ page' = page + 1 /\ PageSize <= Len(got.items)
    BY <1>3, <1>10, <2>1
  <2>3. QED BY <2>2 DEF Cursor
<1>11. QED BY <1>2, <1>3, <1>5, <1>6, <1>8, <1>9, <1>10

LEMMA RequestStep ==
    ASSUME PageInv, Request
    PROVE  PageInv'
<1>1. PageTypes
  BY DEF PageInv
<1>2. /\ Cursor \in Nat \ {0} /\ Before \in Nat /\ Len(listing) \in Nat
      /\ BeforePage(Cursor + 1) = Before + Size
      /\ atStart \subseteq 1..Len(listing)
      /\ \A m \in Nat \ {0} : BeforePage(m) \in Nat /\ BeforePage(m + 1) >= Size
  BY <1>1, WalkFacts
<1>3. PICK before \in Nat, total \in Nat, after \in Nat :
        before = Before /\ total = Len(listing) /\ after = before + Size
  BY <1>1, <1>2, SizeIsPositive
<1>4. /\ UNCHANGED <<server, listing, atStart>> /\ walk = "going"
      /\ collected' \in Seq(Nat)
      /\ Len(collected') = Len(collected) + (Least(after, total) - Least(before, total))
      /\ Range(collected) \subseteq Range(collected')
      /\ \A x \in 1..total : before < total - x + 1 /\ total - x + 1 <= after => x \in Range(collected')
      /\ page' \in Nat \ {0} /\ next' \in Nat /\ requests' \in Nat /\ walk' \in {"going", "done"}
      /\ server.style # "link" => next' = 0
      /\ after < total => walk' = "going" /\ Cursor' = Cursor + 1
      /\ after >= total /\ walk' = "going" =>
            /\ Cursor' = page + 1 /\ PageSize <= Least(after, total) - Least(before, total)
  <2>1. PageOf(Cursor, before, total)
    BY <1>3 DEF PageOf, Before
  <2>2. QED BY <1>1, <1>3, <2>1, RequestFacts
<1>5. PageTypes'
  BY <1>1, <1>4 DEF PageTypes
<1>6. after < total => Before' = after
  <2>1. Before' = BeforePage(Cursor')
    BY <1>4 DEF Before, BeforePage, Size
  <2>2. QED BY <1>2, <1>3, <1>4, <2>1
<1>7. SoFarComplete'
  <2> SUFFICES ASSUME NEW x \in atStart, walk' = "done" \/ total - x + 1 <= Before'
               PROVE  x \in Range(collected')
    BY <1>3, <1>4 DEF SoFarComplete
  <2>1. x \in 1..total
    BY <1>2, <1>3
  <2>2. total - x + 1 <= after
    BY <1>4, <1>6, <2>1
  <2>3. CASE total - x + 1 <= before
    BY <1>3, <1>4, <2>3 DEF PageInv, SoFarComplete
  <2>4. CASE before < total - x + 1
    BY <1>4, <2>1, <2>2, <2>4
  <2>5. QED BY <2>1, <2>3, <2>4
<1>8. SoFarOnce'
  <2> SUFFICES ASSUME total = Cardinality(atStart), ~LinkedLastPageIsFull
               PROVE  /\ walk' = "going" => Len(collected') = Least(Before', total)
                      /\ walk' = "done" => Len(collected') = total
    BY <1>3, <1>4 DEF SoFarOnce, LinkedLastPageIsFull
  <2>1. Len(collected) = Least(before, total)
    BY <1>3, <1>4 DEF PageInv, SoFarOnce
  <2>2. Len(collected') = Least(after, total)
    BY <1>4, <2>1 DEF Least
  <2>3. CASE after < total
    BY <1>4, <1>6, <2>2, <2>3
  <2>4. CASE after >= total
    <3>1. Len(collected') = total
      BY <2>2, <2>4 DEF Least
    <3>2. ASSUME walk' = "going" PROVE Before' \in Nat /\ Before' >= total
      <4>1. /\ Cursor' = page + 1 /\ PageSize <= Least(after, total) - Least(before, total)
            /\ Before' = BeforePage(page + 1) /\ page \in Nat \ {0}
        BY <1>1, <1>4, <2>4, <3>2 DEF Before, BeforePage, Size, PageTypes
      <4>2. Before' \in Nat /\ Before' >= Size
        <5>1. page + 1 \in Nat \ {0} /\ BeforePage(page + 1) \in Nat /\ BeforePage(page + 1) >= Size
          <6>1. page \in Nat \ {0} /\ page + 1 \in Nat \ {0}
            BY <4>1
          <6>2. QED BY <1>2, <6>1
        <5>2. QED BY <4>1, <5>1
      <4>3. CASE server.style # "link"
        <5>1. Cursor = page
          BY <1>1, <4>3 DEF Cursor, PageTypes
        <5>2. Before' = after
          BY <1>2, <1>3, <4>1, <5>1
        <5>3. QED BY <2>4, <5>2
      <4>4. CASE server.style = "link"
        <5>1. Size \in Nat \ {0} /\ Size <= PageSize /\ PageSize \in Nat \ {0}
          BY <1>1, SizeIsPositive
        <5>2. Size = PageSize /\ total = after
          BY <1>3, <2>4, <4>1, <5>1 DEF Least
        <5>3. after = Cursor * Size
          <6>1. BeforePage(Cursor + 1) = Cursor * Size
            BY <1>2, <5>1 DEF BeforePage
          <6>2. QED BY <1>2, <1>3, <6>1
        <5>4. total = Size
          <6>1. CASE Cursor = 1
            BY <5>1, <5>2, <5>3, <6>1
          <6>2. CASE Cursor # 1
            <7>1. Cursor \in 2..total
              <8>1. Cursor * Size >= Cursor
                BY <1>2, <5>1
              <8>2. QED BY <1>2, <5>2, <5>3, <6>2, <8>1
            <7>2. total = Cursor * Size
              BY <5>2, <5>3
            <7>3. ~(total > Size)
              BY <1>3, <4>4, <5>2, <7>1, <7>2 DEF LinkedLastPageIsFull, Size
            <7>4. QED BY <1>3, <5>1, <5>2, <7>3
          <6>3. QED BY <6>1, <6>2
        <5>5. QED BY <4>2, <5>4
      <4>5. QED BY <4>3, <4>4, <4>2
    <3>3. QED BY <3>1, <3>2 DEF Least
  <2>5. QED BY <1>3, <2>3, <2>4
<1>9. QED BY <1>5, <1>7, <1>8 DEF PageInv

LEMMA ItemStep ==
    ASSUME PageInv, ItemComesIn
    PROVE  PageInv'
<1>1. PageTypes
  BY DEF PageInv
<1>2. PICK n \in Nat : listing = Newest(n) /\ Len(listing) = n
  BY <1>1, NewestFacts DEF PageTypes
<1>3. /\ listing' = Newest(n + 1) /\ Len(listing') = n + 1 /\ walk = "going"
      /\ UNCHANGED <<server, atStart, collected, page, next, requests, walk>>
  <2>1. /\ listing' = <<Len(listing) + 1>> \o listing /\ walk = "going"
        /\ UNCHANGED <<server, atStart, collected, page, next, requests, walk>>
    BY Zenon DEF ItemComesIn
  <2>2. Newest(n + 1) = <<n + 1>> \o Newest(n)
    BY NewestFacts
  <2>3. Len(Newest(n + 1)) = n + 1
    <3>1. PICK m \in Nat : m = n + 1
      OBVIOUS
    <3>2. Len(Newest(m)) = m
      BY NewestFacts
    <3> QED BY <3>1, <3>2
  <2>4. listing' = Newest(n + 1)
    BY <1>2, <2>1, <2>2, Zenon
  <2> QED BY <2>1, <2>3, <2>4, Zenon
<1>4. Before \in Nat /\ Before' = Before /\ atStart \subseteq 1..n /\ Cardinality(atStart) \in 0..n
  BY <1>1, <1>2, <1>3, WalkFacts DEF Before, BeforePage, Cursor, Size
<1>5. PageTypes'
  <2>1. \E m \in 0..(n + 1) : atStart = 1..m
    BY <1>1, <1>2 DEF PageTypes
  <2>2. QED BY <1>1, <1>3, <2>1 DEF PageTypes
<1>6. SoFarComplete'
  BY <1>2, <1>3, <1>4 DEF PageInv, SoFarComplete
<1>7. SoFarOnce'
  BY <1>3, <1>4 DEF SoFarOnce
<1>8. QED BY <1>5, <1>6, <1>7 DEF PageInv

LEMMA PageStep ==
    ASSUME PageInv, [PageNext]_pageVars
    PROVE  PageInv'
<1>1. CASE UNCHANGED pageVars
  BY <1>1 DEF pageVars, PageInv, PageTypes, SoFarComplete, SoFarOnce, LinkedLastPageIsFull, Before, BeforePage, Cursor, Size
<1>2. CASE TooManyPages \/ RequestFails
  BY <1>2 DEF TooManyPages, RequestFails, PageInv, PageTypes, SoFarComplete, SoFarOnce
<1>3. QED BY <1>1, <1>2, RequestStep, ItemStep DEF PageNext

\* A walk over the pages of a Gitea or directory listing that ends has every item
\* the listing began with, once each unless something came in or the last page was
\* full and reached by a link; for every page size, way of paging and length.
THEOREM WalksAreComplete == PageSpec => []PagesAreComplete
<1>1. PageInit => PageInv
  <2> SUFFICES ASSUME PageInit PROVE PageInv
    OBVIOUS
  <2>1. PICK n \in Nat : listing = Newest(n) /\ atStart = 1..n /\ Len(listing) = n
    <3>1. PICK n \in 0..MaxItems : listing = Newest(n) /\ atStart = 1..n
      BY DEF PageInit
    <3>2. n \in Nat
      BY PageAssumption
    <3>3. QED BY <3>1, <3>2, NewestFacts
  <2>2. /\ server \in Servers /\ collected = <<>> /\ page = 1 /\ next = 0 /\ requests = 0 /\ walk = "going"
        /\ <<>> \in Seq(Nat) /\ Len(<<>>) = 0
    BY DEF PageInit
  <2>3. PageTypes
    BY <2>1, <2>2 DEF PageTypes
  <2>4. Before = 0
    <3>1. Size \in Nat
      BY <2>3, SizeIsPositive
    <3>2. QED BY <2>2, <3>1 DEF Before, BeforePage, Cursor
  <2>5. SoFarComplete
    BY <2>1, <2>2, <2>4 DEF SoFarComplete
  <2>6. SoFarOnce
    BY <2>1, <2>2, <2>4 DEF SoFarOnce, Least
  <2>7. QED BY <2>3, <2>5, <2>6 DEF PageInv
<1>2. PageInv /\ [PageNext]_pageVars => PageInv'
  BY PageStep
<1>3. PageInv => PagesAreComplete
  BY DEF PageInv, SoFarComplete, SoFarOnce, PagesAreComplete
<1>4. QED BY <1>1, <1>2, <1>3, PTL DEF PageSpec

-------------------------------------------------------------------------------
(* The week's evidence *)

Shown == DOMAIN diffs

\* Why the commit's diff was not shown.
Excused(c) ==
    \/ SmallWeek \/ Skipped(c) \/ <<"diff", c>> \in errors
    \/ Cardinality(LargerThan(c)) >= MaxCommitsTotal
    \/ ShownSoFar = MaxTotalDiffBytes /\ Shown \subseteq LargerThan(c)

SignalTypes ==
    /\ week \in Histories /\ repo \in Nat \ {0}
    /\ pending \subseteq CommitsOf(week)
    /\ IsFiniteSet(facts) /\ \A f \in facts : f.commit \in CommitsOf(week)
    /\ IsFiniteSet(errors)
    /\ queue \subseteq Substantive /\ Shown \subseteq Substantive
    /\ \A c \in Shown : diffs[c] \in Nat
    /\ phase \in {"listing", "reading", "diffs", "judged"}

\* Nothing is queued or shown before the commits are all read; then the shown
\* ones are the larger, and those neither shown nor queued have their reason.
Spent ==
    /\ ShownSoFar <= MaxTotalDiffBytes
    /\ phase \in {"listing", "reading"} => queue = {} /\ Shown = {}
    /\ phase = "judged" => queue = {}
    /\ \A c \in Shown, d \in queue : LargerFirst(c, d)
    /\ phase \in {"diffs", "judged"} => \A c \in Substantive \ (Shown \cup queue) : Excused(c)

\* A commit of repository r is not overlooked.
Accounted(r, c) == NoiseOnly(c) \/ c \in Substantive \/ {<<"list", r>>, <<"stat", c>>} \cap errors # {}

\* The repositories before the one being read are gone through, and of that one
\* the commits that are not pending.
Overlooked ==
    /\ phase \in {"listing", "reading"} => repo <= ReposRead + 1
    /\ phase = "reading" => repo <= ReposRead
    /\ phase \in {"diffs", "judged"} => repo = ReposRead + 1
    /\ \A r \in 1..ReposRead : \A c \in CommitsRead(week[r]) :
          r < repo \/ (r = repo /\ phase = "reading" /\ c \notin pending) => Accounted(r, c)

SignalInv == SignalTypes /\ Spent

-------------------------------------------------------------------------------

LEMMA SubstantiveFacts ==
    ASSUME SignalTypes
    PROVE  /\ IsFiniteSet(Substantive) /\ Substantive \subseteq CommitsOf(week)
           /\ \A c \in Substantive : c.size \in Nat /\ c.sha \in Nat /\ Cardinality(LargerThan(c)) \in Nat
           /\ \A c, d \in Substantive : c # d => LargerFirst(c, d) \/ LargerFirst(d, c)
<1> DEFINE kept == {x \in facts : x.known /\ ~NoiseOnly(x.commit)}
           commit == [f \in kept |-> f.commit]
<1>1. IsFiniteSet(kept)
  BY FS_Subset DEF SignalTypes
<1>2. IsFiniteSet({commit[f] : f \in kept})
  <2> HIDE DEF kept, commit
  <2> QED BY <1>1, FiniteImage
<1>3. Substantive = {commit[f] : f \in kept}
  BY DEF Substantive
<1>4. IsFiniteSet(Substantive) /\ Substantive \subseteq CommitsOf(week)
  <2>1. IsFiniteSet(Substantive)
    BY <1>2, <1>3, Zenon
  <2>2. Substantive \subseteq CommitsOf(week)
    BY DEF SignalTypes, Substantive
  <2>3. QED BY <2>1, <2>2
<1>5. \A c, d \in CommitsOf(week) : c.size \in Nat /\ c.sha \in Nat /\ (c.sha = d.sha => c = d)
  BY SignalAssumption DEF SignalTypes
<1>6. \A c \in Substantive : Cardinality(LargerThan(c)) \in Nat
  <2> TAKE c \in Substantive
  <2>1. LargerThan(c) \subseteq Substantive
    BY DEF LargerThan
  <2>2. IsFiniteSet(LargerThan(c))
    BY <2>1, <1>4, FS_Subset
  <2>3. QED BY <2>2, FS_CardinalityType
<1>7. \A c, d \in Substantive : c # d => LargerFirst(c, d) \/ LargerFirst(d, c)
  BY <1>4, <1>5 DEF LargerFirst
<1>8. QED BY <1>4, <1>5, <1>6, <1>7

\* The largest of the queue is taken.
LEMMA TurnIsLargest ==
    ASSUME SignalTypes, queue # {}
    PROVE  Turn \in queue /\ \A d \in queue \ {Turn} : LargerFirst(Turn, d)
<1> DEFINE Above(c) == {d \in queue : LargerFirst(d, c)}
           ranks == {Cardinality(Above(c)) : c \in queue}
<1>1. \A c \in queue : c \in Substantive /\ c.size \in Nat /\ c.sha \in Nat
  BY SubstantiveFacts DEF SignalTypes
<1>2. IsFiniteSet(queue)
  BY SubstantiveFacts, FS_Subset DEF SignalTypes
<1>3. \A c \in queue : IsFiniteSet(Above(c)) /\ Cardinality(Above(c)) \in Nat
  <2> TAKE c \in queue
  <2>1. IsFiniteSet(Above(c))
    BY <1>2, FS_Subset
  <2>2. QED BY <2>1, FS_CardinalityType
<1>4. ranks \subseteq Nat /\ ranks # {}
  <2> HIDE DEF Above
  <2> QED BY <1>3
<1>5. PICK r \in ranks : \A s \in ranks : r <= s
  <2> HIDE DEF ranks
  <2> QED BY <1>4, LeastNatural
<1>6. PICK c \in queue : r = Cardinality(Above(c))
  BY <1>5
<1>7. \A d \in queue : Cardinality(Above(c)) <= Cardinality(Above(d))
  BY <1>5, <1>6
<1>8. \A d \in queue \ {c} : LargerFirst(c, d)
  <2> SUFFICES ASSUME NEW d \in queue, d # c, ~LargerFirst(c, d) PROVE FALSE
    OBVIOUS
  <2>1. LargerFirst(d, c)
    BY <1>1, SubstantiveFacts
  <2>2. Above(d) \subseteq Above(c) /\ d \in Above(c) /\ d \notin Above(d)
    BY <1>1, <2>1 DEF LargerFirst
  <2> HIDE DEF Above
  <2>3. Cardinality(Above(d)) < Cardinality(Above(c))
    <3>1. Above(d) # Above(c)
      BY <2>2
    <3>2. QED BY <1>3, <1>6, <2>2, <3>1, FS_Subset
  <2>4. QED BY <1>3, <1>6, <1>7, <2>3
<1>9. QED BY <1>6, <1>8, Zenon DEF Turn

\* What is shown of a diff is a number of bytes.
LEMMA BytesAreCounted ==
    ASSUME SignalTypes, NEW c \in CommitsOf(week)
    PROVE  SelectedBytes(c) \in Nat
<1> DEFINE sizes == [f \in c.files |-> ShownBytes(f)]
<1>1. IsFiniteSet(c.files) /\ (\A f \in c.files : f.hunks \in Nat) /\ MaxHunksPerFile \in Nat /\ MaxBytesPerCommit \in Nat
  BY SignalAssumption DEF SignalTypes
<1>2. \A f \in c.files : ShownBytes(f) \in Nat
  BY <1>1 DEF ShownBytes
<1>3. PICK f : SumFunction(sizes) = f[DOMAIN sizes] /\ \A s \in SUBSET DOMAIN sizes : f[s] \in Nat
  <2>1. IsFiniteSet(DOMAIN sizes) /\ \A x \in DOMAIN sizes : sizes[x] \in Nat
    BY <1>1, <1>2
  <2> HIDE DEF sizes
  <2>2. QED BY <2>1, SumFacts
<1>4. SumFunction(sizes) \in Nat
  <2> HIDE DEF sizes
  <2> QED BY <1>3
<1>5. QED BY <1>1, <1>4 DEF SelectedBytes, Least

LEMMA ShownIsCounted ==
    ASSUME SignalTypes
    PROVE  IsFiniteSet(Shown) /\ ShownSoFar \in Nat /\ MaxTotalDiffBytes \in Nat
<1>1. IsFiniteSet(Shown)
  BY SubstantiveFacts, FS_Subset DEF SignalTypes
<1>2. PICK f : SumFunction(diffs) = f[Shown] /\ \A s \in SUBSET Shown : f[s] \in Nat
  BY <1>1, SumFacts DEF SignalTypes, Shown
<1>3. QED BY <1>1, <1>2, SignalAssumption DEF ShownSoFar

-------------------------------------------------------------------------------

LEMMA SignalInvInit == SignalInit => SignalInv
<1> SUFFICES ASSUME SignalInit PROVE SignalInv
  OBVIOUS
<1>1. DOMAIN diffs = {}
  BY DEF SignalInit
<1>2. ShownSoFar = 0
  BY <1>1, SumOfNothing DEF ShownSoFar
<1>3. SignalTypes
  BY <1>1, FS_EmptySet DEF SignalInit, SignalTypes, Shown
<1>4. Spent
  BY <1>1, <1>2, SignalAssumption DEF SignalInit, Spent, Shown
<1>5. QED BY <1>3, <1>4 DEF SignalInv

\* Reading on, nothing is queued or shown yet.
LEMMA ReadingStep ==
    ASSUME SignalInv,
           CommitsListed \/ ListingFails \/ StatArrives \/ StatFails \/ RepoRead
    PROVE  SignalInv'
<1> USE DEF SignalInv
<1>1. /\ phase \in {"listing", "reading"} /\ phase' \in {"listing", "reading"}
      /\ UNCHANGED <<week, queue, diffs>> /\ repo' \in Nat \ {0}
  BY DEF CommitsListed, ListingFails, StatArrives, StatFails, CommitRead, RepoRead, SignalTypes
<1>2. pending' \subseteq CommitsOf(week)
  <2>1. CASE CommitsListed
    <3>1. repo \in DOMAIN week
      BY <2>1, SignalAssumption DEF CommitsListed, ReposRead, Least, SignalTypes
    <3>2. CommitsRead(week[repo]) \subseteq Range(week[repo])
      BY DEF CommitsRead, InWeek, Range
    <3>3. QED BY <2>1, <3>1, <3>2, Zenon DEF CommitsListed, CommitsOf
  <2>2. CASE UNCHANGED pending \/ pending' \subseteq pending
    BY <2>2 DEF SignalTypes
  <2>3. QED BY <2>1, <2>2 DEF ListingFails, StatArrives, StatFails, CommitRead, RepoRead
<1>3. \/ facts' = facts
      \/ \E c \in pending, known \in BOOLEAN : facts' = facts \cup {[commit |-> c, known |-> known]}
  BY DEF CommitsListed, ListingFails, StatArrives, StatFails, CommitRead, RepoRead
<1>4. IsFiniteSet(facts') /\ \A f \in facts' : f.commit \in CommitsOf(week)
  <2>1. CASE facts' = facts
    BY <2>1 DEF SignalTypes
  <2>2. CASE \E c \in pending, known \in BOOLEAN : facts' = facts \cup {[commit |-> c, known |-> known]}
    <3>1. PICK c \in pending, known \in BOOLEAN : facts' = facts \cup {[commit |-> c, known |-> known]}
      BY <2>2
    <3>2. IsFiniteSet(facts')
      BY <3>1, FS_AddElement DEF SignalTypes
    <3>3. QED BY <3>1, <3>2 DEF SignalTypes
  <2>3. QED BY <1>3, <2>1, <2>2
<1>5. \/ errors' = errors \/ \E e : errors' = errors \cup {e}
  BY DEF CommitsListed, ListingFails, StatArrives, StatFails, CommitRead, RepoRead
<1>6. IsFiniteSet(errors')
  BY <1>5, FS_AddElement DEF SignalTypes
<1>7. queue' = {} /\ Shown' = {} /\ ShownSoFar' = ShownSoFar
  BY <1>1 DEF Spent, Shown, ShownSoFar
<1>8. SignalTypes'
  BY <1>1, <1>2, <1>4, <1>6, <1>7 DEF SignalTypes
<1>9. Spent'
  BY <1>1, <1>7 DEF Spent
<1>10. QED BY <1>8, <1>9

\* What is made of the facts is theirs alone.
LEMMA FactsDecide ==
    ASSUME UNCHANGED facts
    PROVE  /\ UNCHANGED <<Substantive, SmallWeek>> /\ \A c : LargerThan(c)' = LargerThan(c)
<1>1. Substantive' = Substantive
  BY DEF Substantive
<1>2. SmallWeek' = SmallWeek
  BY <1>1 DEF SmallWeek
<1>3. \A c : LargerThan(c)' = LargerThan(c)
  BY <1>1 DEF LargerThan
<1>4. QED BY <1>1, <1>2, <1>3

LEMMA SettleStep ==
    ASSUME SignalInv, Settle
    PROVE  SignalInv'
<1> USE DEF SignalInv
<1>1. /\ UNCHANGED <<Substantive, SmallWeek, Shown, ShownSoFar>>
      /\ \A c : LargerThan(c)' = LargerThan(c)
  BY FactsDecide DEF Settle, Shown, ShownSoFar
<1>2. phase' = "diffs" /\ Shown = {} /\ queue' \subseteq Substantive
  BY DEF Settle, Spent
<1>3. SignalTypes'
  BY <1>1, <1>2 DEF SignalTypes, Settle
<1>4. \A c \in Substantive \ queue' : SmallWeek \/ Cardinality(LargerThan(c)) >= MaxCommitsTotal
  BY SubstantiveFacts, SignalAssumption DEF Settle
<1>5. Spent'
  BY <1>1, <1>2, <1>4 DEF Spent, Excused
<1>6. QED BY <1>3, <1>5

\* Going down the queue keeps the reasons of those that were passed.
LEMMA QueueStep ==
    ASSUME SignalInv, BudgetGone \/ SkipChore \/ DiffFails
    PROVE  SignalInv'
<1> USE DEF SignalInv
<1>1. /\ UNCHANGED <<week, repo, pending, facts, diffs, phase>> /\ phase = "diffs"
      /\ queue' \subseteq queue /\ errors \subseteq errors' /\ (errors' = errors \/ \E e : errors' = errors \cup {e})
  BY DEF BudgetGone, SkipChore, DiffFails, Asked
<1>2. /\ UNCHANGED <<Substantive, SmallWeek, Shown, ShownSoFar>>
      /\ \A c : LargerThan(c)' = LargerThan(c)
  BY <1>1, FactsDecide DEF Shown, ShownSoFar
<1>3. SignalTypes'
  BY <1>1, <1>2, FS_AddElement DEF SignalTypes
<1>4. \A c \in Substantive : Excused(c) => Excused(c)'
  BY <1>1, <1>2 DEF Excused, Skipped
<1>5. \A c \in queue \ queue' : Excused(c)'
  <2>1. CASE BudgetGone
    <3>1. ShownSoFar = MaxTotalDiffBytes
      BY <2>1, ShownIsCounted DEF BudgetGone, Budget, Spent
    <3>2. \A c \in queue : Shown \subseteq LargerThan(c)
      BY DEF Spent, LargerThan, SignalTypes
    <3>3. QED BY <1>2, <3>1, <3>2 DEF Excused
  <2>2. CASE SkipChore
    BY <2>2 DEF SkipChore, Excused, Skipped
  <2>3. CASE DiffFails
    BY <2>3 DEF DiffFails, Excused
  <2>4. QED BY <2>1, <2>2, <2>3
<1>6. Spent'
  BY <1>1, <1>2, <1>4, <1>5 DEF Spent
<1>7. QED BY <1>3, <1>6

\* A diff shown is of the largest commit left, and no more of it than is left.
LEMMA ArrivalStep ==
    ASSUME SignalInv, DiffArrives
    PROVE  SignalInv'
<1> USE DEF SignalInv
<1>1. /\ UNCHANGED <<week, repo, pending, facts, errors, phase>> /\ phase = "diffs"
      /\ queue # {} /\ Budget > 0 /\ queue' = queue \ {Turn}
  BY DEF DiffArrives, Asked
<1>2. /\ UNCHANGED <<Substantive, SmallWeek>> /\ \A c : LargerThan(c)' = LargerThan(c)
  BY <1>1, FactsDecide
<1>3. Turn \in queue /\ \A d \in queue \ {Turn} : LargerFirst(Turn, d)
  BY <1>1, TurnIsLargest
<1>4. Turn \in Substantive /\ Turn \in CommitsOf(week)
  BY <1>3, SubstantiveFacts DEF SignalTypes
<1>5. Turn \notin Shown
  <2>1. ~LargerFirst(Turn, Turn)
    BY <1>4, SubstantiveFacts DEF LargerFirst
  <2>2. QED BY <1>3, <2>1 DEF Spent
<1>6. ShownSoFar \in Nat /\ MaxTotalDiffBytes \in Nat /\ IsFiniteSet(Shown) /\ SelectedBytes(Turn) \in Nat
  BY <1>4, ShownIsCounted, BytesAreCounted
<1>7. PICK n \in Nat : n = Least(SelectedBytes(Turn), Budget) /\ n <= Budget
  BY <1>1, <1>6 DEF Least, Budget
<1>8. /\ Shown' = Shown \cup {Turn} /\ diffs'[Turn] = n /\ \A c \in Shown : diffs'[c] = diffs[c]
  BY <1>5, <1>7 DEF DiffArrives, Shown
<1>9. \A c \in Shown' : diffs'[c] \in Nat
  BY <1>8 DEF SignalTypes
<1>10. ShownSoFar' = ShownSoFar + n
  <2>1. SumFunction(diffs') = SumFunction(diffs) + diffs'[Turn]
    BY <1>5, <1>6, <1>8, <1>9, SumExtends DEF Shown
  <2>2. QED BY <1>8, <2>1 DEF ShownSoFar
<1>11. ShownSoFar' <= MaxTotalDiffBytes
  BY <1>6, <1>7, <1>10 DEF Budget
<1>12. SignalTypes'
  BY <1>1, <1>2, <1>4, <1>8, <1>9 DEF SignalTypes
<1>13. \A c \in Shown', d \in queue' : LargerFirst(c, d)
  BY <1>1, <1>3, <1>8 DEF Spent
<1>14. \A c \in Substantive : Excused(c) => Excused(c)'
  <2>1. ShownSoFar # MaxTotalDiffBytes
    BY <1>1, <1>6 DEF Budget
  <2>2. QED BY <1>1, <1>2, <2>1 DEF Excused, Skipped
<1>15. Spent'
  BY <1>1, <1>2, <1>8, <1>11, <1>13, <1>14 DEF Spent
<1>16. QED BY <1>12, <1>15

LEMMA SignalInvNext == SignalInv /\ [SignalNext]_signalVars => SignalInv'
<1> SUFFICES ASSUME SignalInv, [SignalNext]_signalVars PROVE SignalInv'
  OBVIOUS
<1>1. CASE CommitsListed \/ ListingFails \/ StatArrives \/ StatFails \/ RepoRead
  BY <1>1, ReadingStep
<1>2. CASE Settle
  BY <1>2, SettleStep
<1>3. CASE BudgetGone \/ SkipChore \/ DiffFails
  BY <1>3, QueueStep
<1>4. CASE DiffArrives
  BY <1>4, ArrivalStep
<1>5. CASE JudgeWeekEvidence \/ UNCHANGED signalVars
  <2>1. /\ UNCHANGED <<week, repo, pending, facts, errors, queue, diffs>>
        /\ phase' = phase \/ (phase = "diffs" /\ phase' = "judged" /\ queue = {})
    BY <1>5 DEF JudgeWeekEvidence, signalVars
  <2>2. /\ UNCHANGED <<Substantive, SmallWeek, Shown, ShownSoFar>>
        /\ \A c : LargerThan(c)' = LargerThan(c)
    BY <2>1, FactsDecide DEF Shown, ShownSoFar
  <2>3. SignalTypes'
    BY <2>1, <2>2 DEF SignalInv, SignalTypes
  <2>4. \A c : Excused(c)' = Excused(c)
    BY <2>1, <2>2 DEF Excused, Skipped
  <2>5. Spent'
    BY <2>1, <2>2, <2>4 DEF SignalInv, Spent
  <2>6. QED BY <2>3, <2>5 DEF SignalInv
<1>6. QED BY <1>1, <1>2, <1>3, <1>4, <1>5 DEF SignalNext

\* Whatever fails and however large the limits, the diffs shown fit the budget,
\* and a commit not shown was passed over for one of the code's reasons.
THEOREM BudgetGoesToTheLargest == SignalSpec => []BudgetIsSpentOnTheLargest
<1>1. SignalInv => BudgetIsSpentOnTheLargest
  BY DEF SignalInv, Spent, Excused, Shown, BudgetIsSpentOnTheLargest
<1>2. QED BY <1>1, SignalInvInit, SignalInvNext, PTL DEF SignalSpec

-------------------------------------------------------------------------------

LEMMA ReposAreCounted ==
    ASSUME SignalTypes
    PROVE  ReposRead \in Nat /\ repo \in Nat \ {0}
<1>1. Len(week) \in Nat /\ MaxRepos \in Nat
  BY SignalAssumption DEF SignalTypes
<1>2. QED BY <1>1 DEF ReposRead, Least, SignalTypes

\* What was accounted for stays so.
LEMMA AccountsStand ==
    ASSUME SignalInv, [SignalNext]_signalVars, NEW r, NEW c, Accounted(r, c)
    PROVE  Accounted(r, c)'
<1>1. facts \subseteq facts' /\ errors \subseteq errors'
  BY DEF SignalNext, CommitsListed, ListingFails, StatArrives, StatFails, CommitRead, RepoRead, Settle,
         BudgetGone, SkipChore, DiffArrives, DiffFails, JudgeWeekEvidence, signalVars
<1>2. Substantive \subseteq Substantive'
  BY <1>1 DEF Substantive
<1>3. QED BY <1>1, <1>2 DEF Accounted

\* A commit read is known to be noise or work, or its failure is on the list.
LEMMA ReadIsAccounted ==
    ASSUME NEW c \in pending, NEW known \in BOOLEAN, NEW r,
           facts' = facts \cup {[commit |-> c, known |-> known]},
           errors' = IF known THEN errors ELSE errors \cup {<<"stat", c>>}
    PROVE  Accounted(r, c)'
<1>1. CASE ~known
  BY <1>1 DEF Accounted
<1>2. CASE known
  <2>1. PICK f : f = [commit |-> c, known |-> known]
    OBVIOUS
  <2>2. f \in facts' /\ f.known /\ f.commit = c
    BY <1>2, <2>1
  <2>3. ~NoiseOnly(c) => c \in Substantive'
    BY <2>2 DEF Substantive
  <2>4. QED BY <2>3 DEF Accounted
<1>3. QED BY <1>1, <1>2

LEMMA NothingIsOverlooked ==
    ASSUME SignalInv, Overlooked, [SignalNext]_signalVars
    PROVE  Overlooked'
<1>1. ReposRead \in Nat /\ repo \in Nat /\ week' = week /\ ReposRead' = ReposRead /\ \A commits : CommitsRead(commits)' = CommitsRead(commits)
  <2>1. week' = week
    BY DEF SignalNext, CommitsListed, ListingFails, StatArrives, StatFails, CommitRead, RepoRead, Settle,
           BudgetGone, SkipChore, DiffArrives, DiffFails, JudgeWeekEvidence, signalVars
  <2>2. QED BY <2>1, ReposAreCounted DEF SignalInv, ReposRead, CommitsRead
<1>2. \A r \in 1..ReposRead : \A c \in CommitsRead(week[r]) :
          r < repo \/ (r = repo /\ phase = "reading" /\ c \notin pending) => Accounted(r, c)'
  BY AccountsStand DEF Overlooked
<1>3. SUFFICES /\ phase' \in {"listing", "reading"} => repo' <= ReposRead + 1
               /\ phase' = "reading" => repo' <= ReposRead
               /\ phase' \in {"diffs", "judged"} => repo' = ReposRead + 1
               /\ \A r \in 1..ReposRead : \A c \in CommitsRead(week[r]) :
                    r < repo' \/ (r = repo' /\ phase' = "reading" /\ c \notin pending') => Accounted(r, c)'
  BY <1>1 DEF Overlooked
<1>4. CASE CommitsListed
  <2>1. phase' = "reading" /\ repo' = repo /\ pending' = CommitsRead(week[repo]) /\ repo <= ReposRead
    BY <1>4 DEF CommitsListed
  <2>2. QED BY <1>1, <1>2, <2>1
<1>5. CASE ListingFails
  <2>1. phase' = "listing" /\ repo' = repo + 1 /\ repo <= ReposRead /\ <<"list", repo>> \in errors'
    BY <1>5 DEF ListingFails
  <2>2. \A r : r = repo => \A c : Accounted(r, c)'
    BY <2>1 DEF Accounted
  <2>3. \A r \in 1..ReposRead : r < repo' => r < repo \/ r = repo
    BY <1>1, <2>1
  <2>4. QED BY <1>1, <1>2, <2>1, <2>2, <2>3
<1>6. CASE StatArrives \/ StatFails
  <2>1. PICK d \in pending, known \in BOOLEAN :
            /\ facts' = facts \cup {[commit |-> d, known |-> known]}
            /\ errors' = IF known THEN errors ELSE errors \cup {<<"stat", d>>}
            /\ pending' = pending \ {d}
    BY <1>6 DEF StatArrives, StatFails, CommitRead
  <2>2. phase = "reading" /\ phase' = "reading" /\ repo' = repo
    BY <1>6 DEF StatArrives, StatFails, CommitRead
  <2>3. \A r : Accounted(r, d)'
    BY <2>1, ReadIsAccounted
  <2>4. QED BY <1>1, <1>2, <2>1, <2>2, <2>3 DEF Overlooked
<1>7. CASE RepoRead
  <2>1. phase = "reading" /\ phase' = "listing" /\ repo' = repo + 1 /\ pending = {}
    BY <1>7 DEF RepoRead
  <2>2. QED BY <1>1, <1>2, <2>1 DEF Overlooked
<1>8. CASE Settle
  <2>1. phase = "listing" /\ phase' = "diffs" /\ repo' = repo /\ repo > ReposRead
    BY <1>8 DEF Settle
  <2>2. QED BY <1>1, <1>2, <2>1 DEF Overlooked
<1>9. CASE BudgetGone \/ SkipChore \/ DiffArrives \/ DiffFails \/ JudgeWeekEvidence
  <2>1. phase = "diffs" /\ phase' \in {"diffs", "judged"} /\ repo' = repo
    BY <1>9 DEF BudgetGone, SkipChore, DiffArrives, DiffFails, Asked, JudgeWeekEvidence
  <2>2. QED BY <1>1, <1>2, <2>1 DEF Overlooked
<1>10. CASE UNCHANGED signalVars
  <2>1. phase' = phase /\ repo' = repo /\ pending' = pending
    BY <1>10 DEF signalVars
  <2>2. QED BY <1>1, <1>2, <2>1 DEF Overlooked
<1>11. QED BY <1>4, <1>5, <1>6, <1>7, <1>8, <1>9, <1>10 DEF SignalNext

\* What a judgement may say, by what it rests on.
Founded ==
    phase = "judged" /\ ~signal.failure =>
        /\ signal.basis = "quiet" => Substantive = {} /\ ~AllUnknown
        /\ signal.basis = "model" => 2 * Cardinality(errors) <= Cardinality(Substantive)
        /\ \A c \in signal.claims : c.evidence \ {PlaceholderRef} # {}

LEMMA SignalsAreFounded ==
    ASSUME SignalInv, Founded, [SignalNext]_signalVars
    PROVE  Founded'
<1> SUFFICES ASSUME phase' = "judged", ~signal'.failure
             PROVE  /\ signal'.basis = "quiet" => Substantive' = {} /\ ~AllUnknown'
                    /\ signal'.basis = "model" => 2 * Cardinality(errors') <= Cardinality(Substantive')
                    /\ \A c \in signal'.claims : c.evidence \ {PlaceholderRef} # {}
  BY DEF Founded
<1>1. CASE JudgeWeekEvidence
  <2>1. PICK configured \in BOOLEAN, isNew \in BOOLEAN : signal' \in Signals(configured, isNew)
    BY <1>1 DEF JudgeWeekEvidence
  <2>2. UNCHANGED <<facts, errors, Substantive, AllUnknown>>
    BY <1>1 DEF JudgeWeekEvidence, Substantive, AllUnknown
  <2>3. signal' # Unavailable
    BY DEF Unavailable
  <2>4. Cardinality(errors) \in Nat /\ Cardinality(Substantive) \in Nat
    BY SubstantiveFacts, FS_CardinalityType DEF SignalInv, SignalTypes
  <2>5. AllUnknown => Substantive = {}
    BY DEF AllUnknown, Substantive
  <2>6. ~AllUnknown
    BY <2>1, <2>3, <2>5 DEF Signals
  <2>7. CASE Substantive = {}
    <3>1. signal' = Quiet(isNew)
      BY <2>1, <2>6, <2>7 DEF Signals
    <3>2. QED BY <2>2, <2>6, <2>7, <3>1 DEF Quiet
  <2>8. CASE Substantive # {}
    <3>1. 2 * Cardinality(errors) <= Cardinality(Substantive)
      BY <2>1, <2>3, <2>4, <2>6, <2>8 DEF Signals
    <3>2. \E a \in Answers : signal' = ParseSignal(a)
      BY <2>1, <2>3, <2>6, <2>8 DEF Signals
    <3>3. signal'.basis = "model" /\ \A c \in signal'.claims : c.evidence \ {PlaceholderRef} # {}
      BY <2>3, <3>2 DEF ParseSignal
    <3>4. QED BY <2>2, <3>1, <3>3
  <2>9. QED BY <2>7, <2>8
<1>2. CASE UNCHANGED signalVars
  BY <1>2 DEF signalVars, Founded, Substantive, AllUnknown
<1>3. CASE phase = "judged"
  BY <1>1, <1>2, <1>3 DEF SignalInv, Spent, SignalNext, CommitsListed, ListingFails, StatArrives, StatFails,
     CommitRead, RepoRead, Settle, BudgetGone, SkipChore, DiffArrives, DiffFails, Asked
<1>4. CASE phase # "judged"
  BY <1>1, <1>2, <1>4 DEF SignalNext, CommitsListed, ListingFails, StatArrives, StatFails,
     CommitRead, RepoRead, Settle, BudgetGone, SkipChore, DiffArrives, DiffFails, Asked
<1>5. QED BY <1>3, <1>4

\* Whatever fails, and whatever the model answers: of a week whose signal is kept,
\* each commit that is not noise was weighed or is behind an error on the list, a
\* quiet signal weighed none and knew something, and the model's had half its
\* fetches at the least and references for its claims.
THEOREM KeptSignalsAreWeighed == SignalSpec => []KeptSignalsAreEarned
<1>1. SignalInit => Overlooked /\ Founded
  <2> SUFFICES ASSUME SignalInit PROVE Overlooked /\ Founded
    OBVIOUS
  <2>1. ReposRead \in Nat /\ repo = 1 /\ phase = "listing"
    BY SignalInvInit, ReposAreCounted DEF SignalInv, SignalInit
  <2>2. QED BY <2>1 DEF Overlooked, Founded
<1>2. SignalInv /\ Overlooked /\ Founded => KeptSignalsAreEarned
  <2> SUFFICES ASSUME SignalInv, Overlooked, Founded, phase = "judged", ~signal.failure
               PROVE  \A r \in 1..ReposRead : \A c \in CommitsRead(week[r]) : Accounted(r, c)
    BY Zenon DEF Founded, KeptSignalsAreEarned, Accounted
  <2>1. ReposRead \in Nat /\ repo = ReposRead + 1
    BY ReposAreCounted DEF SignalInv, Overlooked
  <2>2. QED BY <2>1 DEF Overlooked
<1>3. QED BY <1>1, <1>2, NothingIsOverlooked, SignalsAreFounded, SignalInvInit, SignalInvNext, PTL DEF SignalSpec

-------------------------------------------------------------------------------
(* CI submissions *)

Commits == UNION Batches
Outcomes == UNION {AssessWithModel(NormalizeSpec(c.plan).chunks, c.evidence) : c \in Commits}
Filings == [commit : Commits, saw : Nat, assessment : Outcomes]

\* What the steps leave in the variables.
CiTypeOK ==
    /\ offered \in Batches
    /\ filed \in Seq(Filings)
    /\ request = [r \in Requests |-> request[r]]
    /\ \A r \in Requests :
        /\ request[r].at \in {"assessing", "storing"} => request[r].commit \in Commits /\ request[r].saw \in Nat
        /\ request[r].at = "storing" => request[r].found \in Outcomes

\* A request under way missed every assessment of its commit that was on file
\* when it looked, and what is on file stays there.
LookedBefore ==
    \A r \in Requests :
        request[r].at \in {"assessing", "storing"} =>
            /\ request[r].saw <= Len(filed)
            /\ \A i \in 1..request[r].saw : ~SameCommit(filed[i].commit, request[r].commit)

AnswersExist == \A r \in Requests : request[r].at = "answered" => request[r].with \in DOMAIN filed

CiInv == CiTypeOK /\ LookedBefore /\ AnswersExist /\ DuplicatesOnlyWhenOverlapping

-------------------------------------------------------------------------------
\* A request that ends an answer or gives up disturbs nobody.
LEMMA EndPreserves ==
    ASSUME CiInv, NEW r \in Requests, NEW end,
           \/ end.at \in {"idle", "refused"}
           \/ end.at = "answered" /\ end.with \in DOMAIN filed /\ SameCommit(filed[end.with].commit, end.commit),
           request' = [request EXCEPT ![r] = end], UNCHANGED <<offered, filed>>
    PROVE  CiInv'
<1>1. request' = [q \in Requests |-> IF q = r THEN end ELSE request[q]]
  BY DEF CiInv, CiTypeOK
<1>2. CiTypeOK'
  BY <1>1 DEF CiInv, CiTypeOK
<1>3. LookedBefore'
  BY <1>1 DEF CiInv, LookedBefore
<1>4. AnswersExist'
  BY <1>1 DEF CiInv, AnswersExist
<1>5. DuplicatesOnlyWhenOverlapping'
  BY <1>1 DEF CiInv, DuplicatesOnlyWhenOverlapping
<1> QED BY <1>2, <1>3, <1>4, <1>5 DEF CiInv

\* The look-up either finds the commit's first assessment or none among those on file.
LEMMA LookUpPreserves ==
    ASSUME CiInv, NEW r \in Requests, LookUp(r)
    PROVE  CiInv'
<1>1. PICK c \in offered :
        \/ \E first \in Existing(c) :
             request' = [request EXCEPT ![r] = [at |-> "answered", commit |-> c, with |-> first]]
        \/ /\ Existing(c) = {}
           /\ request' = [request EXCEPT ![r] = [at |-> "assessing", commit |-> c, saw |-> Len(filed)]]
  BY DEF LookUp, Move
<1>2. c \in Commits /\ Len(filed) \in Nat /\ DOMAIN filed = 1..Len(filed) /\ UNCHANGED <<offered, filed>>
  BY DEF CiInv, CiTypeOK, Commits, LookUp
<1>3. ASSUME NEW first \in Existing(c),
             request' = [request EXCEPT ![r] = [at |-> "answered", commit |-> c, with |-> first]]
      PROVE  CiInv'
  <2> DEFINE end == [at |-> "answered", commit |-> c, with |-> first]
  <2>1. end.at = "answered" /\ end.with \in DOMAIN filed /\ SameCommit(filed[end.with].commit, end.commit)
    BY DEF Existing
  <2>2. request' = [request EXCEPT ![r] = end] /\ UNCHANGED <<offered, filed>>
    BY <1>2, <1>3
  <2> HIDE DEF end
  <2> QED BY <2>1, <2>2, EndPreserves
<1>4. CASE Existing(c) = {} /\ request' = [request EXCEPT ![r] = [at |-> "assessing", commit |-> c, saw |-> Len(filed)]]
  <2> DEFINE here == [at |-> "assessing", commit |-> c, saw |-> Len(filed)]
  <2>1. request' = [q \in Requests |-> IF q = r THEN here ELSE request[q]]
    BY <1>4 DEF CiInv, CiTypeOK
  <2>2. CiTypeOK'
    BY <1>2, <2>1 DEF CiInv, CiTypeOK
  <2>3. LookedBefore'
    BY <1>2, <1>4, <2>1 DEF CiInv, LookedBefore, Existing
  <2>4. AnswersExist'
    BY <1>2, <2>1 DEF CiInv, AnswersExist
  <2>5. DuplicatesOnlyWhenOverlapping'
    BY <1>2, <2>1 DEF CiInv, DuplicatesOnlyWhenOverlapping
  <2> QED BY <2>2, <2>3, <2>4, <2>5 DEF CiInv
<1> QED BY <1>1, <1>3, <1>4

\* The model's answer is one of those the code can give.
LEMMA AssessPreserves ==
    ASSUME CiInv, NEW r \in Requests, Assess(r)
    PROVE  CiInv'
<1> DEFINE commit == request[r].commit
           outcomes == AssessWithModel(NormalizeSpec(commit.plan).chunks, commit.evidence)
<1>1. request[r].at = "assessing" /\ commit \in Commits /\ request[r].saw \in Nat /\ UNCHANGED <<offered, filed>>
  BY DEF CiInv, CiTypeOK, Assess
<1>2. PICK a \in outcomes :
        request' = [request EXCEPT ![r] = [at |-> "storing", commit |-> commit, saw |-> request[r].saw, found |-> a]]
  BY Zenon DEF Assess, Move
<1>3. a \in Outcomes
  BY <1>1, Zenon DEF Outcomes
<1> DEFINE here == [at |-> "storing", commit |-> commit, saw |-> request[r].saw, found |-> a]
<1>4. request' = [q \in Requests |-> IF q = r THEN here ELSE request[q]]
  BY <1>2 DEF CiInv, CiTypeOK
<1>5. CiTypeOK'
  BY <1>1, <1>3, <1>4 DEF CiInv, CiTypeOK
<1>6. LookedBefore'
  BY <1>1, <1>4 DEF CiInv, LookedBefore
<1>7. AnswersExist'
  BY <1>1, <1>4 DEF CiInv, AnswersExist
<1>8. DuplicatesOnlyWhenOverlapping'
  BY <1>1, <1>4 DEF CiInv, DuplicatesOnlyWhenOverlapping
<1> QED BY <1>5, <1>6, <1>7, <1>8 DEF CiInv

\* A new assessment comes last: an earlier one of its commit was filed after
\* the request had looked.
LEMMA StorePreserves ==
    ASSUME CiInv, NEW r \in Requests, Store(r)
    PROVE  CiInv'
<1> DEFINE new == [commit |-> request[r].commit, saw |-> request[r].saw, assessment |-> request[r].found]
           here == [at |-> "answered", commit |-> request[r].commit, with |-> Len(filed) + 1]
<1>1. request[r].at = "storing" /\ filed' = Append(filed, new) /\ UNCHANGED offered
  BY DEF Store
<1>2. request' = [q \in Requests |-> IF q = r THEN here ELSE request[q]]
  BY DEF CiInv, CiTypeOK, Store, Move
<1>3. new \in Filings
  BY <1>1 DEF CiInv, CiTypeOK, Filings
<1>4. /\ filed' \in Seq(Filings) /\ Len(filed) \in Nat /\ Len(filed') = Len(filed) + 1
      /\ DOMAIN filed = 1..Len(filed) /\ DOMAIN filed' = 1..Len(filed')
      /\ filed'[Len(filed) + 1] = new
      /\ \A i \in 1..Len(filed) : filed'[i] = filed[i]
  BY <1>1, <1>3 DEF CiInv, CiTypeOK
<1> HIDE DEF new
<1>5. CiTypeOK'
  BY <1>1, <1>2, <1>4 DEF CiInv, CiTypeOK
<1>6. LookedBefore'
  <2> SUFFICES ASSUME NEW q \in Requests, request'[q].at \in {"assessing", "storing"}
               PROVE  /\ request'[q].saw <= Len(filed')
                      /\ \A i \in 1..request'[q].saw : ~SameCommit(filed'[i].commit, request'[q].commit)
    BY DEF LookedBefore, SameCommit
  <2>1. request'[q] = request[q]
    BY <1>2
  <2>2. request[q].saw \in Nat /\ request[q].saw <= Len(filed)
        /\ \A i \in 1..request[q].saw : ~SameCommit(filed[i].commit, request[q].commit)
    BY <2>1 DEF CiInv, CiTypeOK, LookedBefore
  <2> QED BY <1>4, <2>1, <2>2
<1>7. AnswersExist'
  BY <1>2, <1>4 DEF CiInv, AnswersExist
<1>8. DuplicatesOnlyWhenOverlapping'
  <2>1. \A i, j \in DOMAIN filed' : i < j /\ SameCommit(filed'[i].commit, filed'[j].commit) => filed'[j].saw < i
    <3> SUFFICES ASSUME NEW i \in DOMAIN filed', NEW j \in DOMAIN filed',
                        i < j, SameCommit(filed'[i].commit, filed'[j].commit)
                 PROVE  filed'[j].saw < i
      OBVIOUS
    <3>1. CASE j \in DOMAIN filed
      <4>1. i \in DOMAIN filed /\ filed'[i] = filed[i] /\ filed'[j] = filed[j]
        BY <1>4, <3>1
      <4> QED BY <3>1, <4>1 DEF CiInv, DuplicatesOnlyWhenOverlapping
    <3>2. CASE j = Len(filed) + 1
      <4>1. i \in 1..Len(filed) /\ filed'[i] = filed[i]
        BY <1>4, <3>2
      <4>2. filed'[j].commit = request[r].commit /\ filed'[j].saw = request[r].saw
        BY <1>4, <3>2 DEF new
      <4>3. ~(i \in 1..request[r].saw) /\ request[r].saw \in Nat
        BY <1>1, <4>1, <4>2 DEF CiInv, CiTypeOK, LookedBefore
      <4> QED BY <4>1, <4>2, <4>3
    <3> QED BY <1>4, <3>1, <3>2
  <2>2. \A q \in Requests :
          request'[q].at = "answered" => SameCommit(filed'[request'[q].with].commit, request'[q].commit)
    <3>1. SameCommit(filed'[here.with].commit, here.commit)
      BY <1>4 DEF SameCommit, new
    <3>2. ASSUME NEW q \in Requests, q # r, request[q].at = "answered"
          PROVE  SameCommit(filed'[request[q].with].commit, request[q].commit)
      <4>1. request[q].with \in 1..Len(filed)
        BY <1>4, <3>2 DEF CiInv, AnswersExist
      <4> QED BY <1>4, <3>2, <4>1 DEF CiInv, DuplicatesOnlyWhenOverlapping
    <3> HIDE DEF here
    <3> QED BY <1>2, <3>1, <3>2
  <2> QED BY <2>1, <2>2 DEF DuplicatesOnlyWhenOverlapping, SameCommit
<1> QED BY <1>5, <1>6, <1>7, <1>8 DEF CiInv

\* A restart forgets the requests and keeps what was filed.
LEMMA RestartPreserves ==
    ASSUME CiInv, RestartServer
    PROVE  CiInv'
BY DEF CiInv, CiTypeOK, LookedBefore, AnswersExist, DuplicatesOnlyWhenOverlapping, SameCommit, RestartServer, Idle

\* Nothing depends on anything but the three variables.
LEMMA StutterPreserves ==
    ASSUME CiInv, UNCHANGED ciVars
    PROVE  CiInv'
BY DEF CiInv, CiTypeOK, LookedBefore, AnswersExist, DuplicatesOnlyWhenOverlapping, SameCommit, ciVars

LEMMA StepPreserves ==
    ASSUME CiInv, [CiNext]_ciVars
    PROVE  CiInv'
<1>1. ASSUME NEW r \in Requests, Refuse(r) PROVE CiInv'
  <2>1. PICK c \in offered : request' = [request EXCEPT ![r] = [at |-> "refused", commit |-> c]]
    BY <1>1 DEF Refuse, Move
  <2> DEFINE end == [at |-> "refused", commit |-> c]
  <2>2. end.at \in {"idle", "refused"}
    OBVIOUS
  <2>3. request' = [request EXCEPT ![r] = end] /\ UNCHANGED <<offered, filed>>
    BY <1>1, <2>1 DEF Refuse
  <2> HIDE DEF end
  <2> QED BY <2>2, <2>3, EndPreserves
<1>2. ASSUME NEW r \in Requests, Again(r) PROVE CiInv'
  <2>1. Idle.at = "idle" /\ request' = [request EXCEPT ![r] = Idle] /\ UNCHANGED <<offered, filed>>
    BY <1>2 DEF Again, Move, Idle
  <2> QED BY <2>1, EndPreserves
<1> QED BY <1>1, <1>2, LookUpPreserves, AssessPreserves, StorePreserves, RestartPreserves, StutterPreserves DEF CiNext

-------------------------------------------------------------------------------
\* A commit is assessed twice only by requests that overlapped, and a request is
\* answered with an assessment of its own commit: whatever is submitted,
\* whatever the model answers, however many requests and restarts.
THEOREM SubmissionsAreIdempotent == CiSpec => []DuplicatesOnlyWhenOverlapping
<1>1. CiInit => CiInv
  BY DEF CiInit, CiInv, CiTypeOK, LookedBefore, AnswersExist, DuplicatesOnlyWhenOverlapping, Idle
<1>2. CiInv => DuplicatesOnlyWhenOverlapping
  BY DEF CiInv
<1> QED BY <1>1, <1>2, StepPreserves, PTL DEF CiSpec

-------------------------------------------------------------------------------
(* What a set of deductions costs *)

\* The sum over a finite set is a number, and bounded by its size.
LEMMA SumOfPoints ==
    ASSUME NEW S, IsFiniteSet(S), NEW k \in Nat, \A d \in S : d.points \in 0..k
    PROVE  TotalPoints(S) \in 0..(k * Cardinality(S))
<1> DEFINE points == [d \in S |-> d.points]
<1>1. IsFiniteSet(DOMAIN points) /\ DOMAIN points = S /\ \A d \in DOMAIN points : points[d] \in 0..k
  OBVIOUS
<1>2. TotalPoints(S) = SumFunction(points)
  BY Zenon DEF TotalPoints
<1> HIDE DEF points
<1> QED BY <1>1, <1>2, SumIsBounded

\* What the engine can deduct for, and what it deducts without naming a blocker.
Deduction(field, points, blocks) == [field |-> field, points |-> points, blocks |-> blocks]
Warnings == {Deduction("milestone_due_week", 10, FALSE), Deduction("docs_updated", 5, FALSE)}
Blockers(missing) ==
    {Deduction("progress_age_days", 30, TRUE), Deduction("progress_age_days", 15, TRUE),
     Deduction("milestone_due_week", 25, TRUE), Deduction("tests_failed", 30, TRUE),
     Deduction("tests_total", 10, TRUE), Deduction("coverage_pct", 20, TRUE),
     Deduction("deploy_status", 25, TRUE), Deduction("check_results", 20, TRUE),
     Deduction("acceptance_criteria_refs", missing, TRUE), Deduction("scope_change_count", 15, TRUE)}

LEMMA PointsOfDeductions ==
    ASSUME NEW missing \in 0..25
    PROVE  /\ IsFiniteSet(Warnings) /\ Cardinality(Warnings) <= 2 /\ IsFiniteSet(Blockers(missing))
           /\ \A d \in Warnings : d.points \in 0..10
           /\ \A d \in Blockers(missing) : d.points \in 0..30 /\ d.blocks
<1>1. \A a, b : IsFiniteSet({a, b}) /\ Cardinality({a, b}) <= 2
  <2> TAKE a, b
  <2>1. IsFiniteSet({a}) /\ Cardinality({a}) = 1
    BY FS_Singleton
  <2>2. {a, b} = {a} \cup {b}
    OBVIOUS
  <2>3. IsFiniteSet({a} \cup {b}) /\ (Cardinality({a} \cup {b}) = IF b \in {a} THEN 1 ELSE 2)
    BY <2>1, FS_AddElement
  <2> QED BY <2>2, <2>3
<1>2. IsFiniteSet(Warnings) /\ Cardinality(Warnings) <= 2
  BY <1>1 DEF Warnings
<1>3. IsFiniteSet(Blockers(missing))
  <2> DEFINE D(f, p) == Deduction(f, p, TRUE)
  <2> HIDE DEF D
  <2>1. \A a, b, c, d, f, g, h, i, j, k : IsFiniteSet({a, b, c, d, f, g, h, i, j, k})
    <3> TAKE a, b, c, d, f, g, h, i, j, k
    <3>1. {a, b, c, d, f, g, h, i, j, k} = (({a, b} \cup {c, d}) \cup ({f, g} \cup {h, i})) \cup {j, k}
      OBVIOUS
    <3>2. IsFiniteSet({a, b} \cup {c, d}) /\ IsFiniteSet({f, g} \cup {h, i})
      BY <1>1, FS_Union
    <3>3. IsFiniteSet(({a, b} \cup {c, d}) \cup ({f, g} \cup {h, i}))
      BY <3>2, FS_Union
    <3> DEFINE most == ({a, b} \cup {c, d}) \cup ({f, g} \cup {h, i})
    <3> HIDE DEF most
    <3>4. IsFiniteSet(most) /\ IsFiniteSet({j, k})
      BY <1>1, <3>3 DEF most
    <3>5. IsFiniteSet(most \cup {j, k})
      BY <3>4, FS_Union
    <3> QED BY <3>1, <3>5 DEF most
  <2> QED BY <2>1, Zenon DEF Blockers
<1>4. \A d \in Warnings : d.points \in 0..10
  BY DEF Warnings, Deduction
<1>5. \A d \in Blockers(missing) : d.points \in 0..30 /\ d.blocks
  BY DEF Blockers, Deduction
<1> QED BY <1>2, <1>3, <1>4, <1>5

LEMMA DeductionsFacts ==
    ASSUME NEW expected, IsFiniteSet(expected), NEW e
    PROVE  /\ \E missing \in 0..25 : Deductions(expected, e) \subseteq Warnings \cup Blockers(missing)
           /\ e.age >= ProgressRiskDays => \E d \in Deductions(expected, e) : d.blocks
<1> DEFINE criteria == MissingCriteria(expected, e)
<1>1. IsFiniteSet(criteria)
  <2> DEFINE wanted == {x \in expected : x.kind = "acceptance"}
             content == [c \in wanted |-> c.content]
  <2>1. IsFiniteSet(wanted)
    BY FS_Subset
  <2>2. Contents(expected, "acceptance") = {content[c] : c \in wanted}
    BY DEF Contents
  <2>3. IsFiniteSet(Contents(expected, "acceptance"))
    <3> HIDE DEF wanted, content
    <3> QED BY <2>1, <2>2, FiniteImage
  <2> QED BY <2>3, FS_Subset DEF MissingCriteria
<1>2. Cardinality(criteria) \in Nat
  BY <1>1, FS_CardinalityType
<1>3. PICK missing \in 0..25 : missing = Least(25, 5 * Cardinality(criteria))
  BY <1>2 DEF Least
<1> HIDE DEF criteria
<1>4. ASSUME NEW d \in Deductions(expected, e) PROVE d \in Warnings \cup Blockers(missing)
  BY <1>3, <1>4 DEF Deductions, Warnings, Blockers, Deduction, criteria
<1>5. ASSUME e.age >= ProgressRiskDays PROVE \E d \in Deductions(expected, e) : d.blocks
  <2>1. Deduction("progress_age_days", 30, TRUE) \in Deductions(expected, e)
    BY <1>5 DEF Deductions, Deduction
  <2>2. Deduction("progress_age_days", 30, TRUE).blocks
    BY DEF Deduction
  <2> QED BY <2>1, <2>2, Zenon
<1> QED BY <1>3, <1>4, <1>5

\* Without a blocker the deductions are small: the score stays at 80 or more.
LEMMA PointsTaken ==
    ASSUME NEW expected, IsFiniteSet(expected), NEW e
    PROVE  LET costs == Deductions(expected, e)
           IN  /\ TotalPoints(costs) \in Nat
               /\ (\A d \in costs : ~d.blocks) => TotalPoints(costs) <= 20
<1> DEFINE costs == Deductions(expected, e)
<1>1. PICK missing \in 0..25 : costs \subseteq Warnings \cup Blockers(missing)
  BY DeductionsFacts
<1> HIDE DEF costs
<1>2. /\ IsFiniteSet(Warnings) /\ Cardinality(Warnings) <= 2 /\ IsFiniteSet(Blockers(missing))
      /\ \A d \in Warnings : d.points \in 0..10
      /\ \A d \in Blockers(missing) : d.points \in 0..30 /\ d.blocks
  BY PointsOfDeductions
<1>3. IsFiniteSet(costs) /\ \A d \in costs : d.points \in 0..30
  <2>1. IsFiniteSet(Warnings \cup Blockers(missing))
    BY <1>2, FS_Union
  <2>2. IsFiniteSet(costs)
    BY <1>1, <2>1, FS_Subset
  <2> QED BY <1>1, <1>2, <2>2
<1>4. TotalPoints(costs) \in Nat
  <2>1. TotalPoints(costs) \in 0..(30 * Cardinality(costs))
    BY <1>3, SumOfPoints
  <2> QED BY <2>1
<1>5. ASSUME \A d \in costs : ~d.blocks PROVE TotalPoints(costs) <= 20
  <2>1. costs \subseteq Warnings
    BY <1>1, <1>2, <1>5
  <2>2. Cardinality(costs) \in Nat /\ Cardinality(costs) <= 2 /\ \A d \in costs : d.points \in 0..10
    <3>1. Cardinality(costs) \in Nat /\ Cardinality(Warnings) \in Nat
      BY <1>2, <1>3, FS_CardinalityType
    <3>2. Cardinality(costs) <= Cardinality(Warnings)
      BY <1>2, <2>1, FS_Subset
    <3> QED BY <1>2, <2>1, <3>1, <3>2
  <2>3. TotalPoints(costs) \in 0..(10 * Cardinality(costs))
    BY <1>3, <2>2, SumOfPoints
  <2> QED BY <2>2, <2>3
<1> QED BY <1>4, <1>5 DEF costs

-------------------------------------------------------------------------------
(* The engine, and what a model's answer makes of it *)

Policy == {"planned_pause", "insufficient_data"}

\* Whatever is not a pause cites something, and whatever is at risk names why.
Traceable(a) ==
    /\ a.score \in Int
    /\ a.status # "planned_pause" => a.cites # {}
    /\ a.status = "at_risk" => a.blockers # {}

LEMMA CiteCites ==
    ASSUME NEW fields, fields # {}
    PROVE  Cite(fields) # {}
BY DEF Cite

LEMMA ScoredIsTraceable ==
    ASSUME NEW expected, IsFiniteSet(expected), NEW e
    PROVE  Traceable(Scored(expected, e))
<1> DEFINE costs == Deductions(expected, e)
           score == 100 - TotalPoints(costs)
           status == StatusFor(expected, e, score)
           reasons == {d.field : d \in costs} \cup (IF e.milestones # {} THEN {"milestone_refs"} ELSE {})
           fields == IF status # "clear" /\ reasons = {} THEN {"commit_sha"} ELSE reasons
           blockers == {d.field : d \in {x \in costs : x.blocks}}
           a == Scored(expected, e)
<1>1. /\ a.status = status /\ a.score = Greatest(0, score)
      /\ a.blockers = blockers /\ a.cites = Cite(fields)
  BY DEF Scored, Result
<1>2. /\ TotalPoints(costs) \in Nat
      /\ (\A d \in costs : ~d.blocks) => TotalPoints(costs) <= 20
      /\ e.age >= ProgressRiskDays => \E d \in costs : d.blocks
  BY PointsTaken, DeductionsFacts
<1>3. status = "clear" => e.milestones # {}
  BY DEF StatusFor
<1>4. status = "at_risk" => e.age >= ProgressRiskDays \/ score < 55
  BY DEF StatusFor
<1> HIDE DEF costs, status, a
<1>5. a.score \in Int
  BY <1>1, <1>2 DEF Greatest
<1>6. fields # {}
  BY <1>3
<1>7. status = "at_risk" => blockers # {}
  <2>1. status = "at_risk" => \E d \in costs : d.blocks
    BY <1>2, <1>4
  <2> QED BY <2>1
<1> HIDE DEF fields, blockers
<1>8. a.cites # {}
  BY <1>1, <1>6, CiteCites
<1> QED BY <1>1, <1>5, <1>7, <1>8 DEF Traceable, a

LEMMA EngineIsTraceable ==
    ASSUME NEW chunks, IsFiniteSet(chunks), NEW e
    PROVE  Traceable(AssessProject(chunks, e))
<1> DEFINE expected == ExpectedChunks(chunks, e)
           a == AssessProject(chunks, e)
<1>1. IsFiniteSet(expected)
  <2>1. expected \in SUBSET chunks
    BY DEF ExpectedChunks, RetrieveChunks
  <2> HIDE DEF expected
  <2> QED BY <2>1, FS_Subset
<1> SUFFICES Traceable(a)
  OBVIOUS
<1>2. \/ a = Result("planned_pause", 100, {}, {}, {})
      \/ \E tasks, field : a = Result("insufficient_data", 0, {field}, tasks, Cite({field}))
      \/ a = Scored(expected, e)
  <2> DEFINE tasks == Contents(expected, "task")
             unknown(field) == Result("insufficient_data", 0, {field}, tasks, Cite({field}))
  <2>1. \/ a = Result("planned_pause", 100, {}, {}, {})
        \/ a = unknown("expected_week")
        \/ a = unknown("commit_sha")
        \/ a = Scored(expected, e)
    BY DEF AssessProject
  <2> HIDE DEF a
  <2> QED BY <2>1
<1> HIDE DEF a, expected
<1>3. CASE a = Result("planned_pause", 100, {}, {}, {})
  BY <1>3 DEF Result, Traceable
<1>4. CASE \E tasks, field : a = Result("insufficient_data", 0, {field}, tasks, Cite({field}))
  <2>1. PICK tasks, field : a = Result("insufficient_data", 0, {field}, tasks, Cite({field}))
    BY <1>4
  <2>2. Cite({field}) # {}
    BY CiteCites
  <2> QED BY <2>1, <2>2 DEF Result, Traceable
<1>5. CASE a = Scored(expected, e)
  BY <1>1, <1>5, ScoredIsTraceable
<1> QED BY <1>2, <1>3, <1>4, <1>5

\* What an answer of the model turns into is the engine's finding, worsened.
LEMMA ReconciledIsWorse ==
    ASSUME NEW engine, Traceable(engine), engine.status \notin Policy,
           NEW table, NEW p, Valid(p, table), NEW given \in Reconcile(engine, p)
    PROVE  /\ Severity(given.status) >= Severity(engine.status)
           /\ given.score <= engine.score
           /\ given.cites # {} /\ given.cites \subseteq engine.cites \cup table
           /\ engine.status = "at_risk" => given.blockers # {}
<1> DEFINE kept == {b \in p.blockers : b.facts # {}}
<1>1. PICK tasks : given =
        Result(IF Severity(p.status) > Severity(engine.status) THEN p.status ELSE engine.status,
               Least(p.score, engine.score),
               IF kept # {} THEN {b.text : b \in kept} ELSE engine.blockers,
               tasks,
               IF kept # {} THEN UNION {b.facts : b \in kept} ELSE engine.cites)
  BY DEF Reconcile
<1>2. /\ given.status = IF Severity(p.status) > Severity(engine.status) THEN p.status ELSE engine.status
      /\ given.score = Least(p.score, engine.score)
      /\ given.blockers = IF kept # {} THEN {b.text : b \in kept} ELSE engine.blockers
      /\ given.cites = IF kept # {} THEN UNION {b.facts : b \in kept} ELSE engine.cites
  BY <1>1 DEF Result
<1>3. Severity(given.status) >= Severity(engine.status)
  BY <1>2 DEF Severity
<1>4. given.score <= engine.score
  BY <1>2 DEF Least, Traceable
<1>5. given.cites # {}
  <2>1. kept # {} => UNION {b.facts : b \in kept} # {}
    OBVIOUS
  <2> QED BY <1>2, <2>1 DEF Traceable, Policy
<1>6. given.cites \subseteq engine.cites \cup table
  BY <1>2 DEF Valid
<1>7. engine.status = "at_risk" => given.blockers # {}
  <2>1. kept # {} => {b.text : b \in kept} # {}
    OBVIOUS
  <2> QED BY <1>2, <2>1 DEF Traceable
<1> QED BY <1>3, <1>4, <1>5, <1>6, <1>7

LEMMA AnswersAreFailClosed ==
    ASSUME NEW c \in Commits,
           NEW given \in AssessWithModel(NormalizeSpec(c.plan).chunks, c.evidence)
    PROVE  FailClosed(c, given)
<1> DEFINE chunks == NormalizeSpec(c.plan).chunks
           engine == AssessProject(chunks, c.evidence)
           table == FactTable(ExpectedChunks(chunks, c.evidence), c.evidence)
<1>1. IsFiniteSet(chunks)
  <2>1. IsFiniteSet(PlanChunks(c.plan)) /\ IsFiniteSet({})
    BY CiAssumption, FS_EmptySet DEF Commits
  <2>2. chunks = {} \/ chunks = PlanChunks(c.plan)
    BY DEF NormalizeSpec
  <2> QED BY <2>1, <2>2
<1> HIDE DEF chunks
<1>2. Traceable(engine)
  BY <1>1, EngineIsTraceable
<1>3. \/ given = engine
      \/ /\ engine.status \notin Policy
         /\ \E p \in Proposals : Valid(p, table) /\ given \in Reconcile(engine, p)
  BY DEF AssessWithModel, Policy, chunks
<1> HIDE DEF engine, table
<1>4. SUFFICES /\ Severity(given.status) >= Severity(engine.status)
               /\ given.score <= engine.score
               /\ engine.status \in Policy => given = engine
               /\ given.status # "planned_pause" => given.cites # {}
               /\ given.cites \subseteq engine.cites \cup table
               /\ engine.status = "at_risk" => given.blockers # {}
  BY Zenon DEF FailClosed, Policy, chunks, engine, table
<1>5. CASE given = engine
  BY <1>2, <1>5 DEF Traceable, Severity
<1>6. ASSUME NEW p \in Proposals, engine.status \notin Policy, Valid(p, table), given \in Reconcile(engine, p)
      PROVE  /\ Severity(given.status) >= Severity(engine.status)
             /\ given.score <= engine.score
             /\ given.cites # {} /\ given.cites \subseteq engine.cites \cup table
             /\ engine.status = "at_risk" => given.blockers # {}
  BY <1>2, <1>6, ReconciledIsWorse
<1> QED BY <1>3, <1>5, <1>6

-------------------------------------------------------------------------------
\* What is filed, or about to be, was given for the commit it is filed with.
OwnAnswers ==
    /\ \A i \in DOMAIN filed : FailClosed(filed[i].commit, filed[i].assessment)
    /\ \A r \in Requests : request[r].at = "storing" => FailClosed(request[r].commit, request[r].found)

\* A step that files nothing and leaves a request anywhere but at storing.
LEMMA NothingGivenPreserves ==
    ASSUME OwnAnswers, CiInv, UNCHANGED filed,
           \A r \in Requests : request'[r] = request[r] \/ request'[r].at # "storing"
    PROVE  OwnAnswers'
BY DEF OwnAnswers, FailClosed

LEMMA OwnAnswersPreserved ==
    ASSUME CiInv, OwnAnswers, [CiNext]_ciVars
    PROVE  OwnAnswers'
<1>1. request = [r \in Requests |-> request[r]]
  BY DEF CiInv, CiTypeOK
<1>2. ASSUME NEW r \in Requests, NEW to, Move(r, to)
      PROVE  request' = [q \in Requests |-> IF q = r THEN to ELSE request[q]]
  BY <1>1, <1>2 DEF Move
<1>3. ASSUME NEW r \in Requests, Refuse(r) \/ LookUp(r) \/ Again(r)
      PROVE  OwnAnswers'
  <2>1. UNCHANGED filed
    BY <1>3 DEF Refuse, LookUp, Again
  <2>2. \E to : Move(r, to) /\ to.at # "storing"
    <3>1. CASE Refuse(r)
      <4>1. PICK c : Move(r, [at |-> "refused", commit |-> c])
        BY <3>1, Zenon DEF Refuse
      <4> QED BY <4>1
    <3>2. CASE LookUp(r)
      <4>1. PICK c, first : \/ Move(r, [at |-> "answered", commit |-> c, with |-> first])
                            \/ Move(r, [at |-> "assessing", commit |-> c, saw |-> Len(filed)])
        BY <3>2, Zenon DEF LookUp
      <4> QED BY <4>1
    <3>3. CASE Again(r)
      <4>1. Move(r, Idle) /\ Idle.at # "storing"
        BY <3>3 DEF Again, Idle
      <4> QED BY <4>1
    <3> QED BY <1>3, <3>1, <3>2, <3>3
  <2>3. PICK to : Move(r, to) /\ to.at # "storing"
    BY <2>2
  <2>4. request' = [q \in Requests |-> IF q = r THEN to ELSE request[q]]
    BY <1>2, <2>3
  <2>5. \A q \in Requests : request'[q] = request[q] \/ request'[q].at # "storing"
    BY <2>3, <2>4
  <2> QED BY <2>1, <2>5, NothingGivenPreserves
<1>4. ASSUME NEW r \in Requests, Assess(r)
      PROVE  OwnAnswers'
  <2> DEFINE commit == request[r].commit
  <2>1. commit \in Commits /\ UNCHANGED filed
    BY <1>4 DEF CiInv, CiTypeOK, Assess
  <2>2. PICK a \in AssessWithModel(NormalizeSpec(commit.plan).chunks, commit.evidence) :
          Move(r, [at |-> "storing", commit |-> commit, saw |-> request[r].saw, found |-> a])
    BY <1>4, Zenon DEF Assess
  <2>3. FailClosed(commit, a)
    <3> HIDE DEF commit
    <3> QED BY <2>1, <2>2, AnswersAreFailClosed
  <2> DEFINE to == [at |-> "storing", commit |-> commit, saw |-> request[r].saw, found |-> a]
  <2>4. to.commit = commit /\ to.found = a
    OBVIOUS
  <2>5. request' = [q \in Requests |-> IF q = r THEN to ELSE request[q]]
    <3> HIDE DEF to
    <3>1. Move(r, to)
      BY <2>2 DEF to
    <3> QED BY <1>2, <3>1
  <2> HIDE DEF to, commit
  <2> QED BY <2>1, <2>3, <2>4, <2>5 DEF OwnAnswers
<1>5. ASSUME NEW r \in Requests, Store(r)
      PROVE  OwnAnswers'
  <2> DEFINE new == [commit |-> request[r].commit, saw |-> request[r].saw, assessment |-> request[r].found]
             to == [at |-> "answered", commit |-> request[r].commit, with |-> Len(filed) + 1]
  <2>1. request[r].at = "storing" /\ filed' = Append(filed, new) /\ Move(r, to)
    BY <1>5 DEF Store
  <2>2. new.commit = request[r].commit /\ new.assessment = request[r].found /\ to.at # "storing"
    OBVIOUS
  <2> HIDE DEF new, to
  <2>3. request' = [q \in Requests |-> IF q = r THEN to ELSE request[q]]
    BY <1>2, <2>1
  <2>4. /\ \A i \in DOMAIN filed : filed'[i] = filed[i]
        /\ filed'[Len(filed) + 1] = new
        /\ DOMAIN filed' = DOMAIN filed \cup {Len(filed) + 1}
    <3>1. SomeSeq(filed)
      BY DEF CiInv, CiTypeOK, SomeSeq
    <3> QED BY <2>1, <3>1, AppendIsASeq
  <2> QED BY <2>1, <2>2, <2>3, <2>4 DEF OwnAnswers
<1>6. CASE RestartServer
  <2>1. UNCHANGED filed /\ \A q \in Requests : request'[q].at # "storing"
    BY <1>6 DEF RestartServer, Idle
  <2> QED BY <2>1, NothingGivenPreserves
<1>7. CASE UNCHANGED ciVars
  BY <1>7, NothingGivenPreserves DEF ciVars
<1> QED BY <1>3, <1>4, <1>5, <1>6, <1>7 DEF CiNext

\* Whatever the model answers, what is filed for a commit is the engine's
\* finding or worse, scores no higher, and cites facts of its submission.
THEOREM EnrichmentNeverSoftens == CiSpec => []EnrichmentIsFailClosed
<1>1. CiInit => CiInv /\ OwnAnswers
  BY DEF CiInit, CiInv, CiTypeOK, LookedBefore, AnswersExist, DuplicatesOnlyWhenOverlapping, OwnAnswers, Idle
<1>2. OwnAnswers => EnrichmentIsFailClosed
  BY DEF OwnAnswers, EnrichmentIsFailClosed
<1> QED BY <1>1, <1>2, StepPreserves, OwnAnswersPreserved, PTL DEF CiSpec
================================================================================
