-------------------------------- MODULE PageWalk --------------------------------
(***************************************************************************)
(* pages(): every list endpoint of Gitea and of the team directory is read *)
(* page by page, one request a step.  The server decides how many items a  *)
(* page holds and how it says that there are more; new items come in at    *)
(* the front while the walk is under way.                                  *)
(***************************************************************************)
EXTENDS Aggregates

CONSTANTS
    PageSize,             \* the page size asked for
    MaxPages,             \* after that many requests the walk gives up
    Servers,              \* [style, cap]: how a server pages
    MaxItems              \* bound: how many items a listing ever holds

\* A server that says nothing about further pages grants the size asked for.
ASSUME PageAssumption ==
    /\ {PageSize, MaxPages} \subseteq Nat \ {0} /\ MaxItems \in Nat
    /\ Servers \subseteq [style: {"link", "flag", "header", "none"}, cap: Nat \ {0}]
    /\ \A s \in Servers : s.style = "none" => PageSize <= s.cap

VARIABLES
    server,
    listing,              \* the items on the server, newest first
    atStart,              \* those of them the walk began with
    collected,
    page,                 \* the walk's own counter
    next,                 \* the page a link named, 0 without one
    requests,
    walk                  \* "going", "done" or "failed"

pageVars == <<server, listing, atStart, collected, page, next, requests, walk>>

Newest(n) == [i \in 1..n |-> n - i + 1]

PageInit ==
    /\ server \in Servers
    /\ \E n \in 0..MaxItems : listing = Newest(n) /\ atStart = 1..n
    /\ collected = <<>> /\ page = 1 /\ next = 0 /\ requests = 0 /\ walk = "going"

\* What the server answers: a page no longer than its cap, and, in its style,
\* whether there is more - a link, a flag in the body, a header, or nothing.
Response(n) ==
    LET size == Least(PageSize, server.cap)
        from == (n - 1) * size + 1
        more == n * size < Len(listing)
    IN  [items |-> SubSeq(listing, from, Least(n * size, Len(listing))),
         link |-> IF server.style = "link" /\ more THEN n + 1 ELSE 0,
         flag |-> server.style = "flag" /\ more,
         header |-> server.style = "header" /\ more]

\* _extract_page, and _header_has_more where the body does not say.
HasMore_BodyOnly(response) == response.flag  \* mutant: the header is not looked at
HasMore(response) == response.flag \/ (response.items # <<>> /\ response.header)

Request ==
    /\ walk = "going" /\ requests < MaxPages
    /\ LET got == Response(IF next # 0 THEN next ELSE page)
       IN  /\ collected' = collected \o got.items
           /\ next' = got.link
           /\ IF got.link # 0 THEN UNCHANGED <<page, walk>>
              ELSE IF HasMore(got) \/ Len(got.items) >= PageSize THEN page' = page + 1 /\ UNCHANGED walk
              ELSE walk' = "done" /\ UNCHANGED page
    /\ requests' = requests + 1
    /\ UNCHANGED <<server, listing, atStart>>

TooManyPages ==
    /\ walk = "going" /\ requests = MaxPages
    /\ walk' = "failed"
    /\ UNCHANGED <<server, listing, atStart, collected, page, next, requests>>

RequestFails ==
    /\ walk = "going" /\ requests < MaxPages
    /\ walk' = "failed"
    /\ UNCHANGED <<server, listing, atStart, collected, page, next, requests>>

ItemComesIn ==
    /\ walk = "going" /\ Len(listing) < MaxItems
    /\ listing' = <<Len(listing) + 1>> \o listing
    /\ UNCHANGED <<server, atStart, collected, page, next, requests, walk>>

PageNext == Request \/ TooManyPages \/ RequestFails \/ ItemComesIn

PageSpec == PageInit /\ [][PageNext]_pageVars

-------------------------------------------------------------------------------

\* A server that links its pages, the last of them full: the walk takes the full
\* page for a sign of more, and its own counter, which links do not advance,
\* starts over at the second page.
LinkedLastPageIsFull ==
    LET size == Least(PageSize, server.cap)
    IN  server.style = "link" /\ size = PageSize /\ \E pages \in 2..Len(listing) : Len(listing) = pages * size

\* A walk that ends has every item the listing began with, whatever came in
\* meanwhile.  It holds an item twice only when something came in, or after a
\* full last page that was reached by a link.
PagesAreComplete ==
    walk = "done" =>
        /\ atStart \subseteq Range(collected)
        /\ Len(listing) = Cardinality(atStart) /\ ~LinkedLastPageIsFull => Len(collected) = Len(listing)
===============================================================================
