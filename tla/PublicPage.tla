----------------------------- MODULE PublicPage -----------------------------
(***************************************************************************)
(* Fetching a page (fetchPublicPage) and reading the answer of the search  *)
(* service (parseSearchResponse, the size limit of searchWeb).  The web is *)
(* a function from addresses to what they answer: another address to go    *)
(* to, a page, or one of the failures.  Sizes are in units of the limits.  *)
(***************************************************************************)
EXTENDS Naturals, Sequences

CONSTANTS
  Addresses,  \* the addresses of the web
  MaxHops,    \* 3: the redirects that are followed
  MaxPage     \* 2 MB: the limit of a page, in chunks

Failures == {"unreached", "unfit"}
Page(chunks) == [is |-> "page", chunks |-> chunks]
Redirect(to) == [is |-> "redirect", to |-> to]
Failure(why) == [is |-> "failure", why |-> why]
Answers ==
  {Page(n) : n \in 0..(MaxPage + 1)} \cup {Redirect(a) : a \in Addresses}
  \cup {Failure(why) : why \in Failures}

(* The address is validated and asked: one that is not public, that nobody *)
(* resolves or whose connection breaks is not reached; no page is a status *)
(* other than 2xx, another type, a compressed body, a redirect nowhere.    *)
Asked(web, address) ==
  IF web[address].is = "page" /\ web[address].chunks > MaxPage THEN Failure("overlong")
  ELSE web[address]

Start(address) == [at |-> address, asked |-> <<>>, result |-> "open"]

(* Variant with a fault: the last redirect counts as a page.               *)
HopThenGiveUp(web, state) ==
  LET answer == Asked(web, state.at)
  IN IF state.result # "open" THEN state
     ELSE [asked |-> Append(state.asked, state.at),
           at |-> IF answer.is = "redirect" THEN answer.to ELSE state.at,
           result |-> IF answer.is = "redirect" /\ Len(state.asked) < MaxHops - 1 THEN "open"
                      ELSE answer.is]

(* One turn of the loop.                                                   *)
Hop(web, state) ==
  LET answer == Asked(web, state.at)
  IN IF state.result # "open" THEN state
     ELSE [asked |-> Append(state.asked, state.at),
           at |-> IF answer.is = "redirect" THEN answer.to ELSE state.at,
           result |-> IF answer.is = "redirect" THEN "open" ELSE answer.is]

FetchPublicPage(web, address) ==
  LET turn[hop \in 0..(MaxHops + 1)] == IF hop = 0 THEN Start(address) ELSE Hop(web, turn[hop - 1])
      last == turn[MaxHops + 1]
  IN IF last.result = "open" THEN [last EXCEPT !.result = "unending"] ELSE last

-----------------------------------------------------------------------------
(* The payloads of the search service: "done" and empty ones are passed    *)
(* over, the first with a text is returned, an error or what is no JSON is *)
(* thrown.                                                                 *)
Payloads == {"empty", "done", "textless", "text", "error", "torn"}
Skipped == {"empty", "done", "textless"}
Read(result, payload) ==
  IF result # "nothing" \/ payload \in Skipped THEN result ELSE payload
ParseSearchResponse(payloads) ==
  LET after[n \in 0..Len(payloads)] ==
        IF n = 0 THEN "nothing" ELSE Read(after[n - 1], payloads[n])
  IN after[Len(payloads)]

-----------------------------------------------------------------------------
(* The addresses that redirects lead to, from the first on.                *)
Way(web, address, n) ==
  LET way[k \in 0..MaxHops] == IF k = 0 THEN address
                               ELSE IF web[way[k - 1]].is = "redirect" THEN web[way[k - 1]].to
                               ELSE way[k - 1]
  IN way[n]

(* A page is returned if and only if at most MaxHops redirects lead to     *)
(* one; it is the page of the address that is returned with it; no address *)
(* is asked for that the redirects do not lead to, and none after an       *)
(* answer that is no redirect; a failure on the way is never a page.       *)
PageIsReached(web, address) ==
  LET fetched == FetchPublicPage(web, address)
      end == Way(web, address, MaxHops)
      isPage == web[end].is = "page" /\ web[end].chunks <= MaxPage
  IN /\ fetched.result = "page" <=> isPage
     /\ fetched.result = "page" => fetched.at = end
     /\ Len(fetched.asked) <= MaxHops + 1
     /\ \A n \in DOMAIN fetched.asked : fetched.asked[n] = Way(web, address, n - 1)
     /\ \A n \in 1..(Len(fetched.asked) - 1) : web[fetched.asked[n]].is = "redirect"

(* A search that has a text before any error finds it, and finds nothing   *)
(* only if every payload is passed over (the loop of parseSearchResponse). *)
SearchIsFound(payloads) ==
  /\ ParseSearchResponse(payloads) = "text" <=>
       \E n \in DOMAIN payloads :
         /\ payloads[n] = "text"
         /\ \A k \in 1..(n - 1) : payloads[k] \in Skipped
  /\ ParseSearchResponse(payloads) = "nothing" <=>
       \A n \in DOMAIN payloads : payloads[n] \in Skipped
=============================================================================
