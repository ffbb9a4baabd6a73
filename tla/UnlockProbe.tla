------------------------------ MODULE UnlockProbe ------------------------------
(***************************************************************************)
(* internal/unlock/probe.go: which services a command line names, and what *)
(* the answers of a service say about the address they were fetched from.  *)
(*                                                                         *)
(* An answer is a function from the pages a probe fetches to the markers   *)
(* the code looks for in them; "lost" marks a page that could not be       *)
(* fetched.  Names are in lower case and trimmed, as the code makes them.  *)
(* Abstracted: regions, details and the supplement, which no caller judges *)
(* by, and the HTTP status, which the code does not look at.               *)
(***************************************************************************)

Services == {"gemini", "chatgpt", "claude", "netflix", "youtube"}

NormalizeService(name) ==
  CASE name \in {"chatgpt", "openai"}                -> "chatgpt"
    [] name \in {"gemini", "google-gemini"}          -> "gemini"
    [] name \in {"claude", "anthropic"}              -> "claude"
    [] name \in {"youtube", "youtube-premium", "yt"} -> "youtube"
    [] OTHER                                         -> name

\* The services a list of names asks for, each once; unsupported ones too.
NormalizeServices(names) == {NormalizeService(n) : n \in names \ {"", "none"}}
Supported(names) == NormalizeServices(names) \subseteq Services

-------------------------------------------------------------------------------
(* The evaluations. *)

Gemini(home) == IF "enabled" \in home THEN "available" ELSE "unavailable"

ChatGPT(cookies, ios) ==
  CASE "unsupported_country" \notin cookies /\ "vpn" \notin ios -> "available"
    [] "unsupported_country" \in cookies    /\ "vpn" \in ios    -> "unavailable"
    [] "unsupported_country" \notin cookies /\ "vpn" \in ios    -> "web_only"
    [] "unsupported_country" \in cookies    /\ "vpn" \notin ios -> "app_only"

\* By the URL the redirects end at, whatever the page there says.
Claude(final) ==
  CASE "claude.ai" \in final               -> "available"
    [] "unavailable-in-region" \in final   -> "unavailable"
    [] OTHER                               -> "unknown"

Netflix(titleA, titleB) ==
  IF "oh no" \in titleA /\ "oh no" \in titleB THEN "web_only" ELSE "available"

\* Mutant: what the page advertises is looked for first.
YouTubeByAd(home) ==
  IF "ad-free" \in home THEN "available"
  ELSE IF home \cap {"google.cn", "not available"} # {} THEN "unavailable"
  ELSE "unknown"

YouTube(home) ==
  IF home \cap {"google.cn", "not available"} # {} THEN "unavailable"
  ELSE IF "ad-free" \in home THEN "available"
  ELSE "unknown"

Evaluate(service, answer) ==
  CASE service = "gemini"  -> Gemini(answer.home)
    [] service = "chatgpt" -> ChatGPT(answer.cookies, answer.ios)
    [] service = "claude"  -> Claude(answer.final)
    [] service = "netflix" -> Netflix(answer.titleA, answer.titleB)
    [] service = "youtube" -> YouTube(answer.home)

Lost(answer) == \E page \in DOMAIN answer : "lost" \in answer[page]

Probe(service, answer) ==
  IF Lost(answer) THEN "network_error" ELSE Evaluate(service, answer)

OK(status) == status = "available"

-------------------------------------------------------------------------------
(* The services: what they answer where they are open and where they are   *)
(* not.  A refusal may advertise what it refuses.                          *)

Pages(service) ==
  CASE service \in {"gemini", "youtube"} -> {"home"}
    [] service = "chatgpt" -> {"cookies", "ios"}
    [] service = "claude"  -> {"final"}
    [] service = "netflix" -> {"titleA", "titleB"}

Answers(service, open) ==
  CASE service = "gemini" ->
         {[home |-> IF open THEN {"enabled"} ELSE {}]}
    [] service = "chatgpt" ->
         IF open THEN {[cookies |-> {}, ios |-> {}]}
         ELSE [cookies : {{}, {"unsupported_country"}}, ios : {{}, {"vpn"}}]
                \ {[cookies |-> {}, ios |-> {}]}
    [] service = "claude" ->
         {[final |-> IF open THEN {"claude.ai"} ELSE {"unavailable-in-region"}]}
    [] service = "netflix" ->
         IF open THEN [titleA : {{}, {"oh no"}}, titleB : {{}}]
         ELSE {[titleA |-> {"oh no"}, titleB |-> {"oh no"}]}
    [] service = "youtube" ->
         IF open THEN {[home |-> {"ad-free"}]}
         ELSE [home : {{"google.cn"}, {"not available"}, {"not available", "ad-free"}}]

\* What anyone may answer in the place of the service: a page without any of
\* the markers, an error or an empty body, with or without a redirect before.
ErrorPages(service) ==
  IF service = "claude" THEN [final : {{}, {"claude.ai"}}]
  ELSE {[page \in Pages(service) |-> {}]}

\* Nothing comes back.
Unreached(service) == [page \in Pages(service) |-> {"lost"}]

===============================================================================
