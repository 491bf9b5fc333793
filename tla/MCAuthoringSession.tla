--------------------------- MODULE MCAuthoringSession ---------------------------
(* Documents: every route with its answers, two layers in any order, and what *)
(* admission refuses.  Clients send a minimal pack, a publication-ready one   *)
(* that was not cleared and a malformed one.                                  *)
EXTENDS AuthoringSession

Document(version, unknown, pack, route, answers, layers) ==
  [version |-> version, unknownKeys |-> unknown, pack |-> pack, route |-> route,
   answers |-> answers, layers |-> layers]
Plain(route, answers, layers) == Document("current", FALSE, "lab", route, answers, layers)

MCValues == {"text", "yes", "no", "not-sure", "malformed"}
MCKeys == {"title", "publication_cleared", "unheard-of"}
MCAnswers == UNION {[keys -> MCValues] : keys \in SUBSET MCKeys}
MCLayers == {<<>>, <<"unknown">>}
  \cup {<<a>> : a \in DOMAIN Capabilities}
  \cup {<<a, b>> : a \in DOMAIN Capabilities, b \in DOMAIN Capabilities}
MCDocuments ==
  {Plain(route, answers, layers) :
     route \in DOMAIN Routes \cup {"nowhere"}, answers \in MCAnswers, layers \in MCLayers}
  \cup {Document(version, unknown, pack, "minimal", <<>>, <<>>) :
          version \in {"current", "old"}, unknown \in BOOLEAN, pack \in {"lab", "malformed"}}

MCSayings == [{"title", "description", "publication_cleared"} ->
                {"blank", "text", "yes", "no", "not-sure"}]

MCDrafts == {Plain("minimal", <<>>, <<>>),
             Plain("publication-ready", [publication_cleared |-> "no"], <<>>),
             Plain("nowhere", <<>>, <<>>)}
================================================================================
