------------------------------ MODULE InitApp ------------------------------
(***************************************************************************)
(* scripts/init-app.mjs, run by an adopter of the template as often as     *)
(* they like and interrupted at any point, against the documents of the    *)
(* repository and the adopter's own edits between runs; the documentation  *)
(* check of scripts/docs-sanity.mjs is evaluated over the outcome.         *)
(*                                                                         *)
(* The text of a kept document is the set of its passages that mention a   *)
(* removed one.  A passage is what the script can tell apart: a table row  *)
(* or section it drops, an anchor of MENTION_PATCHES, a link into the      *)
(* archive, a link to another removed document that nothing matches.       *)
(***************************************************************************)
EXTENDS Integers, Sequences

CONSTANTS
  Kept,        \* documents that stay
  MaxRuns,     \* bound: runs of the script
  MaxEdits     \* bound: edits of the adopter between runs

VARIABLES
  env,         \* .env: "absent", "seeded" from the example or "own"
  title,       \* name of the root package and the README title
  shipped,     \* removed set that is still (or again) on disk: path -> owner
  changelog,   \* "template", "empty" or "own"
  text,        \* kept document -> its passages
  pc,          \* step of the running script, or "idle"
  todo,        \* documents the current pass has still to visit
  slimming,    \* the run removes the template's documents
  runs, edits, \* bounds
  atStart,     \* history: the repository when the run began
  last         \* history: "none" before a slim run has completed, then "slimmed",
               \* "edited" once the adopter has written something after it

repo == <<env, title, shipped, changelog, text>>
vars == <<env, title, shipped, changelog, text, pc, todo, slimming, runs, edits, atStart, last>>

\* SLIM_REMOVALS, in the order of the loop, and who the file there belongs to.
Removals == <<"status", "backlog", "archive", "guide", "funding">>
Removed == {"status", "backlog", "archive", "guide", "funding"}
Owner == {"none", "template", "adopter"}
\* /project-init, which a derived project runs, creates these two again.
Recreated == {"status", "backlog"}

Row(to)    == [kind |-> "row", to |-> to]
Anchor(to) == [kind |-> "anchor", to |-> to]
Link(to)   == [kind |-> "link", to |-> to]
\* A link at the public template repository: never dangling, never rewritten.
Away(to)   == [kind |-> "away", to |-> to]
Passage == {Row("guide"), Anchor("backlog"), Link("archive"), Link("backlog"),
            Away("archive"), Away("backlog")}

Init ==
  /\ env = "absent" /\ title = "template"
  /\ shipped = [r \in Removed |-> "template"]
  /\ changelog = "template"
  /\ text \in [Kept -> {{Row("guide"), Link("archive")}, {Anchor("backlog"), Link("backlog")}}]
  /\ pc = "idle" /\ todo = {} /\ slimming = FALSE
  /\ runs = 0 /\ edits = 0
  /\ atStart = repo /\ last = "none"

run == <<runs, edits, atStart, last>>

Start(slim) ==
  /\ pc = "idle" /\ runs < MaxRuns
  /\ runs' = runs + 1
  /\ pc' = "seed" /\ slimming' = slim
  /\ atStart' = repo
  /\ UNCHANGED <<repo, todo, edits, last>>

\* Variation: an existing file does not stop the copy.
SeedsAlways == "seeded"
\* seedEnv
Seeds == IF env = "absent" THEN "seeded" ELSE env

SeedEnv ==
  /\ pc = "seed" /\ env' = Seeds
  /\ pc' = "rename"
  /\ UNCHANGED <<title, shipped, changelog, text, todo, slimming, run>>

\* rename, when --name was given; a run that does not slim ends here.
Rename ==
  /\ pc = "rename" /\ title' \in {title, "mine"}
  /\ pc' = IF slimming THEN "remove" ELSE "idle"
  /\ UNCHANGED <<env, shipped, changelog, text, todo, slimming, run>>

\* One turn of the removals loop.
Remove(i) ==
  /\ pc = "remove" /\ shipped[Removals[i]] # "none"
  /\ \A j \in 1 .. i - 1 : shipped[Removals[j]] = "none"
  /\ shipped' = [shipped EXCEPT ![Removals[i]] = "none"]
  /\ UNCHANGED <<env, title, changelog, text, pc, todo, slimming, run>>

\* slim: the passes visit every document, whatever was removed.
Visits == Kept

\* resetChangelog
ResetChangelog ==
  /\ pc = "remove" /\ \A r \in Removed : shipped[r] = "none"
  /\ changelog' = "empty"
  /\ pc' = "rows" /\ todo' = Visits
  /\ UNCHANGED <<env, title, shipped, text, slimming, run>>

\* patchReadme, patchDocsReadme and patchAgentsMd drop rows and sections.
DropRows(passages) == {p \in passages : p.kind # "row"}

\* patchLeftoverMentions: the text of an anchor is replaced.
PatchMentions(passages) ==
  {IF p.kind = "anchor" THEN Away(p.to) ELSE p : p \in passages}

\* retargetArchiveLinks: relative links into the archive only.
Retarget(passages) ==
  {IF p = Link("archive") THEN Away("archive") ELSE p : p \in passages}

Passes == <<"rows", "mentions", "links">>
Pass(passages) ==
  CASE pc = "rows" -> DropRows(passages)
    [] pc = "mentions" -> PatchMentions(passages)
    [] pc = "links" -> Retarget(passages)

PatchDoc(d) ==
  /\ pc \in {"rows", "mentions", "links"} /\ d \in todo
  /\ text' = [text EXCEPT ![d] = Pass(@)]
  /\ todo' = todo \ {d}
  /\ UNCHANGED <<env, title, shipped, changelog, pc, slimming, run>>

\* The next pass; after the last one reportDanglingReferences only lists, and
\* the run is over.
NextPass ==
  /\ todo = {}
  /\ \/ \E i \in 1 .. 2 : pc = Passes[i] /\ pc' = Passes[i + 1] /\ todo' = Visits
                          /\ UNCHANGED last
     \/ pc = "links" /\ pc' = "idle" /\ last' = "slimmed" /\ UNCHANGED todo
  /\ UNCHANGED <<repo, slimming, runs, edits, atStart>>

\* The process is stopped between two steps.
Interrupted ==
  /\ pc # "idle" /\ pc' = "idle" /\ todo' = {}
  /\ UNCHANGED <<repo, slimming, run>>

\* Between runs the adopter fills in .env, keeps a changelog, has a removed
\* document of their own, or reworks a passage around an anchor.
Adopt ==
  /\ pc = "idle" /\ edits < MaxEdits
  /\ edits' = edits + 1
  /\ last' = IF last = "none" THEN "none" ELSE "edited"
  /\ \/ env' = "own" /\ UNCHANGED <<title, shipped, changelog, text>>
     \/ changelog' = "own" /\ UNCHANGED <<env, title, shipped, text>>
     \/ \E r \in Recreated : /\ shipped' = [shipped EXCEPT ![r] = "adopter"]
                             /\ UNCHANGED <<env, title, changelog, text>>
     \/ \E d \in Kept : /\ Anchor("backlog") \in text[d]
                        /\ text' = [text EXCEPT ![d] =
                                      (@ \ {Anchor("backlog")}) \cup {Link("backlog")}]
                        /\ UNCHANGED <<env, title, shipped, changelog>>
  /\ UNCHANGED <<pc, todo, slimming, runs, atStart>>

Next ==
  \/ \E slim \in BOOLEAN : Start(slim)
  \/ SeedEnv \/ Rename \/ ResetChangelog \/ NextPass \/ Interrupted \/ Adopt
  \/ \E i \in 1 .. Len(Removals) : Remove(i)
  \/ \E d \in Kept : PatchDoc(d)

Spec == Init /\ [][Next]_vars

\* docs-sanity: relative links of the kept documents that resolve to nothing,
Broken == {x \in Kept \X Passage :
             /\ x[2] \in text[x[1]] /\ x[2].kind \in {"row", "anchor", "link"}
             /\ shipped[x[2].to] = "none"}
\* and the anchors of MENTION_PATCHES that no longer match their document.
LostAnchors == {d \in Kept : Anchor("backlog") \notin text[d]}

TypeOK ==
  /\ env \in {"absent", "seeded", "own"} /\ title \in {"template", "mine"}
  /\ shipped \in [Removed -> Owner] /\ changelog \in {"template", "empty", "own"}
  /\ text \in [Kept -> SUBSET Passage]
  /\ pc \in {"idle", "seed", "rename", "remove", "rows", "mentions", "links"} /\ todo \subseteq Kept /\ slimming \in BOOLEAN
  /\ runs \in 0 .. MaxRuns /\ edits \in 0 .. MaxEdits 
  /\ last \in {"none", "slimmed", "edited"}

\* "The env-seed and rename steps are purely additive": no run, however often
\* repeated or interrupted, touches an .env the adopter has made theirs.
OwnEnvSurvivesStep ==
  env = "own" => env' = "own"
OwnEnvSurvives == [][OwnEnvSurvivesStep]_vars

\* A run that was stopped half way is made good by the next: once a slim run
\* completes, no link of a kept document into the archive dangles, whatever
\* earlier runs left undone.
SlimIsMadeGood ==
  pc = "idle" /\ last = "slimmed" =>
    \A x \in Broken : x[2] = Link("backlog")

\* "Idempotent": a slim run over what a completed slim run left, with no edit
\* in between, changes nothing but the title it is asked for.
SecondRunIsQuietStep ==
  last = "slimmed" /\ pc # "idle" =>
    shipped' = shipped /\ changelog' = changelog /\ text' = text
SecondRunIsQuiet == [][SecondRunIsQuietStep]_vars

\* "Idempotent - safe to re-run anytime": once a slim run has completed, another
\* one does not take away what the adopter has written since.
OwnTextSurvives ==
  [][last = "edited" =>
       /\ changelog = "own" => changelog' = "own"
       /\ \A r \in Recreated : shipped[r] = "adopter" => shipped'[r] = "adopter"]_vars

\* The lane of the derived project that checks its documents passes after a
\* completed slim run.
SlimmedDocsPass == pc = "idle" /\ last = "slimmed" => Broken = {} /\ LostAnchors = {}
-----------------------------------------------------------------------------
(* What holds of any number of documents, runs and edits.                    *)

\* What the theorems ask of the constants.
Bounds == MaxRuns \in Nat /\ MaxEdits \in Nat

\* What the three passes leave of a document.
NoRow(passages) == \A p \in passages : p.kind # "row"
NoAnchor(passages) == \A p \in passages : p.kind # "anchor"
NoArchiveLink(passages) == Link("archive") \notin passages

NothingLeft == (\A r \in Removed : shipped[r] = "none") /\ changelog = "empty"

\* The passes begin when everything is removed, and what one has visited it has
\* dealt with for those after it.
PassesAreDone ==
  /\ pc \in {"rows", "mentions", "links"} => NothingLeft
  /\ pc = "rows" => \A d \in Kept \ todo : NoRow(text[d])
  /\ pc = "mentions" => \A d \in Kept : NoRow(text[d]) /\ (d \notin todo => NoAnchor(text[d]))
  /\ pc = "links" => \A d \in Kept : /\ NoRow(text[d]) /\ NoAnchor(text[d])
                                     /\ d \notin todo => NoArchiveLink(text[d])

\* Until the next edit a completed slim run leaves nothing for another to do.
SlimmedIsClean ==
  last = "slimmed" =>
    NothingLeft /\ \A d \in Kept : NoRow(text[d]) /\ NoAnchor(text[d]) /\ NoArchiveLink(text[d])

SlimInv == TypeOK /\ PassesAreDone /\ SlimmedIsClean
=============================================================================
