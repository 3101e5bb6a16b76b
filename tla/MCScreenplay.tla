----------------------------- MODULE MCScreenplay -----------------------------
(***************************************************************************)
(* Three beginnings: a film with two declared fields and a cue, to whose   *)
(* open element an author adds up to six more; a whole film, after which   *)
(* an author adds up to two elements that do not belong there; and a film  *)
(* that stands behind another, which is in presentation markup.            *)
(***************************************************************************)
EXTENDS RegionPage

Tag(kind) == [kind |-> kind, id |-> "none", cue |-> "none", field |-> "none",
              sink |-> "none", valid |-> TRUE]
Named(tag, name) == [tag EXCEPT !.id = name]
BoundTo(tag, name, sink) == [tag EXCEPT !.field = name, !.sink = sink]
Inside(tag, path) == tag @@ [within |-> path]

FilmTag == Tag("om-film")
SceneTag == Tag("om-scene")
ShotA == BoundTo(Named(Tag("om-shot"), "a"), "featured", "show")
ShotTag == Tag("om-shot")
Cut == BoundTo(Tag("om-transition"), "featured", "show")
VideoTag == Tag("video")
Headline == BoundTo(Tag("om-title"), "headline", "text")
CuedAction == [Tag("om-cta") EXCEPT !.cue = "beat"]
Spoken == BoundTo(Tag("om-vo"), "headline", "text")
Badge == BoundTo(Tag("div"), "featured", "show")
Track == Named(Tag("om-captions"), "a")
Untracked == [Tag("om-captions") EXCEPT !.valid = FALSE]
Letters == Tag("text")
Image == Tag("img")
Strange == Tag("om-unknown")

Tags == {FilmTag, SceneTag, ShotA, ShotTag, Cut, VideoTag, Headline, CuedAction, Spoken, Badge,
         Track, Untracked, Letters, Image, Strange}

MCSupply == [t \in Tags |-> IF t = SceneTag THEN 2 ELSE 1]

MCOffered ==
  [k \in {t.kind : t \in Tags} \cup {"document", "body", "om-fields", "om-field", "om-cues", "om-cue"} |->
     CASE k = "document" -> {FilmTag, ShotTag, Strange}
       [] k = "om-film" -> {SceneTag, Track, Untracked}
       [] k = "om-scene" -> {ShotA, ShotTag, Cut, Badge}
       [] k = "om-shot" -> {VideoTag, Headline, CuedAction, Spoken, Badge}
       [] k = "om-title" -> {Letters, Image}
       [] k = "om-captions" -> {Badge, Letters}
       [] k = "div" -> {ShotA, Headline}
       [] OTHER -> {}]

Declarations(root) ==
  << Inside(Tag("body"), <<>>),
     Inside(root, <<1>>),
     Inside(Tag("om-fields"), <<1, 2>>),
     Inside(BoundTo(Named(Tag("om-field"), "headline"), "none", "text"), <<1, 2, 3>>),
     Inside(BoundTo(Named(Tag("om-field"), "featured"), "none", "show"), <<1, 2, 3>>),
     Inside(Tag("om-cues"), <<1, 2>>),
     Inside(Named(Tag("om-cue"), "beat"), <<1, 2, 6>>) >>

Whole ==
  Declarations(Named(FilmTag, "b"))
  \o << Inside(Named(SceneTag, "c"), <<1, 2>>),
        Inside(Named(ShotTag, "d"), <<1, 2, 8>>),
        Inside(Named(Headline, "e"), <<1, 2, 8, 9>>) >>

\* A film in presentation markup, before the one of the document.
Nested ==
  << Inside(Tag("body"), <<>>),
     Inside(Tag("div"), <<1>>),
     Inside(Named(FilmTag, "b"), <<1, 2>>),
     Inside(Named(SceneTag, "c"), <<1, 2, 3>>),
     Inside(Named(ShotTag, "d"), <<1, 2, 3, 4>>),
     Inside(FilmTag, <<1>>),
     Inside(Named(SceneTag, "e"), <<1, 6>>),
     Inside(Named(ShotTag, "f"), <<1, 6, 7>>) >>

MCPreambles ==
  {[nodes |-> Declarations(FilmTag), open |-> <<1, 2>>],
   [nodes |-> Whole, open |-> <<>>],
   [nodes |-> Nested, open |-> <<1, 6, 7>>]}
=============================================================================
