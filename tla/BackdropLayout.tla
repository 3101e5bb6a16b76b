---------------------------- MODULE BackdropLayout ----------------------------
(***************************************************************************)
(* Where FFmpeg draws the videos of a separable backdrop.  CSS is the      *)
(* browser's: the page measures each video element in a layout-only pass   *)
(* (packages/authoring/src/presentation.ts), and the renderer derives the  *)
(* source and destination of the native video from that evidence, or       *)
(* refuses the unit (crates/render/src/visual.rs).                         *)
(*                                                                         *)
(* A box is what the page's style gives the element of a video: rectangle, *)
(* object-fit, object-position in parts of PositionScale, and whether it   *)
(* is plain: without border, filter, transform and so on.                  *)
(* Evidence comes in node order and by node, so that it is looked up here. *)
(***************************************************************************)
EXTENDS BrowserPlan

CONSTANTS
  Canvas,           \* the raster of the render profile, and the viewport
  Rasters,          \* the raster of each video asset
  Box(_),           \* the box of a video
  PositionScale,    \* BROWSER_OBJECT_POSITION_SCALE
  MaxMediaLayouts   \* MAX_BROWSER_MEDIA_LAYOUTS

\* A video has pixels (VideoDimensions::new).
ASSUME LayoutAssumption ==
  /\ PositionScale \in Nat \ {0} /\ MaxMediaLayouts \in Nat \ {0}
  /\ \A asset \in DOMAIN Rasters : {Rasters[asset].width, Rasters[asset].height} \subseteq Nat \ {0}

PixelRegion(x, y, extent) == [x |-> x, y |-> y, width |-> extent.width, height |-> extent.height]
Element(box) == PixelRegion(box.x, box.y, box)
Raster(raster) == PixelRegion(0, 0, raster)

-----------------------------------------------------------------------------
(* The page.                                                                *)

\* measureVideoLayout: what it refuses to measure.
MeasureFaults(box) ==
  Fails(\/ ~box.plain
        \/ {box.x, box.y} \ Nat # {} \/ {box.width, box.height} \ (Nat \ {0}) # {}
        \/ box.fit \notin {"fill", "contain", "cover"}
        \/ {box.px, box.py} \ (0 .. PositionScale) # {}
        \/ box.x + box.width > Canvas.width
        \/ box.y + box.height > Canvas.height, "MediaLayout")

\* collectMediaLayout: shot by shot, each shown alone with its scene.
CollectFaults(videos) == UNION {MeasureFaults(Box(v)) : v \in videos}

-----------------------------------------------------------------------------
(* The renderer.  A geometry is exact if no division of it left a rest.     *)

\* The largest extent with the ratio of a within b: what contain_geometry
\* makes of source and element, and cover_geometry of element and source.
Inscribed(a, b) ==
  LET wider == a.width * b.height > b.width * a.height
      high == a.height * b.width
      wide == a.width * b.height
  IN IF wider THEN [width |-> b.width, height |-> high \div a.width, exact |-> high % a.width = 0]
              ELSE [width |-> wide \div a.height, height |-> b.height, exact |-> wide % a.height = 0]

\* positioned_offset
Offset(free, position) ==
  [by |-> (free * position) \div PositionScale, exact |-> (free * position) % PositionScale = 0]

(* Mutant: object-position is taken of the region, not of the room left.    *)
PositionedByTheRegion(extent, region, box) ==
  LET x == Offset(region.width, box.px)
      y == Offset(region.height, box.py)
  IN [region |-> PixelRegion(region.x + x.by, region.y + y.by, extent),
      exact |-> extent.exact /\ x.exact /\ y.exact]

\* An extent at the box's object-position within a region.
Positioned(extent, region, box) ==
  LET x == Offset(region.width - extent.width, box.px)
      y == Offset(region.height - extent.height, box.py)
  IN [region |-> PixelRegion(region.x + x.by, region.y + y.by, extent),
      exact |-> extent.exact /\ x.exact /\ y.exact]

\* resolve_backdrop_placement
Geometry(raster, box) ==
  LET source == Raster(raster)
      element == Element(box)
      contained == Positioned(Inscribed(source, element), element, box)
      cropped == Positioned(Inscribed(element, source), source, box)
  IN CASE box.fit = "fill" -> [source |-> source, destination |-> element, exact |-> TRUE]
       [] box.fit = "contain" ->
            [source |-> source, destination |-> contained.region, exact |-> contained.exact]
       [] box.fit = "cover" ->
            [source |-> cropped.region, destination |-> element, exact |-> cropped.exact]

Placement(video) == Geometry(Rasters[video.asset], Box(video))

\* regions_overlap
RegionsOverlap(r, s) ==
  /\ r.x < s.x + s.width /\ s.x < r.x + r.width
  /\ r.y < s.y + s.height /\ s.y < r.y + r.height

(* Mutant: videos that start together are compared.                         *)
OverlapAtTheirStart(v, w) ==
  v.at.start = w.at.start /\ RegionsOverlap(Placement(v).destination, Placement(w).destination)

\* concurrent_regions_overlap
DrawnOver(v, w) ==
  Overlap(v.at, w.at) /\ RegionsOverlap(Placement(v).destination, Placement(w).destination)

\* preflight_backdrop: the page measures, then the renderer resolves.
LayoutFaults(videos) ==
  IF CollectFaults(videos) # {} THEN CollectFaults(videos)
  ELSE IF \E v \in videos : ~Placement(v).exact THEN {"FractionalBackdropLayout"}
  ELSE Fails(\E v, w \in videos : v # w /\ DrawnOver(v, w), "BackdropLayoutOverlap")
=============================================================================
