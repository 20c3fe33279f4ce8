------------------------------ MODULE RenderPage ------------------------------
(***************************************************************************)
(* The two pages that draw for the editor: mermaid-renderer.js and         *)
(* mathjax-renderer.js.  The host calls the one function of the page, one  *)
(* call at a time; the function waits for the drawing library and, for     *)
(* Mermaid, for an image to load.  Each wait is a race with a timer.  A    *)
(* timer that wins does not stop the library or the image: they go on      *)
(* beside the calls that follow.                                           *)
(*                                                                         *)
(* What the library draws is one of Drawings: the tree of its nodes, its   *)
(* size, its text and how long it is when serialized.  Lengths are         *)
(* integers, Unit of them to a pixel.                                      *)
(***************************************************************************)
EXTENDS Integers, FiniteSets, FiniteSetsExt, Sequences, SvgSanitizer

CONSTANTS
  PagesUsed,            \* the pages of this instance
  Drawings,             \* page -> what its library may draw
  FontSizes,            \* the font sizes the host asks formulas in
  Unit,                 \* lengths to a pixel
  MaximumDimension,     \* page -> longest side, in pixels
  MaximumArea,          \* page -> largest area, in pixels
  MaximumRasterPixels,  \* most pixels of a Mermaid picture
  MaximumSVGLength,     \* page -> longest serialized picture
  PNGs,                 \* what a canvas and the host may make of a picture
  MaximumPNGLength,     \* longest data URL the Mermaid page answers
  MaximumPNGBytes,      \* longest PNG the host takes
  MaximumCacheCost,     \* dearest picture the host takes
  BackingScale,         \* pixels of the screen to a pixel of a page
  MaxCalls,             \* bound: calls of the host
  NaN, None

ASSUME RenderPageAssumption ==
  /\ PagesUsed \subseteq Pages
  /\ Unit \in Nat \ {0} /\ MaxCalls \in Nat
  /\ PNGs \subseteq [bytes : Nat, prefixed : BOOLEAN, decodes : BOOLEAN,
                     opens : BOOLEAN]
  /\ MaximumRasterPixels \in Nat
  /\ \A p \in Pages : MaximumDimension[p] \in Nat \ {0}
  /\ MaximumDimension["mermaid"] <= MaximumRasterPixels

\* What a library draws is a document.  Where a text is and how large a
\* drawing, in lengths; a side that is not a number is NaN.
ASSUME DrawingAssumption ==
  /\ \A p \in Pages : \A d \in Drawings[p] : IsDrawing(d)
  /\ \A d \in Drawings["mermaid"] :
      /\ d.text \in [y : Int, reset : Int, measured : Nat]
      /\ {d.viewBox.width, d.viewBox.height, d.bounds.width, d.bounds.height}
           \subseteq Int \cup {NaN}

VARIABLES
  page,      \* the page this behaviour is about
  loaded,    \* the script of the library has been loaded
  startup,   \* MathJax.startup.promise: "pending", "ready" or "failed"
  call,      \* the call under way
  answer,    \* what the last call answered
  nodes,     \* what the document holds below and beside #render-target
  timers,    \* the timers that are armed
  library,   \* the calls the library still works for, in order
  images     \* the calls whose object URL exists

vars == <<page, loaded, startup, call, answer, nodes, timers, library, images>>

Phases == {"idle", "startup", "library", "raster"}

Idle == [number |-> 0, phase |-> "idle", fontSize |-> 0, output |-> None]

-----------------------------------------------------------------------------
(* Sizes.                                                                  *)

FinitePositive(v) == v # NaN /\ v > 0

\* viewBox if it has a size, the box of the laid out element otherwise.
Dimensions(drawing) ==
  IF FinitePositive(drawing.viewBox.width)
       /\ FinitePositive(drawing.viewBox.height)
  THEN drawing.viewBox
  ELSE drawing.bounds

\* A length of CSS in the units the pages know; an absent one is no number.
ParseLength(length, fontSize) ==
  CASE length = None -> NaN
    [] length # None /\ length.unit = "em" -> length.amount * fontSize
    [] length # None /\ length.unit = "ex" -> (length.amount * fontSize) \div 2
    [] length # None /\ length.unit = "pt" -> (length.amount * 4) \div 3
    [] OTHER -> length.amount

FormulaSize(drawing, fontSize) ==
  LET Side(side) ==
        IF drawing.bounds[side] # 0
        THEN drawing.bounds[side]
        ELSE ParseLength(drawing.length[side], fontSize)
  IN [width |-> Side("width"), height |-> Side("height")]

\* How far the formula reaches below the line of text it stands in.
Baseline(drawing, fontSize) ==
  LET align == ParseLength(drawing.align, fontSize)
  IN IF align = NaN THEN 0 ELSE Max({0, -align})

SizeIsAccepted(p, size) ==
  /\ FinitePositive(size.width) /\ FinitePositive(size.height)
  /\ size.width <= MaximumDimension[p] * Unit
  /\ size.height <= MaximumDimension[p] * Unit
  /\ size.width * size.height <= MaximumArea[p] * Unit * Unit

SquareRoot(n) == CHOOSE r \in 0..n : r * r <= n /\ n < (r + 1) * (r + 1)

\* Mutant: only the longest side bounds the scale.
ScaledSideByDimension(side, other) ==
  Min({ (2 * side) \div Unit,
        MaximumDimension["mermaid"],
        (MaximumDimension["mermaid"] * side) \div other })

\* floor(side * scale) for the least of the four scales: no more than twice
\* the size, no side over the longest, no more pixels than allowed.
ScaledSide(side, other) ==
  Min({ (2 * side) \div Unit,
        MaximumDimension["mermaid"],
        (MaximumDimension["mermaid"] * side) \div other,
        SquareRoot((MaximumRasterPixels * side) \div other) })

RasterDimensions(size) ==
  [width |-> Max({1, ScaledSide(size.width, size.height)}),
   height |-> Max({1, ScaledSide(size.height, size.width)})]

-----------------------------------------------------------------------------
(* Text.  y is where the box of a text begins as Mermaid drew it, reset    *)
(* where it begins once its baseline is the alphabetic one; measured says  *)
(* how often getBBox answers before it throws.                             *)

BaselineThreshold == 2

\* Mutant: the offset is taken the wrong way round.
BaselineMovedBack(text) ==
  IF text.measured = 0 THEN text.y
  ELSE IF text.measured = 1 THEN text.reset
  ELSE text.reset + (text.reset - text.y)

\* Where the text is shown after normalizeTextBaselines.
NormalizedBaseline(text) ==
  LET offset == text.y - text.reset
  IN CASE text.measured = 0 -> text.y
       [] text.measured = 1 -> text.reset
       [] OTHER -> IF offset > -BaselineThreshold /\ offset < BaselineThreshold
                   THEN text.reset
                   ELSE text.reset + offset

-----------------------------------------------------------------------------
(* Answers, and what the host makes of them.                               *)

Failed(error) == [kind |-> "error", error |-> error]

PermanentErrors(p) ==
  {"invalid-input", "invalid-dimensions", "missing-svg", "output-too-large"}
    \cup (IF p = "mermaid" THEN {"invalid-diagram"} ELSE {"unsupported-latex"})

\* The patterns of isSafeSVG, on an attribute: it does not know in which
\* attribute an address of CSS stands, nor where the name of one begins.
ReadsActive(attribute) ==
  \/ attribute.name = "event"
  \/ attribute.name \in {"href", "suffixedHref"} /\ attribute.value # "anchor"
  \/ attribute.value \in {"import", "remoteCSS", "fileCSS"}

\* isSafeSVG reads the whole text of the picture: the svg element, what is
\* below it, and what labels and other values say.
IsSafeSVG(output) ==
  /\ ~output.drawing.textReadsActive
  /\ \A i \in Shown(output.tree) :
       output.drawing.kind[i] \notin {"link", "forbidden", "importing", "filing"}
  /\ \A i \in Shown(output.tree) \cup {0} :
       \A a \in output.tree.attributes[i] : ~ReadsActive(a)

\* decodePNGDataURL, and NSImage(data:).
OpensAsImage(png) == png.prefixed /\ png.decodes /\ png.opens

MermaidOutputIsValid(output) ==
  /\ output.drawing.bytes <= MaximumSVGLength["mermaid"]
  /\ IsSafeSVG(output)
  /\ OpensAsImage(output.png) /\ output.png.bytes <= MaximumPNGBytes
  /\ SizeIsAccepted("mermaid", output.size)
  /\ output.pixels.width <= MaximumDimension["mermaid"]
  /\ output.pixels.height <= MaximumDimension["mermaid"]
  /\ output.pixels.width * output.pixels.height <= MaximumRasterPixels

MermaidCost(output) ==
  4 * output.pixels.width * output.pixels.height
    + output.drawing.bytes + output.png.bytes

MathJaxOutputIsValid(output) ==
  /\ output.drawing.bytes <= MaximumSVGLength["mathjax"]
  /\ FinitePositive(output.size.width) /\ FinitePositive(output.size.height)

\* The pixels a length takes on the screen, a part of one for a whole.
PixelsOnScreen(length) == (length * BackingScale + Unit - 1) \div Unit

MathJaxCost(output) ==
  4 * PixelsOnScreen(output.size.width) * PixelsOnScreen(output.size.height)
    + output.drawing.bytes

\* decode and renderSerially of the host: a picture that is too dear is not
\* supported, whether or not MathJax has drawn one NSImage opens.
HostOutcome(p, a) ==
  CASE a.kind = "error" ->
         IF a.error \in PermanentErrors(p) THEN "unsupported"
                                           ELSE "transientFailure"
    [] a.kind = "svg" /\ p = "mermaid" ->
         IF ~MermaidOutputIsValid(a.output) THEN "transientFailure"
         ELSE IF MermaidCost(a.output) <= MaximumCacheCost
              THEN "rendered" ELSE "unsupported"
    [] a.kind = "svg" /\ p = "mathjax" ->
         IF ~MathJaxOutputIsValid(a.output) THEN "transientFailure"
         ELSE IF ~(MathJaxCost(a.output) <= MaximumCacheCost) THEN "unsupported"
         ELSE IF a.output.drawing.opens THEN "rendered" ELSE "transientFailure"

-----------------------------------------------------------------------------
Init ==
  /\ page \in PagesUsed
  /\ loaded \in BOOLEAN
  /\ startup = "pending"
  /\ call = Idle
  /\ answer = None
  /\ nodes = {} /\ timers = {} /\ library = <<>> /\ images = {}

\* Mutant: the catch clause takes every error for a fault of the diagram.
CaughtAsInvalidDiagram(p, phase, error) ==
  IF p = "mermaid" THEN "invalid-diagram" ELSE error

\* The catch clause of a page.  The message of a timeout that is over names the
\* phase, and what the loader says of itself follows it.
CaughtError(p, phase, error) ==
  CASE p = "mathjax" /\ error = "timeout" ->
         IF phase = "startup" THEN "startup-timeout" ELSE "typeset-timeout"
    [] p = "mathjax" /\ error # "timeout" -> error
    [] p = "mermaid" /\ error = "timeout" -> "render-timeout"
    [] p = "mermaid" /\ error # "timeout" -> "invalid-diagram"

\* Mutant: there is no finally clause.
EverythingLeft(p, remaining) == remaining

\* What the finally clause leaves of the nodes.
LeftInDocument(p, remaining) == IF p = "mermaid" THEN {} ELSE remaining

Answered(a, remaining) ==
  /\ answer' = a
  /\ call' = [Idle EXCEPT !.number = call.number]
  /\ nodes' = LeftInDocument(page, remaining)

ThisTimer == [call |-> call.number, phase |-> call.phase]

\* Mutant: the library is awaited without a timer.
ArmedForTheImage(number, phase) ==
  IF phase = "library" THEN {} ELSE {[call |-> number, phase |-> phase]}

\* withTimeout: the wait of a phase arms its timer, its end disarms it.
Disarmed == timers \ {ThisTimer}
Armed(number, phase) == {[call |-> number, phase |-> phase]}

-----------------------------------------------------------------------------
(* Mermaid.                                                                *)

HostMayCall(p) == page = p /\ call.phase = "idle" /\ call.number < MaxCalls

\* renderMermaid up to its first await.  JavaScript trims characters the
\* host does not, so a source the host takes for text may be blank here.
RenderMermaid(blank) ==
  LET number == call.number + 1
  IN /\ HostMayCall("mermaid")
     /\ IF blank \/ ~loaded
        THEN /\ answer' = Failed(IF blank THEN "invalid-input"
                                          ELSE "renderer-unavailable")
             /\ call' = [Idle EXCEPT !.number = number]
             /\ nodes' = LeftInDocument("mermaid", nodes)
             /\ UNCHANGED <<timers, library>>
        ELSE /\ answer' = None
             /\ call' = [Idle EXCEPT !.number = number, !.phase = "library"]
             /\ nodes' = {}
             /\ library' = Append(library, number)
             /\ timers' = timers \cup Armed(number, "library")
     /\ UNCHANGED <<page, loaded, startup, images>>

\* The library puts its scratch element into the target it was given.
LibraryDraws ==
  /\ page = "mermaid" /\ library # <<>>
  /\ nodes' = nodes \cup {[node |-> "scratch", call |-> Head(library)]}
  /\ nodes' # nodes
  /\ UNCHANGED <<page, loaded, startup, call, answer, timers, library, images>>

\* The library ends the first render it has and removes its scratch.
LibraryEnds(number) ==
  /\ library # <<>> /\ Head(library) = number
  /\ library' = Tail(library)

\* What a render that ends leaves of the nodes.
WithoutScratch(number) == nodes \ {[node |-> "scratch", call |-> number]}

IsAwaited(number, phase) == call.phase = phase /\ call.number = number

\* A render that ends after its timer: nobody waits for it any more.
LateRender(number) ==
  /\ page = "mermaid"
  /\ LibraryEnds(number) /\ ~IsAwaited(number, "library")
  /\ nodes' = WithoutScratch(number)
  /\ UNCHANGED <<page, loaded, startup, call, answer, timers, images>>

\* The library refuses the source.
RenderRejected(number) ==
  /\ page = "mermaid"
  /\ LibraryEnds(number) /\ IsAwaited(number, "library")
  /\ timers' = Disarmed
  /\ Answered(Failed(CaughtError("mermaid", "library", "parse-error")),
              WithoutScratch(number))
  /\ UNCHANGED <<page, loaded, startup, images>>

\* svg.removeAttribute("style"), after sanitize: the one attribute the svg
\* element loses.
Unstyled(tree) ==
  [tree EXCEPT !.attributes[0] = {a \in @ : a.name # "style"}]

\* The picture as the page hands it on, with its text in place; the PNG comes
\* with the image.
MermaidOutput(drawing) ==
  [drawing |-> drawing,
   tree |-> Unstyled(Sanitized("mermaid", drawing)),
   size |-> Dimensions(drawing),
   textAt |-> NormalizedBaseline(drawing.text),
   pixels |-> RasterDimensions(Dimensions(drawing)),
   png |-> None]

MermaidError(drawing) ==
  CASE ~drawing.hasSVG -> "missing-svg"
    [] drawing.hasSVG /\ ~SizeIsAccepted("mermaid", Dimensions(drawing)) ->
         "invalid-dimensions"
    [] OTHER -> "output-too-large"

MermaidAccepts(drawing) ==
  /\ drawing.hasSVG
  /\ SizeIsAccepted("mermaid", Dimensions(drawing))
  /\ drawing.chars <= MaximumSVGLength["mermaid"]

\* The library has drawn: the page checks, cleans and serializes the
\* picture, and loads it into an image.
RenderResolved(number, drawing) ==
  /\ page = "mermaid"
  /\ LibraryEnds(number) /\ IsAwaited(number, "library")
  /\ IF MermaidAccepts(drawing)
     THEN /\ call' = [call EXCEPT !.phase = "raster",
                                  !.output = MermaidOutput(drawing)]
          /\ nodes' = {[node |-> "svg", call |-> number]}
          /\ images' = images \cup {number}
          /\ timers' = Disarmed \cup Armed(number, "raster")
          /\ UNCHANGED answer
     ELSE /\ timers' = Disarmed
          /\ Answered(Failed(MermaidError(drawing)),
                      {[node |-> "svg", call |-> number]})
          /\ UNCHANGED images
  /\ UNCHANGED <<page, loaded, startup>>

\* Four bytes of a PNG take three of base64.
DataURLLength(bytes) == (4 * bytes) \div 3

\* Mutant: only a call that still waits revokes its URL.
RevokedIfAwaited(number) ==
  IF IsAwaited(number, "raster") THEN images \ {number} ELSE images

\* The object URL of a picture is revoked when its image ends.
Revoked(number) == images \ {number}

\* image.onload draws the picture and encodes it.
ImageLoads(number, context, png) ==
  /\ number \in images
  /\ images' = Revoked(number)
  /\ IF IsAwaited(number, "raster")
     THEN /\ timers' = Disarmed
          /\ IF context /\ png.prefixed
                  /\ DataURLLength(png.bytes) <= MaximumPNGLength
             THEN Answered([kind |-> "svg",
                            output |-> [call.output EXCEPT !.png = png]], nodes)
             ELSE Answered(Failed(CaughtError("mermaid", "raster",
                                    IF context THEN "raster-output-too-large"
                                    ELSE "raster-context-unavailable")), nodes)
     ELSE UNCHANGED <<call, answer, nodes, timers>>
  /\ UNCHANGED <<page, loaded, startup, library>>

\* image.onerror, and an exception while the picture is drawn.
ImageFails(number) ==
  /\ number \in images
  /\ images' = Revoked(number)
  /\ IF IsAwaited(number, "raster")
     THEN /\ timers' = Disarmed
          /\ Answered(Failed(CaughtError("mermaid", "raster",
                                         "raster-image-failed")), nodes)
     ELSE UNCHANGED <<call, answer, nodes, timers>>
  /\ UNCHANGED <<page, loaded, startup, library>>

-----------------------------------------------------------------------------
(* MathJax.                                                                *)

\* renderLaTeX up to its first await.  Without the library, the object of the
\* configuration is still there, without a promise: the wait is over at once,
\* the target is emptied, and the conversion throws.
RenderLaTeX(fontSize, refused) ==
  LET number == call.number + 1
      idle == [Idle EXCEPT !.number = number]
  IN /\ HostMayCall("mathjax")
     /\ \/ /\ refused
           /\ answer' = Failed("invalid-input")
           /\ call' = idle
           /\ UNCHANGED <<nodes, timers>>
        \/ /\ ~refused /\ ~loaded
           /\ answer' = Failed(CaughtError("mathjax", "startup", "TypeError"))
           /\ call' = idle
           /\ nodes' = {}
           /\ UNCHANGED timers
        \/ /\ ~refused /\ loaded
           /\ answer' = None
           /\ call' = [idle EXCEPT !.phase = "startup", !.fontSize = fontSize]
           /\ timers' = timers \cup Armed(number, "startup")
           /\ UNCHANGED nodes
     /\ UNCHANGED <<page, loaded, startup, library, images>>

\* MathJax ends its startup.
StartupSettles(ready) ==
  /\ page = "mathjax" /\ loaded /\ startup = "pending"
  /\ startup' = IF ready THEN "ready" ELSE "failed"
  /\ UNCHANGED <<page, loaded, call, answer, nodes, timers, library, images>>

\* The wait for the startup ends well: the target takes the font size of
\* this call and is emptied, and the formula is converted.
StartupPasses ==
  /\ page = "mathjax" /\ call.phase = "startup" /\ startup = "ready"
  /\ call' = [call EXCEPT !.phase = "library"]
  /\ nodes' = {}
  /\ library' = Append(library, call.number)
  /\ timers' = Disarmed \cup Armed(call.number, "library")
  /\ UNCHANGED <<page, loaded, startup, answer, images>>

\* The promise of the startup is rejected.
StartupThrows ==
  /\ page = "mathjax" /\ call.phase = "startup" /\ startup = "failed"
  /\ timers' = Disarmed
  /\ Answered(Failed(CaughtError("mathjax", "startup", "startup failed")), nodes)
  /\ UNCHANGED <<page, loaded, startup, library, images>>

MathJaxAccepts(drawing, fontSize) ==
  /\ ~drawing.merror /\ drawing.hasSVG
  /\ SizeIsAccepted("mathjax", FormulaSize(drawing, fontSize))
  /\ drawing.chars <= MaximumSVGLength["mathjax"]

MathJaxError(drawing, fontSize) ==
  CASE drawing.merror -> "unsupported-latex"
    [] ~drawing.merror /\ ~drawing.hasSVG -> "missing-svg"
    [] ~drawing.merror /\ drawing.hasSVG
         /\ ~SizeIsAccepted("mathjax", FormulaSize(drawing, fontSize)) ->
         "invalid-dimensions"
    [] OTHER -> "output-too-large"

MathJaxOutput(drawing, fontSize) ==
  [drawing |-> drawing,
   tree |-> Sanitized("mathjax", drawing),
   size |-> FormulaSize(drawing, fontSize),
   baseline |-> Baseline(drawing, fontSize)]

\* A conversion ends; the container it made goes into the target if the
\* call still waits for it.  The configuration leaves out the packages that
\* would hide an error, so an unknown command comes back as an error node.
Typeset(number, drawing) ==
  /\ page = "mathjax" /\ Contains(library, number)
  /\ library' = SelectSeq(library, LAMBDA n : n # number)
  /\ IF IsAwaited(number, "library")
     THEN /\ timers' = Disarmed
          /\ Answered(
               IF MathJaxAccepts(drawing, call.fontSize)
               THEN [kind |-> "svg",
                     output |-> MathJaxOutput(drawing, call.fontSize)]
               ELSE Failed(MathJaxError(drawing, call.fontSize)),
               {[node |-> "svg", call |-> number]})
     ELSE UNCHANGED <<call, answer, nodes, timers>>
  /\ UNCHANGED <<page, loaded, startup, images>>

\* tex2svgPromise is rejected.
TypesetRejected(number) ==
  /\ page = "mathjax" /\ Contains(library, number)
  /\ library' = SelectSeq(library, LAMBDA n : n # number)
  /\ IF IsAwaited(number, "library")
     THEN /\ timers' = Disarmed
          /\ Answered(Failed(CaughtError("mathjax", "library", "typeset failed")),
                      nodes)
     ELSE UNCHANGED <<call, answer, nodes, timers>>
  /\ UNCHANGED <<page, loaded, startup, images>>

-----------------------------------------------------------------------------
\* A timer fires and its call gives up; what it waited for goes on.
TimerFires ==
  /\ call.phase # "idle" /\ ThisTimer \in timers
  /\ timers' = Disarmed
  /\ Answered(Failed(CaughtError(page, call.phase, "timeout")), nodes)
  /\ UNCHANGED <<page, loaded, startup, library, images>>

ImageEnds ==
  \E n \in images :
    \/ \E context \in BOOLEAN, png \in PNGs : ImageLoads(n, context, png)
    \/ ImageFails(n)

LibraryAnswers ==
  \E n \in 1..MaxCalls :
    \/ LateRender(n)
    \/ RenderRejected(n)
    \/ \E d \in Drawings["mermaid"] : RenderResolved(n, d)
    \/ \E d \in Drawings["mathjax"] : Typeset(n, d)
    \/ TypesetRejected(n)

HostCalls ==
  \/ \E blank \in BOOLEAN : RenderMermaid(blank)
  \/ \E f \in FontSizes, refused \in BOOLEAN : RenderLaTeX(f, refused)

Next ==
  \/ HostCalls
  \/ LibraryDraws
  \/ LibraryAnswers
  \/ ImageEnds
  \/ \E ready \in BOOLEAN : StartupSettles(ready)
  \/ StartupPasses
  \/ StartupThrows
  \/ TimerFires

Spec == Init /\ [][Next]_vars

\* A timer that is armed fires.  Nothing else has to happen: the library and
\* the images may hang.
Fairness == WF_vars(TimerFires)

FairSpec == Spec /\ Fairness

-----------------------------------------------------------------------------
(* Properties.                                                             *)

\* The pictures in hand: of the call under way, of the last answer.
Outputs ==
  ({call.output} \cup
     (IF answer # None /\ answer.kind = "svg" THEN {answer.output} ELSE {}))
  \ {None}

\* Whatever the library draws, below its svg element the picture the page
\* hands on keeps all of the harmless part in its order and nothing else: the
\* loop of sanitize changes the tree it walks and still reaches every element.
\* The svg element keeps what the library gave it, active or not, but for its
\* style on the Mermaid page.
PictureIsClean ==
  \A o \in Outputs :
    /\ IsCleanPictureOf(page, o.drawing, o.tree)
    /\ o.tree.attributes[0] =
         {a \in o.drawing.attributes[0] : page = "mermaid" => a.name # "style"}

\* A picture keeps its text where Mermaid drew it, although its baselines
\* are replaced by ones every renderer agrees on; only a text that cannot
\* be measured a second time may move.
TextStaysInPlace ==
  page = "mermaid" =>
    \A o \in Outputs :
      o.drawing.text.measured # 1 =>
        /\ o.textAt - o.drawing.text.y < BaselineThreshold
        /\ o.drawing.text.y - o.textAt < BaselineThreshold

\* The raster picture stays within the limits of page and host, is at most
\* twice as large, has the proportions of the drawing to a pixel, and is the
\* largest of these: one pixel more each way would break a limit.
RasterFits ==
  page = "mermaid" =>
    \A o \in Outputs :
      LET w == o.pixels.width
          h == o.pixels.height
          longest == MaximumDimension["mermaid"]
      IN /\ w \in 1..longest /\ h \in 1..longest
         /\ w * h <= MaximumRasterPixels
         /\ w = 1 \/ (w * Unit <= 2 * o.size.width
                        /\ w * o.size.height < (h + 1) * o.size.width)
         /\ h = 1 \/ (h * Unit <= 2 * o.size.height
                        /\ h * o.size.width < (w + 1) * o.size.height)
         /\ \/ (w + 1) * Unit > 2 * o.size.width
            \/ (h + 1) * Unit > 2 * o.size.height
            \/ w = longest \/ h = longest
            \/ (w + 1) * (h + 1) > MaximumRasterPixels

\* What only the host minds: a place that begins with a space, a name that
\* ends in href, CSS from a file, and addresses of CSS outside a style.
OnlyTheHostMinds(attribute) ==
  \/ attribute.name = "href" /\ attribute.value = "paddedAnchor"
  \/ attribute.name = "suffixedHref" /\ attribute.value # "anchor"
  \/ attribute.name = "style" /\ attribute.value = "fileCSS"
  \/ attribute.name = "other"
       /\ attribute.value \in {"import", "remoteCSS", "fileCSS"}

\* Where the host may find fault with a Mermaid picture that the page let
\* pass: the list is complete.
HostDisagrees(output) ==
  \/ ~(output.drawing.bytes <= MaximumSVGLength["mermaid"])
  \/ output.drawing.textReadsActive
  \/ \E i \in Shown(output.tree) :
       \/ output.drawing.kind[i] = "filing"
       \/ \E a \in output.tree.attributes[i] : OnlyTheHostMinds(a)
  \/ \E a \in output.tree.attributes[0] : ReadsActive(a)
  \/ ~output.png.decodes \/ ~output.png.opens
  \/ ~(output.png.bytes <= MaximumPNGBytes)

\* The host takes a picture a page answers for a failure that may pass, and so
\* asks for it again, in the listed cases and no others: bytes, which page and
\* host count differently, text and attributes that only the host minds,
\* active attributes of the svg element, and pictures the system does not
\* open.
HostAcceptsThePicture ==
  (answer # None /\ answer.kind = "svg") =>
    LET o == answer.output
    IN HostOutcome(page, answer) = "transientFailure" <=>
         \/ page = "mermaid" /\ HostDisagrees(o)
         \/ page = "mathjax"
              /\ \/ ~(o.drawing.bytes <= MaximumSVGLength["mathjax"])
                 \/ ~o.drawing.opens /\ MathJaxCost(o) <= MaximumCacheCost

\* A wait that its timer ended is never taken for a fault of the source:
\* the host would not draw that source again.
TimeoutIsTransient ==
  [][TimerFires => HostOutcome(page, answer') = "transientFailure"]_vars

\* Between calls, and once the library is done, nothing of an earlier call
\* is left: no node of Mermaid, no timer, at most the last formula.
PageIsLeftClean ==
  call.phase = "idle" =>
    /\ timers = {}
    /\ \A n \in nodes :
         \/ page = "mathjax" /\ n.node = "svg"
         \/ n.node = "scratch" /\ Contains(library, n.call)
    /\ Cardinality({n \in nodes : n.node = "svg"}) <= 1

\* Every call is answered, also when the library never answers or the image
\* never ends: only timers are fair.
EveryCallIsAnswered ==
  \A n \in 1..MaxCalls :
    (call.number = n /\ call.phase # "idle")
      ~> (call.number = n /\ call.phase = "idle")

\* If images end, well or badly, no object URL stays, also when the call that
\* made it has long given up.
ObjectURLsAreRevoked ==
  WF_vars(ImageEnds) => \A n \in 1..MaxCalls : n \in images ~> n \notin images
=============================================================================
