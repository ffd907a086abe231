----------------------------- MODULE SvgToImage -----------------------------
(***************************************************************************)
(* WalletApp::svg_to_image (add_svg_renderer.py) and the receive screen's  *)
(* use of it: every frame the QR code's SVG is parsed, rasterised by resvg *)
(* into a tiny-skia Pixmap of the SVG's size truncated to whole pixels,    *)
(* and copied pixel by pixel into an egui::ColorImage, which is drawn as a *)
(* texture; on Err the screen shows "Failed to render QR code".            *)
(*                                                                         *)
(* The bytes resvg draws are abstracted to their provenance: byte c of the *)
(* pixel drawn at column px, row py is the value <<px, py, c>>.  The copy  *)
(* loop is modelled step by step with the code's index arithmetic; the     *)
(* reference picture is written with nested rows instead, so the check is  *)
(* that the arithmetic addresses the layout of both buffers.               *)
(***************************************************************************)
EXTENDS Naturals, SequencesExt

CONSTANT SvgSizes   \* [w, h] sizes tree.size() may report, in tenths of a unit

VARIABLES
    size,      \* tree.size() of the QR code's SVG (the same SVG every frame)
    width,     \* size.width() as u32
    height,    \* size.height() as u32
    pixels,    \* pixmap.data()
    image,     \* color_image.pixels
    x, y,      \* the copy loop's indices
    pc,        \* "parse", "alloc", "loop", "ok" or "err"
    shown      \* the receive screen's last frame: a texture of a ColorImage, or
               \* the failure label

vars == <<size, width, height, pixels, image, x, y, pc, shown>>

\* `f as u32` on a non-negative f32 rounds toward zero.
AsU32(tenths) == tenths \div 10

\* Byte c (1 = r .. 4 = a) of the premultiplied pixel resvg drew at (px, py).
Drawn(px, py, c) == <<px, py, c>>

\* egui::Color32::WHITE: four bytes 255, none of them a drawn byte (c = 0).
White == [c \in 1..4 |-> <<0, 0, 0>>]

(***************************************************************************)
(* resvg::render then pixmap.data(): tiny-skia keeps the rows top to        *)
(* bottom, each row's pixels left to right, four bytes RGBA per pixel.     *)
(***************************************************************************)
RenderedData(w, h) ==
    FlattenSeq([r \in 1..h |->
        FlattenSeq([q \in 1..w |-> [c \in 1..4 |-> Drawn(q - 1, r - 1, c)]])])

Init ==
    /\ size \in SvgSizes
    /\ width = 0 /\ height = 0
    /\ pixels = << >> /\ image = << >>
    /\ x = 0 /\ y = 0
    /\ pc = "parse"
    /\ shown = [texture |-> FALSE, image |-> << >>]

\* usvg::Tree::from_str succeeds; the pixmap's size is the tree's, truncated.
Parse ==
    /\ pc = "parse"
    /\ width' = AsU32(size.w)
    /\ height' = AsU32(size.h)
    /\ pc' = "alloc"
    /\ UNCHANGED <<size, pixels, image, x, y, shown>>

\* "Failed to parse SVG: ..."
ParseFailed ==
    /\ pc = "parse"
    /\ pc' = "err"
    /\ UNCHANGED <<size, width, height, pixels, image, x, y, shown>>

\* Pixmap::new returns None for a zero width or height: "Failed to create
\* pixmap".
AllocFailed ==
    /\ pc = "alloc"
    /\ width = 0 \/ height = 0
    /\ pc' = "err"
    /\ UNCHANGED <<size, width, height, pixels, image, x, y, shown>>

\* Pixmap::new, resvg::render, and ColorImage::new([width, height], WHITE).
Render ==
    /\ pc = "alloc"
    /\ width # 0 /\ height # 0
    /\ pixels' = RenderedData(width, height)
    /\ image' = [k \in 1..width * height |-> White]
    /\ x' = 0 /\ y' = 0
    /\ pc' = "loop"
    /\ UNCHANGED <<size, width, height, shown>>

\* Variant: the row stride taken from the height instead of the width.
CopyPixelHeightStride ==
    /\ pc = "loop"
    /\ y < height /\ x < width
    /\ LET i == (y * height + x) * 4
       IN  image' = [image EXCEPT ![y * height + x + 1] =
                        <<pixels[i + 1], pixels[i + 2], pixels[i + 3], pixels[i + 4]>>]
    /\ x' = x + 1
    /\ UNCHANGED <<size, width, height, pixels, y, pc, shown>>

\* One pass of the inner loop body: i = (y * width + x) * 4, and
\* Color32::from_rgba_premultiplied(r, g, b, a) keeps the four bytes as they are.
CopyPixel ==
    /\ pc = "loop"
    /\ y < height /\ x < width
    /\ LET i == (y * width + x) * 4
       IN  image' = [image EXCEPT ![y * width + x + 1] =
                        <<pixels[i + 1], pixels[i + 2], pixels[i + 3], pixels[i + 4]>>]
    /\ x' = x + 1
    /\ UNCHANGED <<size, width, height, pixels, y, pc, shown>>

\* The inner loop is done: the outer loop's next row.
NextRow ==
    /\ pc = "loop"
    /\ y < height /\ x = width
    /\ x' = 0 /\ y' = y + 1
    /\ UNCHANGED <<size, width, height, pixels, image, pc, shown>>

\* Ok(color_image).
LoopDone ==
    /\ pc = "loop"
    /\ y = height
    /\ pc' = "ok"
    /\ UNCHANGED <<size, width, height, pixels, image, x, y, shown>>

\* The receive screen: ui.image of the texture on Ok, "Failed to render QR
\* code" on Err; the next frame converts the SVG again.
Show ==
    /\ pc \in {"ok", "err"}
    /\ shown' = [texture |-> pc = "ok", image |-> IF pc = "ok" THEN image ELSE << >>]
    /\ pc' = "parse"
    /\ UNCHANGED <<size, width, height, pixels, image, x, y>>

Next ==
    \/ Parse \/ ParseFailed \/ AllocFailed \/ Render
    \/ CopyPixel \/ NextRow \/ LoopDone \/ Show

Spec == Init /\ [][Next]_vars

-----------------------------------------------------------------------------
\* The picture resvg drew, as egui should hold it: one row after another,
\* a pixel being its four bytes.
Picture(w, h) ==
    FlattenSeq([r \in 1..h |->
        [q \in 1..w |-> [c \in 1..4 |-> Drawn(q - 1, r - 1, c)]]])

(***************************************************************************)
(* The QR code on screen is the picture resvg drew, pixel for pixel: when  *)
(* svg_to_image returns Ok, every pixel of the ColorImage holds the four   *)
(* bytes of the pixmap pixel at the same column and row, and the receive   *)
(* screen draws exactly such an image or the failure label.  The copy loop *)
(* computes a byte offset into the pixmap and a pixel offset into the      *)
(* image from x, y and the width; a wrong stride shows only on an image    *)
(* that is not square.                                                     *)
(***************************************************************************)
ImageIsPicture ==
    /\ pc = "ok" => image = Picture(width, height)
    /\ shown.texture => shown.image = Picture(AsU32(size.w), AsU32(size.h))

=============================================================================
