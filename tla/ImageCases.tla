----------------------------- MODULE ImageCases -----------------------------
(***************************************************************************)
(* Pages and blocks of all sizes, up to a bound.                           *)
(***************************************************************************)
EXTENDS ModelImages

CONSTANTS MaxWidth,   \* pixels of a side of a page that is resized
          CropWidth   \* ... of a page that blocks are cropped from

SizeCases == [kind : {"size"}, w : 1..MaxWidth, h : 1..MaxWidth]

(* smart_resize: a page is sent in multiples of Factor and within the      *)
(* bounds of its pixels, and the model's own smart_resize leaves it as it  *)
(* came, so that boxes are in pixels of the image sent; only where a side  *)
(* would be less than Factor the upper bound gives way.                    *)
(* resize_max_side and downscale_if_huge keep to their bounds.             *)
PagesFitTheModel ==
  Is("size") =>
    LET page == [w |-> case.w, h |-> case.h]
        sent == SmartResize(page)
        small == DownscaleIfHuge(page)
    IN /\ sent.w % Factor = 0 /\ sent.h % Factor = 0 /\ Pixels(sent) >= MinPixels
       /\ \/ Pixels(sent) <= MaxPixels /\ SmartResize(sent) = sent
          \/ Min({sent.w, sent.h}) = Factor
       /\ Max({ResizeMaxSide(page).w, ResizeMaxSide(page).h}) <= MaxSide
       /\ Pixels(small) <= HugePixels \/ Min({small.w, small.h}) = 1

Points == [x : 0..Units, y : 0..Units]
CropCases ==
  [kind : {"crop"}, w : {1, 2, CropWidth}, h : {1, CropWidth}, from : Points, to : Points,
   more : {<<>>} \cup {<<[x |-> u, y |-> u]>> : u \in 0..Units}, angle : {None, 90}]

(* crop_block, rotate_crop, resize_by_need: a block is cropped from within *)
(* the page and never empty, in whichever order its corners are given, two *)
(* regions that touch leave no pixel between them, and what is sent is     *)
(* large enough and no longer than MaxRatio allows.                        *)
BlocksFitTheModel ==
  Is("crop") =>
    LET size == [w |-> case.w, h |-> case.h]
        Block(points) == CropBlock(points, size)
        points == <<case.from, case.to>> \o case.more
        box  == Block(points)
        sent == ResizeByNeed(RotateCrop(SizeOfBox(box), case.angle))
        right == Block(<<[x |-> Max({case.from.x, case.to.x}), y |-> case.from.y],
                         [x |-> Units, y |-> case.to.y]>>)
    IN /\ 0 <= box.x1 /\ box.x1 < box.x2 /\ box.x2 <= case.w
       /\ 0 <= box.y1 /\ box.y1 < box.y2 /\ box.y2 <= case.h
       /\ Len(points) = 2 => box = Block(<<case.to, case.from>>) /\ right.x1 <= box.x2
       /\ Min({sent.w, sent.h}) >= MinEdge
       /\ Max({sent.w, sent.h}) <= MaxRatio * Min({sent.w, sent.h})

=============================================================================
