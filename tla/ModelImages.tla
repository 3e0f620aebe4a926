---------------------------- MODULE ModelImages -----------------------------
(***************************************************************************)
(* What size an image has when a model gets it (ocr_bench/models/          *)
(* imaging.py): a size is [w, h] in pixels, a rectangle [x1, y1, x2, y2]   *)
(* in pixels of an image or in units of 1/Units of its sides.  Roots and   *)
(* quotients are exact here, where the code rounds floating-point numbers. *)
(***************************************************************************)
EXTENDS Absent

CONSTANTS Units,                           \* 1000
          Factor, MinPixels, MaxPixels,    \* of smart_resize
          MaxSide,                         \* of resize_max_side
          MinEdge, MaxRatio,               \* of resize_by_need
          HugePixels                       \* of downscale_if_huge

ASSUME ImagesAssumption ==
  /\ {Units, Factor, MinPixels, MaxPixels, MaxSide, MinEdge, MaxRatio, HugePixels} \subseteq Nat \ {0}
  /\ MinPixels <= MaxPixels

Clip(x, low, high) == Min({Max({x, low}), high})
Ceil(n, d) == (n + d - 1) \div d

(* round(n / d): to the nearest, a half to the even one. *)
Round(n, d) ==
  LET q == n \div d
      twice == 2 * (n % d)
  IN IF twice > d \/ (twice = d /\ q % 2 = 1) THEN q + 1 ELSE q

(* The largest k with k * k * d <= n, and the smallest with k * k * d >= n. *)
FloorRoot(n, d) == Max({k \in 0..(n \div d) : k * k <= n \div d})
CeilRoot(n, d) == Min({k \in 0..Ceil(n, d) : k * k >= Ceil(n, d)})

-----------------------------------------------------------------------------
Pixels(size) == size.w * size.h

(* Mutant of Grown: rounded down as well. *)
GrownLess(x, y) == FloorRoot(x * MinPixels, Factor * Factor * y) * Factor

(* A side of a page of too many pixels, shrunk by sqrt(pixels / MaxPixels), *)
(* and of too few, grown.                                                  *)
Shrunk(x, y) == Max({Factor, FloorRoot(x * MaxPixels, Factor * Factor * y) * Factor})
Grown(x, y)  == CeilRoot(x * MinPixels, Factor * Factor * y) * Factor

(* smart_resize: sides are multiples of Factor. *)
SmartResize(size) ==
  LET Side(x) == Max({Factor, Round(x, Factor) * Factor})
      rounded == [w |-> Side(size.w), h |-> Side(size.h)]
  IN IF Pixels(rounded) > MaxPixels
       THEN [w |-> Shrunk(size.w, size.h), h |-> Shrunk(size.h, size.w)]
     ELSE IF Pixels(rounded) < MinPixels
       THEN [w |-> Grown(size.w, size.h), h |-> Grown(size.h, size.w)]
     ELSE rounded

(* resize_max_side *)
ResizeMaxSide(size) ==
  LET longest == Max({size.w, size.h})
      Side(x) == Max({1, Round(x * MaxSide, longest)})
  IN IF longest <= MaxSide THEN size ELSE [w |-> Side(size.w), h |-> Side(size.h)]

(* downscale_if_huge *)
DownscaleIfHuge(size) ==
  LET Side(x, y) == Max({1, FloorRoot(x * HugePixels, y)})
  IN IF Pixels(size) <= HugePixels THEN size
     ELSE [w |-> Side(size.w, size.h), h |-> Side(size.h, size.w)]

-----------------------------------------------------------------------------
(* Mutant of RegionToPixels: as it is rounded, down to nothing. *)
RegionRounded(r, size) ==
  [x1 |-> Round(Min({r.x1, r.x2}) * size.w, Units), y1 |-> Round(Min({r.y1, r.y2}) * size.h, Units),
   x2 |-> Round(Max({r.x1, r.x2}) * size.w, Units), y2 |-> Round(Max({r.y1, r.y2}) * size.h, Units)]

(* region_to_pixels: corners in any order, at least one pixel each way. *)
RegionToPixels(r, size) ==
  LET x1 == Clip(Round(Min({r.x1, r.x2}) * size.w, Units), 0, size.w - 1)
      y1 == Clip(Round(Min({r.y1, r.y2}) * size.h, Units), 0, size.h - 1)
  IN [x1 |-> x1, y1 |-> y1,
      x2 |-> Min({Max({Round(Max({r.x1, r.x2}) * size.w, Units), x1 + 1}), size.w}),
      y2 |-> Min({Max({Round(Max({r.y1, r.y2}) * size.h, Units), y1 + 1}), size.h})]

(* crop_block: two points are a region; of more, the rectangle around their *)
(* pixels, as far as it is in the image, or one pixel.                     *)
CropBlock(points, size) ==
  LET xs == {Round(points[k].x * size.w, Units) : k \in 1..Len(points)}
      ys == {Round(points[k].y * size.h, Units) : k \in 1..Len(points)}
      box == [x1 |-> Max({Min(xs), 0}), y1 |-> Max({Min(ys), 0}),
              x2 |-> Min({Max(xs) + 1, size.w}), y2 |-> Min({Max(ys) + 1, size.h})]
  IN IF Len(points) = 2
       THEN RegionToPixels([x1 |-> points[1].x, y1 |-> points[1].y,
                            x2 |-> points[2].x, y2 |-> points[2].y], size)
     ELSE IF box.x2 <= box.x1 \/ box.y2 <= box.y1 THEN [x1 |-> 0, y1 |-> 0, x2 |-> 1, y2 |-> 1]
     ELSE box

SizeOfBox(box) == [w |-> box.x2 - box.x1, h |-> box.y2 - box.y1]

(* rotate_crop *)
RotateCrop(size, angle) == IF angle \in {90, 270} THEN [w |-> size.h, h |-> size.w] ELSE size

(* resize_by_need: padded to MaxRatio, then grown to MinEdge. *)
ResizeByNeed(size) ==
  LET long  == Max({size.w, size.h})
      short == Min({size.w, size.h})
      padded == IF long <= MaxRatio * short THEN size
                ELSE IF size.w > size.h THEN [size EXCEPT !.h = Ceil(size.w, MaxRatio)]
                ELSE [size EXCEPT !.w = Ceil(size.h, MaxRatio)]
      edge == Min({padded.w, padded.h})
  IN IF edge >= MinEdge THEN padded
     ELSE [w |-> Ceil(padded.w * MinEdge, edge), h |-> Ceil(padded.h * MinEdge, edge)]

=============================================================================
