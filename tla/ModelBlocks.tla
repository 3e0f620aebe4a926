---------------------------- MODULE ModelBlocks -----------------------------
(***************************************************************************)
(* The two readers of the blocks of a page: the harness, which makes typed *)
(* blocks and a page text of them (ocr_bench/models/parsers.py), and the   *)
(* standalone client, which makes Markdown                                 *)
(* (clients/runpod-ocr-client/runpod_parse_document.py).  Each has tables  *)
(* of its own of what the labels of dots.ocr, TeleOCR and PaddleOCR-VL     *)
(* mean.                                                                   *)
(*                                                                         *)
(* A block is [label, text]; its text is "" (none), " " (white space only) *)
(* or "some".  What is read of a block is [block, as]: its number, and     *)
(* what becomes of it.                                                     *)
(***************************************************************************)
EXTENDS ModelText

(* The models whose replies are blocks. *)
BlockModels == {"dotsocr", "teleocr", "paddleocr_vl"}

(* str.strip *)
Stripped(text) == IF text = " " THEN "" ELSE text

-----------------------------------------------------------------------------
(* The harness.                                                            *)

(* _TELEOCR_BLOCK_TYPE *)
TeleocrBlockType(label) ==
  CASE label = "table" -> "table"
    [] label \in {"image", "char"} -> "figure"
    [] label = "header" -> "header"
    [] label \in {"footer", "page_number", "page_footnote"} -> "footer"
    [] OTHER -> "text"

(* _PADDLE_BLOCK_TYPE *)
PaddleBlockType(label) ==
  CASE label = "table" -> "table"
    [] label \in {"image", "chart", "seal", "header_image", "footer_image"} -> "figure"
    [] label = "header" -> "header"
    [] label \in {"footer", "footnote", "number"} -> "footer"
    [] OTHER -> "text"

TypeOf(model, label) ==
  CASE model = "dotsocr" -> BlockType(label)
    [] model = "teleocr" -> TeleocrBlockType(label)
    [] model = "paddleocr_vl" -> PaddleBlockType(label)

(* postprocess_block: an equation is given its dollars, an empty one too. *)
PostprocessBlock(block) ==
  IF block.label = "equation" /\ Stripped(block.text) = "" THEN "$$$$" ELSE block.text

(* The text of a block, as its parser takes it.  TeleOCR is not asked for  *)
(* the text of an image.                                                   *)
TextOf(model, block) ==
  CASE model = "dotsocr" -> block.text
    [] model = "teleocr" -> IF block.label = "image" THEN "" ELSE PostprocessBlock(block)
    [] model = "paddleocr_vl" -> Stripped(block.text)

(* _dots_layout_json, teleocr_page, _paddle_layout: the blocks by type, and *)
(* the page text of all that are no figures.                               *)
HarnessPage(model, blocks) ==
  LET shown == SelectSeq([k \in 1..Len(blocks) |-> k],
                         LAMBDA k : model # "teleocr" \/ blocks[k].label \notin SkipTypes)
      type(k) == TypeOf(model, blocks[k].label)
  IN [blocks |-> [i \in 1..Len(shown) |-> [block |-> shown[i], as |-> type(shown[i])]],
      text   |-> SelectSeq(shown, LAMBDA k : type(k) # "figure" /\ TextOf(model, blocks[k]) # "")]

-----------------------------------------------------------------------------
(* The client: what becomes of a block: a placeholder, text, a table, or   *)
(* None.                                                                   *)
Part(block, pictures, left_out) ==
  IF block.label \in pictures THEN Picture
  ELSE IF block.label \in left_out \/ Stripped(block.text) = "" THEN None
  ELSE IF block.label \in {"table", "Table"} THEN "table" ELSE "text"

Unless(keep_furniture, furniture) == IF keep_furniture THEN {} ELSE furniture

(* dots_markdown *)
DotsPart(block, keep_furniture) ==
  Part(block, {"Picture"}, Unless(keep_furniture, {"Page-header", "Page-footer"}))

(* teleocr_markdown *)
TeleocrPart(block, keep_furniture) ==
  Part(block, {"image", "char"},
       SkipTypes \cup Unless(keep_furniture, {"header", "footer", "page_number", "page_footnote"}))

(* Mutant of PaddlePart: a picture in a header is text. *)
PaddlePartOfHeader(block, keep_furniture) ==
  Part(block, {"image", "chart", "seal", "footer_image"},
       Unless(keep_furniture, {"header", "footer", "footnote", "number"}))

(* paddle_markdown *)
PaddlePart(block, keep_furniture) ==
  Part(block, {"image", "chart", "seal", "header_image", "footer_image"},
       Unless(keep_furniture, {"header", "footer", "footnote", "number"}))

PartOf(model, block, keep_furniture) ==
  CASE model = "dotsocr" -> DotsPart(block, keep_furniture)
    [] model = "teleocr" -> TeleocrPart(block, keep_furniture)
    [] model = "paddleocr_vl" -> PaddlePart(block, keep_furniture)

(* The Markdown of a page: its parts in the order of the blocks. *)
ClientPage(model, blocks, keep_furniture) ==
  SelectSeq([k \in 1..Len(blocks) |->
              [block |-> k, as |-> PartOf(model, blocks[k], keep_furniture)]],
            LAMBDA part : part.as # None)

=============================================================================
