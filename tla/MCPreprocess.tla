----------------------------- MODULE MCPreprocess -----------------------------
(***************************************************************************)
(* Preprocess for TLC: the limits of the code and the values beside them.  *)
(***************************************************************************)
EXTENDS Preprocess

MCUpload(s, e, v) == [sniffed |-> s, ext |-> e, preferVision |-> v]

MCUploads == {MCUpload("pdf", "pdf", TRUE), MCUpload("pdf", "none", FALSE),
              MCUpload("image", "unknown", TRUE), MCUpload("image", "pdf", TRUE),
              MCUpload("other", "pdf", FALSE)}

MCText(n, l, s, k, d) ==
    [len |-> n, letters |-> l, spaces |-> s, signal |-> k, dump |-> d]

MCTexts == {MCText(199, 150, 40, TRUE, FALSE), MCText(200, 60, 40, TRUE, FALSE),
            MCText(200, 59, 40, TRUE, FALSE), MCText(500, 400, 39, FALSE, FALSE),
            MCText(12001, 400, 40, FALSE, FALSE), MCText(12001, 9000, 900, TRUE, TRUE)}

MCPictures == {<<1, 1000000>>, <<5000, 4000>>, <<5000, 4001>>}

=============================================================================
