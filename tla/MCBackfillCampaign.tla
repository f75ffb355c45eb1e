------------------------- MODULE MCBackfillCampaign -------------------------
(* One episode and one setting book of one chunk; an edit makes it longer.  *)
EXTENDS BackfillCampaign
MCOrder == <<"ep", "book">>
MCChunks == <<1, 2, 1>>
=============================================================================
