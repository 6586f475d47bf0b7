--------------------------- MODULE MCModelCatalog ---------------------------
(***************************************************************************)
(* TLC instance of ModelCatalog: a model whose levels, modalities and      *)
(* safety threshold change, one that comes and goes, and a list of which   *)
(* the filter leaves nothing.                                              *)
(***************************************************************************)
EXTENDS ModelCatalog, TLC

CONSTANTS pro, flash

MCFamily == (pro :> "gemini-3") @@ (flash :> "gemini-2.5")

RawModel(accepted, types, levels, thresholds) ==
  [accepted |-> accepted, types |-> types, levels |-> levels, thresholds |-> thresholds]

MCFallback ==
  pro :> [modalities |-> {"TEXT"}, levels |-> {}, thresholds |-> {}]

MCRawCatalogs ==
  { (pro :> RawModel(TRUE, {"TEXT", "IMAGE"}, {2, 4}, {"OFF", "LOW"})),
    (pro :> RawModel(TRUE, {"IMAGE"}, {1, 3}, {"BLOCK_NONE"}))
      @@ (flash :> RawModel(TRUE, {}, {}, {})),
    (pro :> RawModel(FALSE, {"TEXT"}, {1}, {"OFF"})) }

Want(model, level, budget, modalities, threshold) ==
  [model |-> model, level |-> level, budget |-> budget,
   modalities |-> modalities, threshold |-> threshold]

MCWants ==
  { Want(pro, 3, FALSE, {"TEXT"}, "BLOCK_NONE"),
    Want(pro, 2, TRUE, Unset, "OFF"),
    Want(pro, Lowest, FALSE, Unset, "none"),
    Want(pro, AnyLevel, FALSE, {}, "none"),
    Want(flash, 4, TRUE, {"TEXT", "IMAGE"}, "none") }
=============================================================================
