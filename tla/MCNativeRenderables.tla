------------------------ MODULE MCNativeRenderables ------------------------
(* Instance of NativeRenderables for TLC.                                    *)
EXTENDS NativeRenderables, TLC

(* The two renderables are interchangeable.                                  *)
RenderableSymmetry == Permutations(Renderables)
=============================================================================
