----------------------------- MODULE MCHttpPipeline -----------------------------
(* Transformers before and after the one for CORS, and the default error     *)
(* handler before one that only reports errors; for the Lambda run, only the *)
(* transformer and the error handler that are always there.                  *)
EXTENDS HttpPipeline

MCTransformers == <<"hal", "cors", "other">>
MCErrorHandlers == <<"default", "sentry">>

LambdaTransformers == <<"cors">>
LambdaErrorHandlers == <<"default">>
===============================================================================
