CONSTANT Readable <- MCReadable
SPECIFICATION Spec
INVARIANT DocumentedSpecsServe
