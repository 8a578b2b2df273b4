SPECIFICATION Spec
INVARIANT DefaultsToTrue
